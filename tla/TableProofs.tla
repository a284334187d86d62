----------------------------- MODULE TableProofs -----------------------------
(***************************************************************************)
(* EachRowOnce, TableTypeOK and WholeTable for every number of pages, slots   *)
(* and failures, every set of texts with the numbers atoi makes of them, and  *)
(* every order of the index; then LookupRight and IndexMaintained, from what  *)
(* BPlusTreeProofs says of one insert, delete or search.                     *)
(***************************************************************************)
EXTENDS Table, BPlusTreeProofs

(* The strengthening: no row has been changed before the loop of an UPDATE    *)
(* begins, and while it runs, none of those it still has to visit: those of    *)
(* later pages, and those of its page from slot up to limit.  The rows it     *)
(* adds lie behind limit, which is no more than the page had slots.          *)
Quiet(p) == \A s \in DOMAIN pages[p] : pages[p][s].updates = 0

Counters == /\ pages \in Seq(Seq(Slots))
            /\ pid \in Nat \ {0} /\ slot \in Nat /\ limit \in Nat
            /\ pc \in {"build", "update", "delete"} /\ slot > 0 => pid <= Len(pages)
            /\ pc = "ready" => slot = 0
            /\ stmt.set \in Values \cup {NoValue, Other, Unknown}
            /\ pc = "insert" => stmt.set \in Values
            /\ pc = "update" => stmt.set # NoValue

QuietBefore == pc \in {"closed", "build", "ready", "insert"} =>
                 \A p \in DOMAIN pages : Quiet(p)

QuietAhead ==
  pc = "update" =>
    /\ \A p \in DOMAIN pages : p > pid => Quiet(p)
    /\ slot = 0 /\ pid \in DOMAIN pages => Quiet(pid)
    /\ slot > 0 => /\ limit <= Len(pages[pid])
                   /\ \A s \in slot..limit : pages[pid][s].updates = 0

TableInv == Counters /\ EachRowOnce /\ QuietBefore /\ QuietAhead

-----------------------------------------------------------------------------
\* A page is replaced by another.
LEMMA PageReplaced ==
  ASSUME NEW pg \in Seq(Seq(Slots)), NEW p \in DOMAIN pg, NEW q \in Seq(Slots),
         NEW new, new = [pg EXCEPT ![p] = q]
  PROVE  /\ new \in Seq(Seq(Slots)) /\ DOMAIN new = DOMAIN pg /\ Len(new) = Len(pg)
         /\ new[p] = q /\ \A i \in DOMAIN pg \ {p} : new[i] = pg[i]
  OBVIOUS

\* A slot of a page is emptied.
LEMMA SlotEmptied ==
  ASSUME NEW q \in Seq(Slots), NEW s \in DOMAIN q, NEW new, new = [q EXCEPT ![s] = Dead]
  PROVE  /\ new \in Seq(Slots) /\ Len(new) = Len(q) /\ DOMAIN new = DOMAIN q
         /\ new[s] = Dead /\ \A i \in DOMAIN q \ {s} : new[i] = q[i]
<1>1. Dead \in Slots
  BY DEF Dead, Slots
<1> QED
  BY <1>1

\* A row is added behind the slots of a page.
LEMMA RowAdded ==
  ASSUME NEW q \in Seq(Slots), NEW r \in Slots, NEW new, new = Append(q, r)
  PROVE  /\ new \in Seq(Slots) /\ Len(new) = Len(q) + 1
         /\ new[Len(q) + 1] = r /\ \A i \in DOMAIN q : new[i] = q[i]
  OBVIOUS

\* AddEntry leaves the process where the code goes on, or ends it.
LEMMA EntryGoesOn ==
  ASSUME NEW t, NEW key, NEW loc, NEW next, AddEntry(t, key, loc, next)
  PROVE  pc' \in {next, "crashed"}
  BY DEF AddEntry, Enter

-----------------------------------------------------------------------------
\* The tables of TablesAssumption have no row that was changed.
LEMMA TableInvInit == Init => TableInv
<1> SUFFICES ASSUME Init PROVE TableInv
  OBVIOUS
<1> DEFINE Stored == {Dead} \cup {Row(v) : v \in Values}
<1>1. pages \in Seq(Seq(Stored))
  BY TablesAssumption DEF Init
<1>2. ASSUME NEW p \in DOMAIN pages
      PROVE  pages[p] \in Seq(Slots) /\ \A s \in DOMAIN pages[p] : pages[p][s].updates = 0
  <2>1. pages[p] \in Seq(Stored)
    BY <1>1
  <2>2. Stored \subseteq Slots /\ \A r \in Stored : r.updates = 0
    BY DEF Slots, Dead, Row
  <2> HIDE DEF Stored
  <2> QED
    BY <2>1, <2>2
<1>3. pages \in Seq(Seq(Slots))
  <2> HIDE DEF Stored
  <2> QED
    BY <1>1, <1>2
<1>4. Counters
  BY <1>3 DEF Init, Counters, NoStmt
<1>5. EachRowOnce /\ QuietBefore /\ QuietAhead
  BY <1>2 DEF Init, EachRowOnce, QuietBefore, QuietAhead, Quiet
<1> QED
  BY <1>4, <1>5 DEF TableInv

\* A step that leaves the pages as they are and enters no loop.
LEMMA PagesKept ==
  ASSUME TableInv, UNCHANGED pages, UNCHANGED loop,
         pc' \in {"done", "crashed"}, stmt'.set \in Values \cup {NoValue, Other, Unknown}
  PROVE  TableInv'
  BY DEF TableInv, Counters, EachRowOnce, QuietBefore, QuietAhead, Quiet, loop

-----------------------------------------------------------------------------
\* A loop goes on to the next page.
LEMMA NextPageKeeps ==
  ASSUME TableInv, UNCHANGED <<pages, pc, stmt>>, pid' = pid + 1, slot' = 0, limit' \in Nat, pc # "ready"
  PROVE  TableInv'
<1>1. Counters'
  BY DEF TableInv, Counters
<1>2. EachRowOnce' /\ QuietBefore'
  BY DEF TableInv, EachRowOnce, QuietBefore, Quiet
<1>3. ASSUME pc = "update", NEW p \in DOMAIN pages, p > pid
      PROVE  \A s \in DOMAIN pages[p] : pages[p][s].updates = 0
  BY <1>3 DEF TableInv, QuietAhead, Quiet
<1>4. pid \in Nat /\ DOMAIN pages \subseteq Nat
  BY DEF TableInv, Counters
<1>5. ASSUME pc = "update", NEW p \in DOMAIN pages, p >= pid'
      PROVE  \A s \in DOMAIN pages[p] : pages[p][s].updates = 0
  BY <1>3, <1>4, <1>5
<1>6. QuietAhead'
  BY <1>4, <1>5 DEF QuietAhead, Quiet
<1> QED
  BY <1>1, <1>2, <1>6 DEF TableInv

\* To open a table and to build its index changes no row.
LEMMA BuildKeeps == ASSUME TableInv, table_open \/ Build PROVE TableInv'
<1> USE DEF TableInv
<1>1. CASE table_open
  <2>1. UNCHANGED <<pages, stmt>> /\ pc = "closed" /\ pc' = "build" /\ pid' = 1 /\ slot' = 0 /\ limit' = 0
    BY <1>1 DEF table_open
  <2> QED
    BY <2>1 DEF Counters, EachRowOnce, QuietBefore, QuietAhead, Quiet
<1>2. CASE PinPage
  <2>1. UNCHANGED <<pages, pc, pid, stmt>> /\ slot' = 1 /\ limit' = Len(pages[pid]) /\ slot = 0
        /\ pid \in DOMAIN pages /\ pc \in {"build", "delete", "update"}
    BY <1>2 DEF PinPage, InLoop, Counters
  <2>2. limit' \in Nat /\ DOMAIN pages[pid] = 1..Len(pages[pid])
    BY <2>1 DEF Counters
  <2>3. Counters'
    BY <2>1, <2>2 DEF Counters
  <2>4. EachRowOnce' /\ QuietBefore'
    BY <2>1 DEF EachRowOnce, QuietBefore, Quiet
  <2>5. ASSUME pc = "update" PROVE \A s \in 1..Len(pages[pid]) : pages[pid][s].updates = 0
    BY <2>1, <2>2, <2>5 DEF QuietAhead, Quiet
  <2>6. QuietAhead'
    BY <2>1, <2>2, <2>5 DEF QuietAhead, Quiet
  <2> QED
    BY <2>3, <2>4, <2>6
<1>3. CASE SkipPage
  <2>1. UNCHANGED <<pages, pc, slot, limit, stmt>> /\ pid' = pid + 1 /\ slot = 0 /\ pc # "ready"
    BY <1>3 DEF SkipPage, InLoop
  <2> QED
    BY <2>1, NextPageKeeps DEF Counters
<1>4. CASE NextPage
  <2>1. UNCHANGED <<pages, pc, stmt>> /\ pid' = pid + 1 /\ slot' = 0 /\ limit' = 0 /\ pc # "ready"
    BY <1>4 DEF NextPage
  <2> QED
    BY <2>1, NextPageKeeps DEF Counters
<1>5. CASE BuildRow
  <2>1. UNCHANGED <<pages, pid, limit, stmt>> /\ slot' = slot + 1 /\ pc = "build" /\ slot \in 1..limit
        /\ pc' \in {"build", "crashed"}
    BY <1>5, EntryGoesOn DEF BuildRow, PassSlot
  <2> QED
    BY <2>1 DEF Counters, EachRowOnce, QuietBefore, QuietAhead, Quiet
<1>6. CASE BuildDone
  <2>1. UNCHANGED <<pages, slot, limit, stmt>> /\ pc = "build" /\ pid > Len(pages) /\ pc' = "ready" /\ pid' = 1
    BY <1>6 DEF BuildDone
  <2>2. slot = 0
    BY <2>1 DEF Counters
  <2> QED
    BY <2>1, <2>2 DEF Counters, EachRowOnce, QuietBefore, QuietAhead, Quiet
<1> QED
  BY <1>1, <1>2, <1>3, <1>4, <1>5, <1>6 DEF Build

\* A lookup, a scan and the beginning of a statement change no row.
LEMMA StatementKeeps == ASSUME TableInv, Statement PROVE TableInv'
<1>1. CASE IndexLookup \/ FullScan
  <2>1. UNCHANGED pages /\ UNCHANGED loop /\ pc' \in {"done", "crashed"}
    BY <1>1 DEF IndexLookup, FullScan
  <2>2. stmt'.set \in Values \cup {NoValue, Other, Unknown}
    BY <1>1 DEF IndexLookup, FullScan
  <2> QED
    BY <2>1, <2>2, PagesKept
<1>2. CASE StartInsert
  BY <1>2, TableAssumption DEF StartInsert, loop, TableInv, Counters, EachRowOnce, QuietBefore, QuietAhead, Quiet
<1>3. CASE StartChange
  <2>1. UNCHANGED <<pages, pid, slot, limit>> /\ pc = "ready" /\ pc' \in {"delete", "update"}
    BY <1>3 DEF StartChange, loop
  <2>2. stmt'.set \in Values \cup {NoValue, Other, Unknown}
    BY <1>3, TableAssumption DEF StartChange
  <2>3. NoValue \notin Values \cup {Other, Unknown}
    BY ValuesAssumption DEF NoValue, Other, Unknown
  <2>4. ASSUME pc' = "update" PROVE stmt'.set # NoValue
    <3>1. stmt'.op = "update"
      BY <1>3, <2>4 DEF StartChange
    <3>2. \/ stmt'.op = "delete"
          \/ \E set \in NewValues \cup {Other, Unknown} : stmt'.set = set
      BY <1>3 DEF StartChange
    <3>3. stmt'.set \in Values \cup {Other, Unknown}
      BY <3>1, <3>2, TableAssumption
    <3> QED
      BY <2>3, <3>3
  <2> QED
    BY <2>1, <2>2, <2>4 DEF TableInv, Counters, EachRowOnce, QuietBefore, QuietAhead, Quiet
<1> QED
  BY <1>1, <1>2, <1>3 DEF Statement

-----------------------------------------------------------------------------
\* A page that gets a row nobody has changed, outside the loops of a change.
LEMMA RowKeeps ==
  ASSUME TableInv, NEW p \in DOMAIN pages,
         NEW r \in Slots, r.updates = 0, pages' = [pages EXCEPT ![p] = Append(@, r)],
         UNCHANGED <<loop, stmt>>, pc' \in {"done", "crashed"}
  PROVE  TableInv'
<1>1. pages \in Seq(Seq(Slots)) /\ pages[p] \in Seq(Slots)
  BY DEF TableInv, Counters
<1> DEFINE q == Append(pages[p], r)
<1>2. /\ q \in Seq(Slots) /\ Len(q) = Len(pages[p]) + 1
      /\ q[Len(pages[p]) + 1] = r /\ \A i \in DOMAIN pages[p] : q[i] = pages[p][i]
  BY <1>1, RowAdded
<1>3. \A s \in DOMAIN q : q[s].updates <= 1
  <2>1. DOMAIN q = 1..(Len(pages[p]) + 1) /\ DOMAIN pages[p] = 1..Len(pages[p])
    BY <1>1, <1>2
  <2>2. \A s \in DOMAIN q : s \in DOMAIN pages[p] \/ s = Len(pages[p]) + 1
    BY <1>1, <2>1
  <2> HIDE DEF q
  <2> QED
    BY <1>2, <2>2 DEF TableInv, EachRowOnce
<1>4. pages' = [pages EXCEPT ![p] = q]
  OBVIOUS
<1> HIDE DEF q
<1>5. /\ pages' \in Seq(Seq(Slots)) /\ DOMAIN pages' = DOMAIN pages /\ Len(pages') = Len(pages)
      /\ pages'[p] = q /\ \A i \in DOMAIN pages \ {p} : pages'[i] = pages[i]
  BY <1>1, <1>2, <1>4, PageReplaced
<1>6. Counters'
  BY <1>5 DEF TableInv, Counters, loop
<1>7. EachRowOnce'
  BY <1>3, <1>5 DEF TableInv, EachRowOnce
<1> QED
  BY <1>6, <1>7 DEF TableInv, QuietBefore, QuietAhead

\* INSERT adds a row that was not changed.
LEMMA InsertKeeps == ASSUME TableInv, Insert PROVE TableInv'
<1>1. CASE FullPage
  <2>1. UNCHANGED <<pages, pc, slot, limit, stmt>> /\ pc = "insert" /\ pid' = pid + 1
    BY <1>1 DEF FullPage, history
  <2> QED
    BY <2>1 DEF TableInv, Counters, EachRowOnce, QuietBefore, QuietAhead, Quiet
<1>2. ASSUME pc = "insert" PROVE Row(stmt.set) \in Slots /\ Row(stmt.set).updates = 0
  BY <1>2 DEF TableInv, Counters, Row, Slots
<1>3. CASE InsertRow
  <2>1. pc = "insert" /\ UNCHANGED <<loop, stmt>> /\ pc' \in {"done", "crashed"}
    BY <1>3, EntryGoesOn DEF InsertRow
  <2>2. pid \in DOMAIN pages /\ pages' = [pages EXCEPT ![pid] = Append(@, Row(stmt.set))]
    BY <1>3 DEF InsertRow, TableInv, Counters
  <2> QED
    BY <1>2, <2>1, <2>2, RowKeeps
<1>4. CASE NewPage
  <2>1. pc = "insert" /\ UNCHANGED <<loop, stmt>> /\ pc' \in {"done", "crashed"}
    BY <1>4, EntryGoesOn DEF NewPage
  <2>2. stmt'.set \in Values \cup {NoValue, Other, Unknown}
    BY <2>1 DEF TableInv, Counters
  <2>3. CASE UNCHANGED pages
    BY <2>1, <2>2, <2>3, PagesKept
  <2>4. CASE pages' = Append(pages, <<Row(stmt.set)>>)
    <3>1. pages \in Seq(Seq(Slots)) /\ <<Row(stmt.set)>> \in Seq(Slots)
      BY <1>2, <2>1 DEF TableInv, Counters
    <3>2. /\ pages' \in Seq(Seq(Slots)) /\ Len(pages') = Len(pages) + 1
          /\ pages'[Len(pages) + 1] = <<Row(stmt.set)>>
          /\ \A i \in DOMAIN pages : pages'[i] = pages[i]
      BY <2>4, <3>1
    <3>3. Counters'
      BY <2>1, <2>2, <3>1, <3>2 DEF TableInv, Counters, loop
    <3>4. ASSUME NEW p \in DOMAIN pages' PROVE \A s \in DOMAIN pages'[p] : pages'[p][s].updates <= 1
      <4>1. p \in DOMAIN pages \/ p = Len(pages) + 1
        BY <3>1, <3>2
      <4>2. CASE p \in DOMAIN pages
        BY <3>2, <4>2 DEF TableInv, EachRowOnce
      <4>3. CASE p = Len(pages) + 1
        BY <1>2, <2>1, <3>2, <4>3
      <4> QED
        BY <4>1, <4>2, <4>3
    <3>5. EachRowOnce'
      BY <3>4 DEF EachRowOnce
    <3> QED
      BY <2>1, <3>3, <3>5 DEF TableInv, QuietBefore, QuietAhead
  <2> QED
    BY <1>4, <2>3, <2>4 DEF NewPage
<1> QED
  BY <1>1, <1>3, <1>4 DEF Insert
-----------------------------------------------------------------------------
\* The loop of a change passes a slot: the page may have lost that row and got
\* another behind limit that was changed once.
LEMMA SlotDone ==
  ASSUME TableInv, pc \in {"update", "delete"}, slot \in 1..limit,
         UNCHANGED <<pid, limit, stmt>>, slot' = slot + 1, pc' \in {pc, "crashed"},
         pages' \in Seq(Seq(Slots)), DOMAIN pages' = DOMAIN pages, Len(pages') = Len(pages),
         \A i \in DOMAIN pages \ {pid} : pages'[i] = pages[i],
         Len(pages'[pid]) >= Len(pages[pid]),
         \A s \in DOMAIN pages'[pid] : pages'[pid][s].updates <= 1,
         \A s \in DOMAIN pages[pid] \ {slot} : pages'[pid][s] = pages[pid][s]
  PROVE  TableInv'
<1>1. Counters'
  BY DEF TableInv, Counters
<1>2. EachRowOnce' /\ QuietBefore'
  BY DEF TableInv, EachRowOnce, QuietBefore
<1>3. slot \in Nat /\ limit \in Nat /\ pid \in Nat /\ pid \in DOMAIN pages
      /\ pages[pid] \in Seq(Slots) /\ pages'[pid] \in Seq(Slots)
  BY DEF TableInv, Counters
<1>4. ASSUME pc = "update", NEW p \in DOMAIN pages, p > pid
      PROVE  \A s \in DOMAIN pages'[p] : pages'[p][s].updates = 0
  <2>1. p # pid /\ p \in DOMAIN pages \ {pid}
    BY <1>3, <1>4
  <2>2. Quiet(p)
    BY <1>4 DEF TableInv, QuietAhead
  <2> QED
    BY <2>1, <2>2 DEF Quiet
<1>5. ASSUME pc = "update"
      PROVE  /\ limit <= Len(pages'[pid])
             /\ \A s \in slot + 1..limit : pages'[pid][s].updates = 0
  <2>1. limit <= Len(pages[pid]) /\ \A s \in slot..limit : pages[pid][s].updates = 0
    BY <1>3, <1>5 DEF TableInv, QuietAhead
  <2>2. \A s \in slot + 1..limit : s \in slot..limit /\ s \in DOMAIN pages[pid] \ {slot}
    BY <1>3, <2>1
  <2>3. ASSUME NEW s \in slot + 1..limit PROVE pages'[pid][s].updates = 0
    BY <2>1, <2>2
  <2>4. Len(pages[pid]) \in Nat /\ Len(pages'[pid]) \in Nat
    BY <1>3
  <2>5. limit <= Len(pages'[pid])
    BY <1>3, <2>1, <2>4
  <2> QED
    BY <2>3, <2>5
<1>6. QuietAhead'
  BY <1>3, <1>4, <1>5 DEF QuietAhead, Quiet
<1> QED
  BY <1>1, <1>2, <1>6 DEF TableInv

\* The page of the loop with the row at slot deleted, and n rows behind the others.
Emptied(n) ==
  /\ pages' \in Seq(Seq(Slots)) /\ DOMAIN pages' = DOMAIN pages /\ Len(pages') = Len(pages)
  /\ \A i \in DOMAIN pages \ {pid} : pages'[i] = pages[i]
  /\ pid \in DOMAIN pages /\ slot \in DOMAIN pages[pid] /\ pages[pid] \in Seq(Slots)
  /\ pages'[pid] \in Seq(Slots) /\ Len(pages'[pid]) = Len(pages[pid]) + n
  /\ pages'[pid][slot] = Dead
  /\ \A s \in DOMAIN pages[pid] \ {slot} : pages'[pid][s] = pages[pid][s]

\* page_delete.
LEMMA RowEmptied ==
  ASSUME TableInv, pc \in {"update", "delete"}, slot \in 1..limit, slot \in Live(pid),
         pages' = [pages EXCEPT ![pid][slot] = Dead]
  PROVE  Emptied(0)
<1>1. pages \in Seq(Seq(Slots)) /\ pid \in DOMAIN pages /\ pages[pid] \in Seq(Slots)
      /\ slot \in DOMAIN pages[pid]
  BY DEF TableInv, Counters, Live
<1> DEFINE q == [pages[pid] EXCEPT ![slot] = Dead]
<1>2. /\ q \in Seq(Slots) /\ Len(q) = Len(pages[pid]) /\ DOMAIN q = DOMAIN pages[pid]
      /\ q[slot] = Dead /\ \A i \in DOMAIN pages[pid] \ {slot} : q[i] = pages[pid][i]
  BY <1>1, SlotEmptied
<1>3. pages' = [pages EXCEPT ![pid] = q]
  OBVIOUS
<1> HIDE DEF q
<1>4. /\ pages' \in Seq(Seq(Slots)) /\ DOMAIN pages' = DOMAIN pages /\ Len(pages') = Len(pages)
      /\ pages'[pid] = q /\ \A i \in DOMAIN pages \ {pid} : pages'[i] = pages[i]
  BY <1>1, <1>2, <1>3, PageReplaced
<1>5. Len(pages'[pid]) = Len(pages[pid]) + 0
  BY <1>1, <1>2, <1>4
<1> QED
  BY <1>1, <1>2, <1>4, <1>5 DEF Emptied

\* page_delete, and page_insert of the new version.
LEMMA RowMoved ==
  ASSUME TableInv, UpdateRow
  PROVE  /\ Emptied(1) /\ pages'[pid][Len(pages[pid]) + 1].updates = 1
         /\ pages'[pid][Len(pages[pid]) + 1] = Updated(pages[pid][slot])
         /\ pc = "update" /\ slot \in 1..limit /\ pc' \in {pc, "crashed"}
         /\ UNCHANGED <<pid, limit, stmt>> /\ slot' = slot + 1
<1>1. /\ pages \in Seq(Seq(Slots)) /\ pid \in DOMAIN pages /\ pages[pid] \in Seq(Slots)
      /\ slot \in DOMAIN pages[pid] /\ pages[pid][slot] \in Slots \ {Dead}
      /\ pc = "update" /\ slot \in 1..limit /\ stmt.set # Unknown
      /\ UNCHANGED <<pid, limit, stmt>> /\ slot' = slot + 1
  BY DEF UpdateRow, AtSlot, TableInv, Counters, Live
<1>2. pages[pid][slot].updates = 0
  BY <1>1 DEF TableInv, Counters, QuietAhead
<1> DEFINE row == pages[pid][slot]
           new == Updated(row)
           e   == [pages[pid] EXCEPT ![slot] = Dead]
           q   == Append(e, new)
<1>3. new \in Slots /\ new.updates = 1
  <2>1. stmt.set \in Values \cup {Other}
    BY <1>1 DEF UpdateRow, TableInv, Counters
  <2>2. row.value \in Values
    BY <1>1 DEF Slots
  <2> QED
    BY <1>2, <2>1, <2>2 DEF Slots, Updated
<1>4. pages' = [pages EXCEPT ![pid] = q]
  BY DEF UpdateRow
<1>5. pc' \in {pc, "crashed"}
  BY <1>1, EntryGoesOn DEF UpdateRow, ReplaceEntry, Enter
<1>6. /\ e \in Seq(Slots) /\ Len(e) = Len(pages[pid]) /\ DOMAIN e = DOMAIN pages[pid]
      /\ e[slot] = Dead /\ \A i \in DOMAIN pages[pid] \ {slot} : e[i] = pages[pid][i]
  BY <1>1, SlotEmptied
<1> HIDE DEF new, e
<1>7. /\ q \in Seq(Slots) /\ Len(q) = Len(e) + 1
      /\ q[Len(e) + 1] = new /\ \A i \in DOMAIN e : q[i] = e[i]
  BY <1>3, <1>6, RowAdded
<1> HIDE DEF q
<1>8. /\ pages' \in Seq(Seq(Slots)) /\ DOMAIN pages' = DOMAIN pages /\ Len(pages') = Len(pages)
      /\ pages'[pid] = q /\ \A i \in DOMAIN pages \ {pid} : pages'[i] = pages[i]
  BY <1>1, <1>4, <1>7, PageReplaced
<1>9. /\ Len(pages'[pid]) = Len(pages[pid]) + 1 /\ pages'[pid][slot] = Dead
      /\ \A s \in DOMAIN pages[pid] \ {slot} : pages'[pid][s] = pages[pid][s]
      /\ pages'[pid][Len(pages[pid]) + 1].updates = 1
      /\ pages'[pid][Len(pages[pid]) + 1] = new
  BY <1>1, <1>3, <1>6, <1>7, <1>8
<1> QED
  BY <1>1, <1>3, <1>5, <1>7, <1>8, <1>9 DEF Emptied, new

\* Either keeps the invariant.
LEMMA EmptiedKeeps ==
  ASSUME TableInv, pc \in {"update", "delete"}, slot \in 1..limit, NEW n \in {0, 1}, Emptied(n),
         n = 1 => pages'[pid][Len(pages[pid]) + 1].updates = 1,
         UNCHANGED <<pid, limit, stmt>>, slot' = slot + 1, pc' \in {pc, "crashed"}
  PROVE  TableInv'
<1>1. /\ pages' \in Seq(Seq(Slots)) /\ DOMAIN pages' = DOMAIN pages /\ Len(pages') = Len(pages)
      /\ \A i \in DOMAIN pages \ {pid} : pages'[i] = pages[i]
      /\ pid \in DOMAIN pages /\ slot \in DOMAIN pages[pid] /\ pages[pid] \in Seq(Slots)
      /\ pages'[pid] \in Seq(Slots) /\ Len(pages'[pid]) = Len(pages[pid]) + n
      /\ pages'[pid][slot] = Dead
      /\ \A s \in DOMAIN pages[pid] \ {slot} : pages'[pid][s] = pages[pid][s]
  BY DEF Emptied
<1>2. Len(pages'[pid]) >= Len(pages[pid])
  BY <1>1
<1>3. ASSUME NEW s \in DOMAIN pages'[pid] PROVE pages'[pid][s].updates <= 1
  <2>1. s = slot \/ s \in DOMAIN pages[pid] \ {slot} \/ (n = 1 /\ s = Len(pages[pid]) + 1)
    <3>1. s \in 1..Len(pages[pid]) + n /\ Len(pages[pid]) \in Nat
      BY <1>1
    <3>2. s \in 1..Len(pages[pid]) \/ (n = 1 /\ s = Len(pages[pid]) + 1)
      BY <3>1
    <3>3. DOMAIN pages[pid] = 1..Len(pages[pid])
      BY <1>1
    <3> QED
      BY <3>2, <3>3
  <2>2. Dead.updates <= 1
    BY DEF Dead, Row
  <2>3. \A i \in DOMAIN pages[pid] : pages[pid][i].updates <= 1
    BY <1>1 DEF TableInv, EachRowOnce
  <2> QED
    BY <1>1, <2>1, <2>2, <2>3
<1> QED
  BY <1>1, <1>2, <1>3, SlotDone

\* Passing, changing and losing rows keep it too.
LEMMA ChangeKeeps == ASSUME TableInv, Change PROVE TableInv'
<1>1. CASE PassRow
  <2>1. /\ pc \in {"update", "delete"} /\ slot \in 1..limit /\ pid \in DOMAIN pages
        /\ UNCHANGED <<pages, pc, pid, limit, stmt>> /\ slot' = slot + 1
    BY <1>1 DEF PassRow, AtSlot, PassSlot, TableInv, Counters
  <2>2. pages \in Seq(Seq(Slots)) /\ Len(pages[pid]) \in Nat
        /\ \A s \in DOMAIN pages[pid] : pages[pid][s].updates <= 1
    BY <2>1 DEF TableInv, Counters, EachRowOnce
  <2> QED
    BY <2>1, <2>2, SlotDone
<1>2. CASE DeleteRow
  BY <1>2, RowEmptied, EmptiedKeeps DEF DeleteRow, AtSlot
<1>3. CASE UpdateRow
  BY <1>3, RowMoved, EmptiedKeeps
<1>4. CASE UpdateNoRoom
  BY <1>4, RowEmptied, EmptiedKeeps DEF UpdateNoRoom, AtSlot
<1>5. CASE ChangeDone
  <2>1. UNCHANGED pages /\ UNCHANGED <<loop, stmt>> /\ pc' = "done"
    BY <1>5 DEF ChangeDone
  <2>2. stmt'.set \in Values \cup {NoValue, Other, Unknown}
    BY <2>1 DEF TableInv, Counters
  <2> QED
    BY <2>1, <2>2, PagesKept
<1> QED
  BY <1>1, <1>2, <1>3, <1>4, <1>5 DEF Change

-----------------------------------------------------------------------------
\* A row forgets that it was updated.
LEMMA RowSettled ==
  ASSUME NEW r \in Slots
  PROVE  [r EXCEPT !.updates = 0] \in Slots /\ [r EXCEPT !.updates = 0].updates = 0
BY DEF Slots, Dead, Row

\* The next statement finds rows nobody has changed.
LEMMA CloseKeeps == ASSUME TableInv, table_close PROVE TableInv'
<1>1. pages \in Seq(Seq(Slots)) /\ pages' = Settled(pages)
  BY DEF table_close, TableInv, Counters
<1>2. ASSUME NEW p \in DOMAIN pages'
      PROVE  pages'[p] \in Seq(Slots) /\ \A s \in DOMAIN pages'[p] : pages'[p][s].updates = 0
  <2>1. p \in DOMAIN pages /\ pages[p] \in Seq(Slots)
    BY <1>1 DEF Settled
  <2>2. pages'[p] = [s \in DOMAIN pages[p] |-> [pages[p][s] EXCEPT !.updates = 0]]
    BY <1>1, <2>1 DEF Settled
  <2>3. ASSUME NEW s \in DOMAIN pages[p]
        PROVE  [pages[p][s] EXCEPT !.updates = 0] \in Slots
               /\ [pages[p][s] EXCEPT !.updates = 0].updates = 0
    <3>1. pages[p][s] \in Slots
      BY <2>1
    <3> QED
      BY <3>1, RowSettled
  <2>4. DOMAIN pages[p] = 1..Len(pages[p]) /\ Len(pages[p]) \in Nat
    BY <2>1
  <2>5. \A s \in DOMAIN pages'[p] : pages'[p][s] \in Slots /\ pages'[p][s].updates = 0
    BY <2>2, <2>3
  <2>6. pages'[p] \in [1..Len(pages[p]) -> Slots]
    BY <2>2, <2>3, <2>4
  <2> QED
    BY <2>4, <2>5, <2>6, SeqDef
<1>3. pages' \in Seq(Seq(Slots))
  <2>1. DOMAIN pages' = 1..Len(pages) /\ Len(pages) \in Nat
    BY <1>1 DEF Settled
  <2>2. pages' \in [1..Len(pages) -> Seq(Slots)]
    BY <1>1, <1>2, <2>1 DEF Settled
  <2> QED
    BY <2>1, <2>2, SeqDef
<1>4. Counters'
  BY <1>3 DEF table_close, Counters, NoStmt
<1>5. EachRowOnce' /\ QuietBefore' /\ QuietAhead'
  BY <1>2 DEF table_close, EachRowOnce, QuietBefore, QuietAhead, Quiet
<1> QED
  BY <1>4, <1>5 DEF TableInv

\* Every step keeps the invariant.
LEMMA TableInvStep == TableInv /\ [Next]_vars => TableInv'
<1> SUFFICES ASSUME TableInv, [Next]_vars PROVE TableInv'
  OBVIOUS
<1>1. CASE table_open \/ Build
  BY <1>1, BuildKeeps
<1>2. CASE Statement
  BY <1>2, StatementKeeps
<1>3. CASE Insert
  BY <1>3, InsertKeeps
<1>4. CASE Change
  BY <1>4, ChangeKeeps
<1>5. CASE table_close
  BY <1>5, CloseKeeps
<1>6. CASE UNCHANGED vars
  BY <1>6 DEF vars, loop, TableInv, Counters, EachRowOnce, QuietBefore, QuietAhead, Quiet
<1> QED
  BY <1>1, <1>2, <1>3, <1>4, <1>5, <1>6 DEF Next, Progress, Stopped

(* TABLE_update (table.c) counts the slots of a page before its loop and writes  *)
(* the new version of a row behind them: no row is updated twice, however many  *)
(* pages there are, whatever they hold, and whatever could not be pinned.      *)
THEOREM RowOnce == Spec => []EachRowOnce
<1>1. TableInv => EachRowOnce
  BY DEF TableInv
<1> QED
  BY <1>1, TableInvInit, TableInvStep, PTL DEF Spec
-----------------------------------------------------------------------------
(* What TableTypeOK says beyond Counters, by what the actions change.        *)
LengthsFit == \A p \in DOMAIN pages : Len(pages[p]) <= PageSlots

LoopFits == /\ pid <= Len(pages) + 1
            /\ pc \in {"update", "delete"} /\ slot > 0 => limit <= Len(pages[pid])

AnswerFits == /\ answer \subseteq (1..Len(pages)) \X (1..PageSlots)
              /\ skipped \subseteq 1..Len(pages)

StmtFits == /\ pc \in PC
            /\ stmt \in [op : {"none", "lookup", "scan", "insert", "update", "delete"},
                         where : BOOLEAN, set : Values \cup {NoValue, Other, Unknown}]

FaultKinds == {"create", "pin", "key", "alloc", "root", "row"}
FaultsFit  == indexFaults \subseteq FaultKinds /\ faults \in 0..MaxFaults /\ statements \in 0..MaxStatements

\* Failures are counted up to their bound.
LEMMA FaultCounted ==
  ASSUME FaultsFit
  PROVE  /\ Fault => faults' \in 0..MaxFaults
         /\ \A f \in FaultKinds : IndexFault(f) => faults' \in 0..MaxFaults /\ indexFaults' \subseteq FaultKinds
         /\ NoFault => faults' \in 0..MaxFaults /\ indexFaults' \subseteq FaultKinds
<1>1. MaxFaults \in Nat
  BY TableAssumption
<1>2. Fault => faults' \in 0..MaxFaults
  BY <1>1 DEF FaultsFit, Fault
<1>3. ASSUME NEW f \in FaultKinds, IndexFault(f)
      PROVE  faults' \in 0..MaxFaults /\ indexFaults' \subseteq FaultKinds
  BY <1>2, <1>3, Zenon DEF FaultsFit, IndexFault
<1>4. NoFault => faults' \in 0..MaxFaults /\ indexFaults' \subseteq FaultKinds
  BY DEF FaultsFit, NoFault
<1> QED
  BY <1>2, <1>3, <1>4

\* So are those of an index entry.
LEMMA EntryCounted ==
  ASSUME FaultsFit, NEW t, NEW key, NEW loc, NEW next, AddEntry(t, key, loc, next)
  PROVE  faults' \in 0..MaxFaults /\ indexFaults' \subseteq FaultKinds
<1>1. "key" \in FaultKinds /\ "root" \in FaultKinds /\ "alloc" \in FaultKinds
  BY DEF FaultKinds
<1>2. NoFault \/ IndexFault("key") \/ IndexFault("root") \/ IndexFault("alloc")
  <2>1. CASE Enter(t, key, loc, 0, 0, next) /\ NoFault
    BY <2>1
  <2>2. CASE \E read \in Misread(key) : Enter(t, read, loc, 0, 0, next) /\ IndexFault("key")
    BY <2>2
  <2>3. CASE \E failAt \in 1..Allocations(t, key, loc), garbage \in Garbage :
               /\ Enter(t, key, loc, failAt, garbage, next)
               /\ IndexFault(IF RootFails(t, key, loc, failAt) THEN "root" ELSE "alloc")
    <3>1. PICK failAt \in 1..Allocations(t, key, loc) :
                 IndexFault(IF RootFails(t, key, loc, failAt) THEN "root" ELSE "alloc")
      BY <2>3
    <3>2. CASE RootFails(t, key, loc, failAt)
      BY <3>1, <3>2, Zenon
    <3>3. CASE ~RootFails(t, key, loc, failAt)
      BY <3>1, <3>3, Zenon
    <3> QED
      BY <3>2, <3>3
  <2> QED
    BY <2>1, <2>2, <2>3, Zenon DEF AddEntry
<1> QED
  BY <1>1, <1>2, FaultCounted, Zenon

\* Whatever fails is counted.
LEMMA FaultsStep == ASSUME TableInv, FaultsFit, Next PROVE FaultsFit'
<1>1. statements' \in 0..MaxStatements
  <2>1. CASE table_open
    BY <2>1, TableAssumption DEF table_open, FaultsFit
  <2>2. CASE ~table_open
    <3>1. statements' = statements
      BY <2>2, Zenon DEF Next, Progress, Stopped, Build, Statement, Insert, Change, PinPage, SkipPage, NextPage,
         BuildRow, BuildDone, IndexLookup, FullScan, StartInsert, StartChange, FullPage, InsertRow, NewPage,
         PassRow, DeleteRow, UpdateRow, UpdateNoRoom, ChangeDone, table_close, vars
    <3> QED
      BY <3>1 DEF FaultsFit
  <2> QED
    BY <2>1, <2>2
<1> DEFINE Goal == faults' \in 0..MaxFaults /\ indexFaults' \subseteq FaultKinds
<1> SUFFICES Goal
  BY <1>1 DEF FaultsFit
<1>2. faults' = faults /\ indexFaults' = indexFaults => Goal
  BY DEF FaultsFit
<1>3. Fault /\ indexFaults' = indexFaults => Goal
  BY FaultCounted DEF FaultsFit
<1>4. /\ NoFault => Goal
      /\ IndexFault("create") \/ IndexFault("pin") \/ IndexFault("key") => Goal
  <2>1. "create" \in FaultKinds /\ "pin" \in FaultKinds /\ "key" \in FaultKinds
    BY DEF FaultKinds
  <2> QED
    BY <2>1, FaultCounted, Zenon
<1>5. \A t, key, loc, next : AddEntry(t, key, loc, next) => Goal
  BY EntryCounted
<1> HIDE DEF Goal
<1>6. CASE table_open
  BY <1>4, <1>6 DEF table_open
<1>7. CASE Build
  <2>1. CASE PinPage \/ NextPage \/ BuildDone
    <3>1. faults' = faults /\ indexFaults' = indexFaults
      BY <2>1 DEF PinPage, NextPage, BuildDone, history
    <3> QED
      BY <1>2, <3>1
  <2>2. CASE SkipPage
    BY <1>3, <1>4, <2>2 DEF SkipPage
  <2>3. CASE BuildRow
    <3>1. \/ faults' = faults /\ indexFaults' = indexFaults
          \/ AddEntry(index, Key(pages[pid][slot]), <<pid, slot>>, "build")
      BY <2>3 DEF BuildRow, PassSlot
    <3> QED
      BY <1>2, <1>5, <3>1
  <2> QED
    BY <1>7, <2>1, <2>2, <2>3 DEF Build
<1>8. CASE Statement
  <2>1. CASE IndexLookup
    <3>1. indexFaults' = indexFaults /\ (faults' = faults \/ Fault)
      BY <2>1 DEF IndexLookup
    <3> QED
      BY <1>2, <1>3, <3>1
  <2>2. CASE FullScan
    <3>1. PICK missed \in SUBSET DOMAIN pages :
                 faults + Cardinality(missed) <= MaxFaults /\ faults' = faults + Cardinality(missed)
      BY <2>2 DEF FullScan
    <3>2. DOMAIN pages = 1..Len(pages) /\ Len(pages) \in Nat
      BY DEF TableInv, Counters
    <3>3. Cardinality(missed) \in Nat
      <4>1. IsFiniteSet(DOMAIN pages)
        BY <3>2, FS_Interval
      <4> QED
        BY <3>1, <4>1, FS_Subset, FS_CardinalityType
    <3>4. faults \in Nat /\ MaxFaults \in Nat /\ indexFaults' = indexFaults
      BY <2>2, TableAssumption DEF FaultsFit, FullScan
    <3>5. faults' \in 0..MaxFaults
      BY <3>1, <3>3, <3>4
    <3> QED
      BY <3>4, <3>5 DEF Goal, FaultsFit
  <2>3. CASE StartInsert \/ StartChange
    <3>1. faults' = faults /\ indexFaults' = indexFaults
      BY <2>3 DEF StartInsert, StartChange, history
    <3> QED
      BY <1>2, <3>1
  <2> QED
    BY <1>8, <2>1, <2>2, <2>3 DEF Statement
<1>9. CASE Insert
  <2>1. CASE FullPage
    <3>1. faults' = faults /\ indexFaults' = indexFaults
      BY <2>1 DEF FullPage, history
    <3> QED
      BY <1>2, <3>1
  <2>2. CASE InsertRow
    BY <1>5, <2>2 DEF InsertRow
  <2>3. CASE NewPage
    BY <1>3, <1>5, <2>3 DEF NewPage
  <2> QED
    BY <1>9, <2>1, <2>2, <2>3 DEF Insert
<1>10. CASE Change
  <2>1. CASE PassRow \/ ChangeDone
    <3>1. faults' = faults /\ indexFaults' = indexFaults
      BY <2>1 DEF PassRow, PassSlot, ChangeDone, history
    <3> QED
      BY <1>2, <3>1
  <2>2. CASE DeleteRow
    BY <1>4, <2>2 DEF DeleteRow
  <2>3. CASE UpdateRow
    <3>1. \/ faults' = faults /\ indexFaults' = indexFaults
          \/ \E t, key, loc, next : AddEntry(t, key, loc, next)
          \/ IndexFault("key")
      BY <2>3, Zenon DEF UpdateRow, ReplaceEntry
    <3> QED
      BY <1>2, <1>4, <1>5, <3>1
  <2>4. CASE UpdateNoRoom
    <3>1. faults' = faults /\ indexFaults' = indexFaults \cup {"row"}
      BY <2>4 DEF UpdateNoRoom
    <3> QED
      BY <3>1 DEF Goal, FaultsFit, FaultKinds
  <2> QED
    BY <1>10, <2>1, <2>2, <2>3, <2>4 DEF Change
<1>11. CASE table_close
  <2>1. faults' = faults /\ indexFaults' = {}
    BY <1>11 DEF table_close
  <2> QED
    BY <2>1 DEF Goal, FaultsFit
<1>12. CASE Stopped
  <2>1. faults' = faults /\ indexFaults' = indexFaults
    BY <1>12 DEF Stopped, vars, history
  <2> QED
    BY <1>2, <2>1
<1> QED
  BY <1>6, <1>7, <1>8, <1>9, <1>10, <1>11, <1>12 DEF Next, Progress
\* The intent and the state of the process are among those there are.
LEMMA StmtStep == ASSUME StmtFits, Next PROVE StmtFits'
<1>1. ASSUME UNCHANGED stmt, pc' \in PC PROVE StmtFits'
  BY <1>1 DEF StmtFits
<1>2. /\ "build" \in PC /\ "ready" \in PC /\ "insert" \in PC /\ "update" \in PC /\ "delete" \in PC
      /\ "done" \in PC /\ "crashed" \in PC /\ "closed" \in PC /\ pc \in PC
  BY DEF PC, StmtFits
<1>3. CASE table_open \/ Build
  <2>1. UNCHANGED stmt /\ pc' \in {pc, "build", "ready", "crashed"}
    BY <1>3, EntryGoesOn DEF table_open, Build, PinPage, SkipPage, NextPage, BuildRow, BuildDone, PassSlot
  <2> QED
    BY <1>1, <1>2, <2>1, Zenon
<1>4. CASE Statement
  <2>1. CASE IndexLookup
    <3>1. PICK v \in Values : stmt' = [op |-> "lookup", where |-> TRUE, set |-> v]
      BY <2>1 DEF IndexLookup
    <3>2. pc' \in {"done", "crashed"}
      BY <2>1 DEF IndexLookup
    <3> QED
      BY <1>2, <3>1, <3>2 DEF StmtFits
  <2>2. CASE FullScan
    <3>1. PICK where \in BOOLEAN : stmt' = [op |-> "scan", where |-> where, set |-> NoValue]
      BY <2>2 DEF FullScan
    <3>2. pc' = "done"
      BY <2>2 DEF FullScan
    <3> QED
      BY <1>2, <3>1, <3>2 DEF StmtFits
  <2>3. CASE StartInsert
    <3>1. PICK v \in NewValues : stmt' = [op |-> "insert", where |-> FALSE, set |-> v]
      BY <2>3 DEF StartInsert
    <3>2. pc' = "insert" /\ v \in Values
      BY <2>3, TableAssumption DEF StartInsert
    <3> QED
      BY <1>2, <3>1, <3>2 DEF StmtFits
  <2>4. CASE StartChange
    <3>1. PICK where \in BOOLEAN :
               \/ stmt' = [op |-> "delete", where |-> where, set |-> NoValue]
               \/ \E set \in NewValues \cup {Other, Unknown} :
                    stmt' = [op |-> "update", where |-> where, set |-> set]
      BY <2>4 DEF StartChange
    <3>2. pc' = stmt'.op /\ NewValues \subseteq Values
      BY <2>4, TableAssumption DEF StartChange
    <3> QED
      BY <1>2, <3>1, <3>2 DEF StmtFits
  <2> QED
    BY <1>4, <2>1, <2>2, <2>3, <2>4 DEF Statement
<1>5. CASE Insert
  <2>1. UNCHANGED stmt /\ pc' \in {pc, "done", "crashed"}
    BY <1>5, EntryGoesOn DEF Insert, FullPage, InsertRow, NewPage
  <2> QED
    BY <1>1, <1>2, <2>1, Zenon
<1>6. CASE Change
  <2>1. UNCHANGED stmt /\ pc' \in {pc, "update", "done", "crashed"}
    BY <1>6, EntryGoesOn DEF Change, PassRow, PassSlot, DeleteRow, UpdateRow, ReplaceEntry, Enter,
       UpdateNoRoom, ChangeDone
  <2> QED
    BY <1>1, <1>2, <2>1, Zenon
<1>7. CASE table_close
  <2>1. stmt' = NoStmt /\ pc' = "closed"
    BY <1>7 DEF table_close
  <2> QED
    BY <1>2, <2>1 DEF StmtFits, NoStmt
<1>8. CASE Stopped
  <2>1. UNCHANGED <<stmt, pc>>
    BY <1>8 DEF Stopped, vars
  <2> QED
    BY <1>1, <1>2, <2>1
<1> QED
  BY <1>3, <1>4, <1>5, <1>6, <1>7, <1>8 DEF Next, Progress
-----------------------------------------------------------------------------
\* No page gets more rows than it has room for, and the table loses no page.
LEMMA LengthsStep ==
  ASSUME TableInv, LengthsFit, Next
  PROVE  LengthsFit' /\ Len(pages') >= Len(pages)
<1>1. pages \in Seq(Seq(Slots)) /\ Len(pages) \in Nat /\ PageSlots \in Nat \ {0}
      /\ \A p \in DOMAIN pages : Len(pages[p]) \in Nat /\ Len(pages[p]) <= PageSlots
  BY TableAssumption DEF TableInv, Counters, LengthsFit
<1>2. ASSUME UNCHANGED pages PROVE LengthsFit' /\ Len(pages') >= Len(pages)
  BY <1>1, <1>2 DEF LengthsFit
<1>3. ASSUME NEW n \in {0, 1}, Emptied(n), n = 1 => Len(pages[pid]) < PageSlots
      PROVE  LengthsFit' /\ Len(pages') >= Len(pages)
  <2>1. /\ DOMAIN pages' = DOMAIN pages /\ Len(pages') = Len(pages) /\ pid \in DOMAIN pages
        /\ \A i \in DOMAIN pages \ {pid} : pages'[i] = pages[i]
        /\ Len(pages'[pid]) = Len(pages[pid]) + n
    BY <1>3, Zenon DEF Emptied
  <2>2. Len(pages'[pid]) <= PageSlots
    BY <1>1, <1>3, <2>1
  <2>3. \A p \in DOMAIN pages' : Len(pages'[p]) <= PageSlots
    BY <1>1, <2>1, <2>2
  <2> QED
    BY <1>1, <2>1, <2>3 DEF LengthsFit
<1>4. CASE InsertRow
  <2>1. /\ pid \in DOMAIN pages /\ pages[pid] \in Seq(Slots) /\ Len(pages[pid]) < PageSlots
        /\ pages' = [pages EXCEPT ![pid] = Append(@, Row(stmt.set))]
    BY <1>4 DEF InsertRow, TableInv, Counters
  <2>2. /\ DOMAIN pages' = DOMAIN pages /\ Len(pages') = Len(pages)
        /\ Len(pages'[pid]) = Len(pages[pid]) + 1
        /\ \A p \in DOMAIN pages \ {pid} : pages'[p] = pages[p]
    BY <1>1, <2>1
  <2> QED
    BY <1>1, <2>1, <2>2 DEF LengthsFit
<1>5. CASE NewPage
  <2>1. CASE pages' = Append(pages, <<Row(stmt.set)>>)
    <3>1. /\ DOMAIN pages' = 1..Len(pages) + 1 /\ Len(pages') = Len(pages) + 1
          /\ Len(pages'[Len(pages) + 1]) = 1
          /\ \A p \in DOMAIN pages : pages'[p] = pages[p]
      BY <1>1, <2>1
    <3>2. \A p \in DOMAIN pages' : p \in DOMAIN pages \/ p = Len(pages) + 1
      BY <1>1, <3>1
    <3>3. \A p \in DOMAIN pages : Len(pages'[p]) <= PageSlots
      BY <1>1, <3>1
    <3>4. Len(pages'[Len(pages) + 1]) <= PageSlots
      BY <1>1, <3>1
    <3>5. LengthsFit'
      BY <3>2, <3>3, <3>4, Zenon DEF LengthsFit
    <3> QED
      BY <1>1, <3>1, <3>5
  <2> QED
    BY <1>2, <1>5, <2>1 DEF NewPage
<1>6. CASE Change
  <2>1. CASE PassRow \/ ChangeDone
    BY <1>2, <2>1 DEF PassRow, PassSlot, ChangeDone
  <2>2. CASE DeleteRow \/ UpdateNoRoom
    <3>1. Emptied(0)
      BY <2>2, RowEmptied DEF DeleteRow, UpdateNoRoom, AtSlot
    <3> QED
      BY <1>3, <3>1
  <2>3. CASE UpdateRow
    <3>1. Emptied(1) /\ Len(pages[pid]) < PageSlots
      BY <2>3, RowMoved DEF UpdateRow
    <3> QED
      BY <1>3, <3>1
  <2> QED
    BY <1>6, <2>1, <2>2, <2>3 DEF Change
<1>7. CASE table_close
  <2>1. pages' = Settled(pages)
    BY <1>7 DEF table_close
  <2>2. DOMAIN pages' = DOMAIN pages /\ \A p \in DOMAIN pages : DOMAIN pages'[p] = DOMAIN pages[p]
    BY <2>1 DEF Settled
  <2>3. pages' \in Seq(Seq(Slots))
    BY TableInvStep DEF TableInv, Counters
  <2>4. Len(pages') = Len(pages) /\ \A p \in DOMAIN pages : Len(pages'[p]) = Len(pages[p])
    BY <1>1, <2>2, <2>3
  <2> QED
    BY <1>1, <2>2, <2>4 DEF LengthsFit
<1>8. CASE table_open \/ Build \/ Statement \/ FullPage \/ Stopped
  <2>1. UNCHANGED pages
    BY <1>8 DEF table_open, Build, PinPage, SkipPage, NextPage, BuildRow, PassSlot, BuildDone, Statement,
       IndexLookup, FullScan, StartInsert, StartChange, FullPage, Stopped, vars
  <2> QED
    BY <1>2, <2>1
<1> QED
  BY <1>4, <1>5, <1>6, <1>7, <1>8 DEF Next, Progress, Insert

\* The loops stay within the pages, and a change within the slots it counted.
LEMMA LoopStep == ASSUME TableInv, LengthsFit, LoopFits, Next PROVE LoopFits'
<1>1. /\ pid \in Nat \ {0} /\ slot \in Nat /\ limit \in Nat /\ Len(pages) \in Nat /\ Len(pages') \in Nat
      /\ Len(pages') >= Len(pages) /\ pid <= Len(pages) + 1
  BY LengthsStep, TableInvStep DEF TableInv, Counters, LoopFits
<1>2. ASSUME UNCHANGED pid, pc' \notin {"update", "delete"} PROVE LoopFits'
  BY <1>1, <1>2 DEF LoopFits
<1>3. ASSUME UNCHANGED pages, UNCHANGED <<pid, slot, limit>>, pc' = pc \/ slot = 0 PROVE LoopFits'
  BY <1>3 DEF LoopFits
<1>4. ASSUME UNCHANGED pages, pid' = pid + 1, pid <= Len(pages), slot' = 0 PROVE LoopFits'
  BY <1>1, <1>4 DEF LoopFits
<1>5. CASE table_open \/ table_close
  BY <1>1, <1>5 DEF table_open, table_close, LoopFits
<1>6. CASE Build
  <2>1. CASE PinPage
    <3>1. Len(pages[pid]) \in Nat
      BY <2>1, <1>1 DEF PinPage, InLoop, TableInv, Counters
    <3> QED
      BY <1>1, <2>1, <3>1 DEF PinPage, InLoop, LoopFits
  <2>2. CASE SkipPage
    BY <1>4, <2>2 DEF SkipPage, InLoop
  <2>3. CASE NextPage
    <3>1. slot > 0 /\ pc \in {"build", "update", "delete"}
      BY <1>1, <2>3 DEF NextPage
    <3>2. pid <= Len(pages)
      BY <3>1 DEF TableInv, Counters
    <3> QED
      BY <1>4, <2>3, <3>2 DEF NextPage
  <2>4. CASE BuildRow
    <3>1. UNCHANGED pid /\ pc' \in {"build", "crashed"}
      BY <2>4, EntryGoesOn DEF BuildRow, PassSlot
    <3> QED
      BY <1>2, <3>1
  <2>5. CASE BuildDone
    BY <1>1, <2>5 DEF BuildDone, LoopFits
  <2> QED
    BY <1>6, <2>1, <2>2, <2>3, <2>4, <2>5 DEF Build
<1>7. CASE Statement
  <2>1. UNCHANGED pages /\ UNCHANGED <<pid, slot, limit>> /\ slot = 0
    BY <1>7 DEF Statement, IndexLookup, FullScan, StartInsert, StartChange, loop, TableInv, Counters
  <2> QED
    BY <1>3, <2>1
<1>8. CASE Insert
  <2>1. CASE FullPage
    BY <1>1, <2>1 DEF FullPage, LoopFits
  <2>2. CASE InsertRow \/ NewPage
    <3>1. UNCHANGED pid /\ pc' \in {"done", "crashed"}
      BY <2>2, EntryGoesOn DEF InsertRow, NewPage, loop
    <3> QED
      BY <1>2, <3>1
  <2> QED
    BY <1>8, <2>1, <2>2 DEF Insert
<1>9. CASE Change
  <2>1. CASE ChangeDone
    BY <1>2, <2>1 DEF ChangeDone, loop
  <2>2. CASE PassRow
    BY <1>1, <2>2 DEF PassRow, AtSlot, PassSlot, LoopFits
  <2>3. ASSUME NEW n \in {0, 1}, Emptied(n), UNCHANGED <<pid, limit>>, pc \in {"update", "delete"}, slot \in 1..limit
        PROVE  LoopFits'
    <3>1. /\ pid \in DOMAIN pages /\ pages[pid] \in Seq(Slots) /\ pages'[pid] \in Seq(Slots)
          /\ Len(pages'[pid]) = Len(pages[pid]) + n /\ Len(pages') = Len(pages)
      BY <2>3 DEF Emptied
    <3>2. limit <= Len(pages[pid])
      BY <1>1, <2>3 DEF LoopFits
    <3>3. limit <= Len(pages'[pid])
      BY <1>1, <3>1, <3>2
    <3> QED
      BY <1>1, <2>3, <3>1, <3>3 DEF LoopFits
  <2>4. CASE DeleteRow \/ UpdateNoRoom
    <3>1. Emptied(0)
      BY <2>4, RowEmptied DEF DeleteRow, UpdateNoRoom, AtSlot
    <3> QED
      BY <2>3, <2>4, <3>1 DEF DeleteRow, UpdateNoRoom, AtSlot
  <2>5. CASE UpdateRow
    BY <2>3, <2>5, RowMoved
  <2> QED
    BY <1>9, <2>1, <2>2, <2>4, <2>5 DEF Change
<1>10. CASE Stopped
  BY <1>3, <1>10 DEF Stopped, vars, loop
<1> QED
  BY <1>5, <1>6, <1>7, <1>8, <1>9, <1>10 DEF Next, Progress

\* What a statement answers, or skips, is in the table.
LEMMA AnswerStep == ASSUME TableInv, LengthsFit, AnswerFits, Next PROVE AnswerFits'
<1>1. /\ Len(pages) \in Nat /\ Len(pages') \in Nat /\ Len(pages') >= Len(pages) /\ pid \in Nat \ {0}
      /\ DOMAIN pages = 1..Len(pages)
  BY LengthsStep, TableInvStep DEF TableInv, Counters
<1>2. ASSUME answer' \subseteq (1..Len(pages)) \X (1..PageSlots), skipped' \subseteq 1..Len(pages)
      PROVE  AnswerFits'
  <2>1. 1..Len(pages) \subseteq 1..Len(pages')
    BY <1>1
  <2> QED
    BY <1>2, <2>1 DEF AnswerFits
<1>3. answer \subseteq (1..Len(pages)) \X (1..PageSlots) /\ skipped \subseteq 1..Len(pages)
  BY DEF AnswerFits
<1>4. LiveAt \subseteq (1..Len(pages)) \X (1..PageSlots)
  <2>1. ASSUME NEW p \in DOMAIN pages, NEW s \in Live(p) PROVE s \in 1..PageSlots
    <3>1. s \in 1..Len(pages[p]) /\ Len(pages[p]) \in Nat /\ Len(pages[p]) <= PageSlots
      BY <2>1 DEF Live, TableInv, Counters, LengthsFit
    <3> QED
      BY <3>1, TableAssumption
  <2> QED
    BY <1>1, <2>1 DEF LiveAt
<1>5. CASE SkipPage
  <2>1. answer' = answer /\ pid \in 1..Len(pages) /\ (skipped' = skipped \/ skipped' = skipped \cup {pid})
    BY <1>1, <1>5 DEF SkipPage, InLoop
  <2> QED
    BY <1>2, <1>3, <2>1
<1>6. CASE IndexLookup
  <2>1. \E key :
             IF Unreachable(index, key) THEN pc' = "crashed" /\ UNCHANGED <<answer, faults>>
             ELSE LET hits == IF index = NoIndex THEN {} ELSE INDEX_search(index, key)
                  IN /\ pc' = "done"
                     /\ \/ answer' = hits \cap LiveAt /\ UNCHANGED faults
                        \/ hits # {} /\ answer' = {} /\ Fault
    BY <1>6 DEF IndexLookup
  <2>2. answer' = answer \/ answer' \subseteq LiveAt
    BY <2>1
  <2>3. skipped' = skipped \/ skipped' = 1..Len(pages)
    BY <1>6 DEF IndexLookup
  <2> QED
    BY <1>2, <1>3, <1>4, <2>2, <2>3
<1>7. CASE FullScan
  <2>1. answer' \subseteq LiveAt /\ skipped' \subseteq DOMAIN pages
    BY <1>7 DEF FullScan
  <2> QED
    BY <1>1, <1>2, <1>4, <2>1
<1>8. CASE table_close
  BY <1>2, <1>8 DEF table_close
<1>9. CASE \/ table_open \/ PinPage \/ NextPage \/ BuildRow \/ BuildDone
           \/ StartInsert \/ StartChange \/ Insert \/ Change \/ Stopped
  <2>1. answer' = answer /\ skipped' = skipped
    BY <1>9 DEF table_open, PinPage, NextPage, BuildRow, BuildDone, StartInsert, StartChange, Insert, FullPage,
       InsertRow, NewPage, Change, PassRow, DeleteRow, UpdateRow, UpdateNoRoom, ChangeDone, Stopped, vars, history
  <2> QED
    BY <1>2, <1>3, <2>1
<1> QED
  BY <1>5, <1>6, <1>7, <1>8, <1>9 DEF Next, Progress, Build, Statement

Typing == TableInv /\ LengthsFit /\ LoopFits /\ AnswerFits /\ StmtFits /\ FaultsFit

\* The first table fits.
LEMMA TypingInit == Init => Typing
<1> SUFFICES ASSUME Init PROVE Typing
  OBVIOUS
<1>1. TableInv
  BY TableInvInit
<1>2. /\ LengthsFit /\ Len(pages) \in Nat
  BY <1>1, TablesAssumption DEF Init, LengthsFit, TableInv, Counters
<1>3. LoopFits /\ AnswerFits
  BY <1>2 DEF Init, LoopFits, AnswerFits
<1>4. StmtFits
  BY DEF Init, StmtFits, NoStmt, PC
<1>5. FaultsFit
  BY TableAssumption DEF Init, FaultsFit
<1> QED
  BY <1>1, <1>2, <1>3, <1>4, <1>5 DEF Typing

\* And so do all that follow.
LEMMA TypingStep == Typing /\ [Next]_vars => Typing'
<1> SUFFICES ASSUME Typing, [Next]_vars PROVE Typing'
  OBVIOUS
<1>1. CASE Next
  BY <1>1, TableInvStep, LengthsStep, LoopStep, AnswerStep, StmtStep, FaultsStep DEF Typing
<1>2. CASE UNCHANGED vars
  <2>1. /\ UNCHANGED <<pages, pc, stmt, answer, faults, statements, skipped, indexFaults>>
        /\ UNCHANGED <<pid, slot, limit>>
    BY <1>2 DEF vars, loop, history
  <2>2. LengthsFit' /\ LoopFits' /\ AnswerFits'
    BY <2>1 DEF Typing, LengthsFit, LoopFits, AnswerFits
  <2>3. StmtFits' /\ FaultsFit'
    BY <2>1 DEF Typing, StmtFits, FaultsFit
  <2> QED
    BY <1>2, <2>2, <2>3, TableInvStep DEF Typing
<1> QED
  BY <1>1, <1>2

(* The loop counters of table.c stay within the table, no page gets more rows  *)
(* than fit it, and what a SELECT answers are places in the table, for tables  *)
(* and statements of any size.                                              *)
THEOREM TableTyped == Spec => []TableTypeOK
<1>1. Typing => TableTypeOK
  <2> SUFFICES ASSUME Typing PROVE TableTypeOK
    OBVIOUS
  <2>1. TableInv /\ LengthsFit /\ LoopFits /\ AnswerFits /\ StmtFits /\ FaultsFit
    BY DEF Typing
  <2>2. /\ pages \in Seq(Seq(Slots)) /\ \A p \in DOMAIN pages : Len(pages[p]) <= PageSlots
        /\ pid \in 1..Len(pages) + 1 /\ slot \in Nat /\ limit \in Nat
        /\ (pc \in {"update", "delete"} /\ slot > 0 => pid <= Len(pages) /\ limit <= Len(pages[pid]))
    BY <2>1 DEF TableInv, Counters, LengthsFit, LoopFits
  <2>3. /\ pc \in PC
        /\ stmt \in [op : {"none", "lookup", "scan", "insert", "update", "delete"},
                     where : BOOLEAN, set : Values \cup {NoValue, Other, Unknown}]
    BY <2>1, Zenon DEF StmtFits
  <2>4. /\ answer \subseteq (1..Len(pages)) \X (1..PageSlots) /\ skipped \subseteq 1..Len(pages)
        /\ indexFaults \subseteq {"create", "pin", "key", "alloc", "root", "row"}
        /\ faults \in 0..MaxFaults /\ statements \in 0..MaxStatements
    BY <2>1, Zenon DEF AnswerFits, FaultsFit, FaultKinds
  <2> QED
    BY <2>2, <2>3, <2>4, Zenon DEF TableTypeOK
<1> QED
  BY <1>1, TypingInit, TypingStep, PTL DEF Spec
-----------------------------------------------------------------------------
(* WholeTable is about the end of a statement.  Its strengthening says how     *)
(* far the loop has come: pages ahead and pages skipped are what they were     *)
(* (SoFar), those behind are worked through, and on the page it is at         *)
(* (Reached) the slots from slot on are what they were; without WHERE, those  *)
(* before it are dead, the rows behind limit are new versions, and there are  *)
(* as many of them as the page had live rows before slot, or room.           *)
Changing     == pc \in {"update", "delete"}
Untouched(p) == p > pid \/ (p = pid /\ slot = 0) \/ p \in skipped
Gone(n)      == Cardinality({s \in 1..n : before[pid][s] # Dead})
Cleared      == \A s \in 1..slot - 1 : pages[pid][s] = Dead

Stage == /\ before \in Seq(Seq(Slots))
         /\ pc \in {"closed", "build", "ready"} => skipped = {}
         /\ pc \in {"closed", "build", "ready", "insert"} => pages = before
         /\ pc = "ready" => pid = 1
         /\ pc \in {"insert", "update", "delete"} => stmt.op = pc /\ skipped \subseteq 1..pid - 1
         /\ pc = "delete" => stmt.set = NoValue

SoFar == Changing => /\ DOMAIN pages = DOMAIN before
                     /\ \A p \in DOMAIN pages : Untouched(p) => pages[p] = before[p]
                     /\ \A p \in DOMAIN pages : p < pid /\ p \notin skipped => Worked(p)

Reached ==
  Changing /\ slot > 0 =>
    /\ limit = Len(before[pid]) /\ slot <= limit + 1
    /\ \A s \in slot..limit : pages[pid][s] = before[pid][s]
    /\ DeletesAll => Len(pages[pid]) = limit /\ Cleared
    /\ UpdatesAll => /\ Cleared
                     /\ \A s \in limit + 1..Len(pages[pid]) : pages[pid][s].updates = 1
                     /\ Len(pages[pid]) - limit = Fewer(Gone(slot - 1), Room(pid))

WholeInv == Typing /\ Stage /\ SoFar /\ Reached /\ WholeTable

\* Outside the loops there is nothing to say but what WholeTable says.
LEMMA Outside ==
  ASSUME WholeInv, Typing', before' \in Seq(Seq(Slots)), WholeTable',
         pc' \notin {"closed", "build", "ready", "insert", "update", "delete"}
  PROVE  WholeInv'
BY DEF WholeInv, Stage, SoFar, Reached, Changing

\* Before the loops there is nothing but the pages as they were.
LEMMA AsBefore ==
  ASSUME Typing', before' \in Seq(Seq(Slots)), skipped' = {}, pages' = before',
         pc' \in {"closed", "build", "ready"}, pc' = "ready" => pid' = 1
  PROVE  WholeInv'
BY DEF WholeInv, Stage, SoFar, Reached, Changing, WholeTable

\* What WholeTable asks of a page stays so, as long as the page and the statement do.
LEMMA SameWork ==
  ASSUME NEW p, pages'[p] = pages[p], before' = before, stmt' = stmt, Worked(p)
  PROVE  Worked(p)'
<1>1. Live(p)' = Live(p)
  BY DEF Live
<1>2. Before(p)' = Before(p) /\ Room(p)' = Room(p)
  BY DEF Before, Room
<1>3. (DeletesAll' <=> DeletesAll) /\ (UpdatesAll' <=> UpdatesAll)
  BY Zenon DEF DeletesAll, UpdatesAll
<1>4. DeletesAll' => Live(p)' = {}
  BY <1>1, <1>3 DEF Worked
<1>5. UpdatesAll' => Cardinality(Live(p)') = Fewer(Before(p)', Room(p)')
  BY <1>1, <1>2, <1>3 DEF Worked
<1>6. UpdatesAll' => \A s \in Live(p)' : pages'[p][s].updates = 1
  BY <1>1, <1>3 DEF Worked
<1> QED
  BY <1>4, <1>5, <1>6 DEF Worked

\* One slot more, and perhaps one live row more.
LEMMA CountStep ==
  ASSUME NEW q, NEW n \in Nat \ {0}
  PROVE  LET C(k) == Cardinality({s \in 1..k : q[s] # Dead})
         IN /\ C(n - 1) \in Nat
            /\ q[n] # Dead => C(n) = C(n - 1) + 1
            /\ q[n] = Dead => C(n) = C(n - 1)
<1> DEFINE A == {s \in 1..n - 1 : q[s] # Dead}
           B == {s \in 1..n : q[s] # Dead}
<1>1. IsFiniteSet(1..n - 1) /\ A \in SUBSET (1..n - 1)
  BY FS_Interval
<1>2. IsFiniteSet(A)
  BY <1>1, FS_Subset
<1>3. Cardinality(A) \in Nat
  BY <1>2, FS_CardinalityType
<1>4. n \notin A
  OBVIOUS
<1>5. CASE q[n] # Dead
  <2>1. B = A \cup {n}
    BY <1>5
  <2> HIDE DEF A, B
  <2>2. Cardinality(B) = Cardinality(A) + 1
    BY <1>2, <1>4, <2>1, FS_AddElement
  <2> QED
    BY <1>3, <1>5, <2>2 DEF A, B
<1>6. CASE q[n] = Dead
  <2>1. B = A
    BY <1>6
  <2> QED
    BY <1>3, <1>6, <2>1
<1> QED
  BY <1>5, <1>6

\* A new version is not a dead slot.
LEMMA NewIsLive == ASSUME NEW r, r.updates = 1 PROVE r # Dead
BY DEF Dead, Row

\* The loop comes to the end of a page.
LEMMA PageWorked ==
  ASSUME WholeInv, Changing, slot > limit
  PROVE  Worked(pid) /\ pid \in DOMAIN pages
<1>1. /\ pid \in Nat \ {0} /\ slot \in Nat /\ limit \in Nat /\ pid \in DOMAIN pages /\ slot > 0
      /\ pages[pid] \in Seq(Slots) /\ Len(pages[pid]) \in Nat
  BY DEF WholeInv, Typing, TableInv, Counters, Changing
<1>2. /\ limit = Len(before[pid]) /\ slot = limit + 1 /\ limit <= Len(pages[pid])
      /\ pid \in DOMAIN before /\ before \in Seq(Seq(Slots))
  BY <1>1 DEF WholeInv, Reached, SoFar, Stage, Typing, LoopFits, Changing
<1>3. DOMAIN before[pid] = 1..limit /\ DOMAIN pages[pid] = 1..Len(pages[pid])
  BY <1>1, <1>2
<1>4. ASSUME DeletesAll PROVE Live(pid) = {}
  <2>1. Len(pages[pid]) = limit /\ \A s \in 1..limit : pages[pid][s] = Dead
    BY <1>1, <1>2, <1>4 DEF WholeInv, Reached, Cleared
  <2> QED
    BY <1>3, <2>1 DEF Live
<1>5. ASSUME UpdatesAll
      PROVE  /\ Cardinality(Live(pid)) = Fewer(Before(pid), Room(pid))
             /\ \A s \in Live(pid) : pages[pid][s].updates = 1
  <2>1. /\ \A s \in 1..limit : pages[pid][s] = Dead
        /\ \A s \in limit + 1..Len(pages[pid]) : pages[pid][s].updates = 1
        /\ Len(pages[pid]) - limit = Fewer(Gone(slot - 1), Room(pid))
    BY <1>1, <1>2, <1>5 DEF WholeInv, Reached, Cleared
  <2>2. \A s \in limit + 1..Len(pages[pid]) : pages[pid][s] # Dead
    BY <2>1, NewIsLive
  <2>3. Live(pid) = limit + 1..Len(pages[pid])
    BY <1>1, <1>2, <1>3, <2>1, <2>2 DEF Live
  <2>4. Cardinality(limit + 1..Len(pages[pid])) = Len(pages[pid]) - limit
    <3>1. ASSUME NEW n \in Nat, NEW m \in Nat, m <= n PROVE Cardinality(m + 1..n) = n - m
      <4>1. Cardinality(m + 1..n) = IF m + 1 > n THEN 0 ELSE n - (m + 1) + 1
        BY FS_Interval
      <4> QED
        BY <3>1, <4>1
    <3> QED
      BY <1>1, <1>2, <3>1
  <2>5. slot - 1 = limit
    BY <1>1, <1>2
  <2>6. Before(pid) = Gone(slot - 1)
    BY <1>3, <2>5 DEF Before, Gone
  <2> QED
    BY <2>1, <2>3, <2>4, <2>6
<1> QED
  BY <1>1, <1>4, <1>5 DEF Worked

\* A page the loop has not come to is as it was, and one it left is worked through.
LEMMA NextWhole ==
  ASSUME WholeInv, Typing', Changing, UNCHANGED <<pages, pc, stmt, before>>, pid' = pid + 1, slot' = 0,
         \/ slot = 0 /\ pid \in DOMAIN pages /\ skipped' = skipped \cup {pid}
         \/ slot > limit /\ skipped' = skipped
  PROVE  WholeInv'
<1>1. pid \in Nat \ {0} /\ DOMAIN pages \subseteq Nat
  BY DEF WholeInv, Typing, TableInv, Counters
<1>2. /\ stmt.op = pc /\ skipped \subseteq 1..pid - 1 /\ before \in Seq(Seq(Slots))
      /\ pc = "delete" => stmt.set = NoValue
      /\ DOMAIN pages = DOMAIN before
      /\ \A p \in DOMAIN pages : Untouched(p) => pages[p] = before[p]
      /\ \A p \in DOMAIN pages : p < pid /\ p \notin skipped => Worked(p)
  BY DEF WholeInv, Stage, SoFar, Changing
<1>3. Stage'
  <2>1. skipped' \subseteq skipped \cup {pid}
    OBVIOUS
  <2>2. \A p \in 1..pid - 1 : p \in 1..pid
    BY <1>1
  <2>3. pid \in 1..pid /\ pid' - 1 = pid
    BY <1>1
  <2>4. skipped' \subseteq 1..pid' - 1
    BY <1>2, <2>1, <2>2, <2>3
  <2> QED
    BY <1>2, <2>4 DEF Stage, Changing
<1>4. ASSUME NEW p \in DOMAIN pages, p > pid' \/ (p = pid' /\ slot' = 0) \/ p \in skipped'
      PROVE  pages[p] = before[p]
  <2>1. p > pid \/ (p = pid /\ slot = 0) \/ p \in skipped
    BY <1>1, <1>4
  <2> QED
    BY <1>2, <2>1 DEF Untouched
<1>5. ASSUME NEW p \in DOMAIN pages, p < pid', p \notin skipped' PROVE Worked(p)'
  <2>1. Worked(p)
    BY <1>1, <1>2, <1>5, PageWorked
  <2> QED
    BY <2>1, SameWork
<1>6. SoFar'
  BY <1>2, <1>4, <1>5 DEF SoFar, Untouched
<1> QED
  BY <1>3, <1>6 DEF WholeInv, Reached, WholeTable, Changing

\* The loop looks at the page it has come to.
LEMMA PinWhole ==
  ASSUME WholeInv, Typing', Changing, PinPage
  PROVE  WholeInv'
<1>1. /\ UNCHANGED <<pages, pc, stmt, before, pid, skipped>> /\ slot = 0 /\ slot' = 1
      /\ limit' = Len(pages[pid]) /\ pid <= Len(pages)
  BY DEF PinPage, InLoop, history
<1>2. /\ pid \in Nat \ {0} /\ pid \in DOMAIN pages /\ pages[pid] \in Seq(Slots) /\ Len(pages[pid]) \in Nat
      /\ Len(pages[pid]) <= PageSlots /\ PageSlots \in Nat
  BY <1>1, TableAssumption DEF WholeInv, Typing, TableInv, Counters, LengthsFit
<1>3. Stage'
  BY <1>1 DEF WholeInv, Stage, Changing
<1>4. /\ DOMAIN pages = DOMAIN before
      /\ \A p \in DOMAIN pages : Untouched(p) => pages[p] = before[p]
      /\ \A p \in DOMAIN pages : p < pid /\ p \notin skipped => Worked(p)
  BY DEF WholeInv, SoFar
<1>5. \A p \in DOMAIN pages : Untouched(p)' => pages'[p] = before'[p]
  <2>1. \A p \in DOMAIN pages : Untouched(p)' => Untouched(p)
    BY <1>1 DEF Untouched
  <2> QED
    BY <1>1, <1>4, <2>1
<1>6. ASSUME NEW p \in DOMAIN pages, p < pid, p \notin skipped PROVE Worked(p)'
  BY <1>1, <1>4, <1>6, SameWork
<1>7. SoFar'
  BY <1>1, <1>4, <1>5, <1>6 DEF SoFar
<1>8. pages[pid] = before[pid]
  BY <1>1, <1>2, <1>4 DEF Untouched
<1>9. /\ Cleared' /\ Gone(slot - 1)' = 0 /\ Room(pid)' = PageSlots - Len(pages[pid])
  <2>1. 1..slot' - 1 = {}
    BY <1>1
  <2>2. Cleared'
    BY <2>1 DEF Cleared
  <2>3. Gone(slot - 1)' = 0
    BY <2>1, FS_EmptySet DEF Gone
  <2>4. Room(pid)' = PageSlots - Len(pages[pid])
    BY <1>1, <1>8 DEF Room
  <2> QED
    BY <2>2, <2>3, <2>4
<1>10. Len(pages'[pid']) - limit' = Fewer(Gone(slot - 1)', Room(pid)')
  BY <1>1, <1>2, <1>9 DEF Fewer
<1>11. Reached'
  <2>1. /\ limit' = Len(before'[pid']) /\ slot' <= limit' + 1 /\ Len(pages'[pid']) = limit'
        /\ \A s \in slot'..limit' : pages'[pid'][s] = before'[pid'][s]
        /\ limit' + 1..Len(pages'[pid']) = {}
    BY <1>1, <1>2, <1>8
  <2> QED
    BY <1>9, <1>10, <2>1 DEF Reached
<1> QED
  BY <1>1, <1>3, <1>7, <1>11 DEF WholeInv, WholeTable, Changing

\* table_open and the loops' steps from page to page.
LEMMA BuildWhole == ASSUME WholeInv, Typing', table_open \/ Build PROVE WholeInv'
<1>1. Stage /\ before \in Seq(Seq(Slots)) /\ pages \in Seq(Seq(Slots))
  BY DEF WholeInv, Stage, Typing, TableInv, Counters
<1>2. CASE table_open
  <2>1. pc = "closed" /\ pc' = "build" /\ pages' = before' /\ before' = pages /\ skipped' = skipped
    BY <1>2 DEF table_open
  <2> QED
    BY <1>1, <2>1, AsBefore DEF Stage
<1>3. CASE pc = "build" /\ Build
  <2>1. UNCHANGED <<pages, before, skipped>> /\ pc' \in {"build", "ready", "crashed"}
    BY <1>3, EntryGoesOn DEF Build, PinPage, SkipPage, NextPage, BuildRow, PassSlot, BuildDone, history
  <2>2. pc' = "ready" => pid' = 1
    BY <1>3, EntryGoesOn DEF Build, PinPage, SkipPage, NextPage, BuildRow, PassSlot, BuildDone
  <2>3. pages = before /\ skipped = {}
    BY <1>1, <1>3 DEF Stage
  <2>4. CASE pc' = "crashed"
    BY <1>1, <2>1, <2>4, Outside DEF WholeTable
  <2>5. CASE pc' \in {"build", "ready"}
    BY <1>1, <2>1, <2>2, <2>3, <2>5, AsBefore
  <2> QED
    BY <2>1, <2>4, <2>5
<1>4. CASE Changing /\ PinPage
  BY <1>4, PinWhole
<1>5. CASE Changing /\ SkipPage
  <2>1. /\ UNCHANGED <<pages, pc, stmt, before>> /\ pid' = pid + 1 /\ slot = 0 /\ slot' = 0
        /\ skipped' = skipped \cup {pid} /\ pid <= Len(pages)
    BY <1>5 DEF SkipPage, InLoop, Changing
  <2>2. pid \in DOMAIN pages
    BY <2>1 DEF WholeInv, Typing, TableInv, Counters
  <2> QED
    BY <1>5, <2>1, <2>2, NextWhole
<1>6. CASE Changing /\ NextPage
  BY <1>6, NextWhole DEF NextPage, history
<1>7. CASE pc = "insert" /\ SkipPage
  <2>1. /\ UNCHANGED <<pages, pc, stmt, before>> /\ pid' = pid + 1
        /\ skipped' = skipped \cup {pid}
    BY <1>7 DEF SkipPage
  <2>2. pid \in Nat \ {0} /\ skipped \subseteq 1..pid - 1
    BY <1>1, <1>7 DEF Stage, WholeInv, Typing, TableInv, Counters
  <2>3. skipped' \subseteq 1..pid' - 1
    BY <2>1, <2>2
  <2>4. Stage'
    BY <1>1, <1>7, <2>1, <2>3 DEF Stage
  <2> QED
    BY <1>7, <2>1, <2>4 DEF WholeInv, SoFar, Reached, WholeTable, Changing
<1> QED
  BY <1>2, <1>3, <1>4, <1>5, <1>6, <1>7
     DEF Build, PinPage, SkipPage, NextPage, BuildRow, BuildDone, InLoop, Changing

\* SELECT changes no page, and the other statements start with the pages as they were.
LEMMA StatementWhole == ASSUME WholeInv, Typing', Statement PROVE WholeInv'
<1>1. /\ UNCHANGED <<pages, before>> /\ pages = before /\ skipped = {} /\ pid = 1 /\ slot = 0
      /\ pc = "ready" /\ before \in Seq(Seq(Slots)) /\ UNCHANGED <<pid, slot, limit>>
  BY DEF Statement, IndexLookup, FullScan, StartInsert, StartChange, loop, history,
         WholeInv, Stage, Typing, TableInv, Counters
<1>2. CASE IndexLookup \/ FullScan
  <2>1. stmt'.op \in {"lookup", "scan"} /\ pc' \in {"done", "crashed"}
    BY <1>2 DEF IndexLookup, FullScan
  <2>2. ~DeletesAll' /\ ~UpdatesAll'
    BY <2>1 DEF DeletesAll, UpdatesAll
  <2>3. \A p : Worked(p)'
    BY <2>2 DEF Worked
  <2>4. WholeTable'
    BY <1>1, <2>1, <2>3 DEF WholeTable
  <2> QED
    BY <1>1, <2>1, <2>4, Outside
<1>3. CASE StartInsert \/ StartChange
  <2>1. /\ stmt'.op = pc' /\ skipped' = {} /\ pc' \in {"insert", "update", "delete"}
    BY <1>1, <1>3 DEF StartInsert, StartChange, history
  <2>2. pc' = "delete" => stmt'.set = NoValue
    BY <1>3 DEF StartInsert, StartChange
  <2>3. Stage'
    BY <1>1, <2>1, <2>2 DEF Stage
  <2>4. SoFar'
    <3>1. \A p \in DOMAIN pages : p >= 1
      BY DEF WholeInv, Typing, TableInv, Counters
    <3> QED
      BY <1>1, <3>1 DEF SoFar
  <2> QED
    BY <1>1, <2>1, <2>3, <2>4 DEF WholeInv, Reached, WholeTable
<1> QED
  BY <1>2, <1>3 DEF Statement

\* What a sequence begins with.
LEMMA PrefixIs ==
  ASSUME NEW a \in Seq(Slots), NEW b \in Seq(Slots), Len(a) <= Len(b), \A i \in 1..Len(a) : b[i] = a[i]
  PROVE  SubSeq(b, 1, Len(a)) = a
<1>1. Len(a) \in Nat /\ Len(b) \in Nat
  OBVIOUS
<1>2. SubSeq(b, 1, Len(a)) \in Seq(Slots) /\ Len(SubSeq(b, 1, Len(a))) = Len(a)
  BY <1>1
<1>3. \A i \in 1..Len(a) : SubSeq(b, 1, Len(a))[i] = b[i]
  BY <1>1
<1> QED
  BY <1>2, <1>3

\* The rows of a table are those of its pages, and there are finitely many.
LEMMA RowsAre ==
  ASSUME Typing, pages = before
  PROVE  /\ \A p \in DOMAIN pages : \A s \in Live(p) : <<p, s>> \in KeysOf(before)
         /\ IsFiniteSet(KeysOf(before))
<1>1. pages \in Seq(Seq(Slots)) /\ Len(pages) \in Nat /\ PageSlots \in Nat /\ LengthsFit
      /\ DOMAIN pages = 1..Len(pages)
  BY TableAssumption DEF Typing, TableInv, Counters
<1>2. ASSUME NEW p \in DOMAIN pages, NEW s \in Live(p) PROVE <<p, s>> \in KeysOf(before)
  <2>1. s \in DOMAIN pages[p] /\ pages[p][s] # Dead /\ pages[p] \in Seq(Slots)
    BY <1>1, <1>2 DEF Live
  <2>2. s \in 1..Len(pages[p]) /\ Len(pages[p]) \in Nat /\ Len(pages[p]) <= PageSlots
    BY <1>1, <2>1 DEF LengthsFit
  <2>3. s \in 1..PageSlots
    BY <1>1, <2>2
  <2> QED
    BY <1>1, <2>1, <2>3 DEF KeysOf
<1>3. IsFiniteSet((1..Len(before)) \X (1..PageSlots))
  <2>1. IsFiniteSet(1..Len(before)) /\ IsFiniteSet(1..PageSlots)
    BY <1>1, FS_Interval
  <2> QED
    BY <2>1, FS_Product
<1>4. KeysOf(before) \in SUBSET ((1..Len(before)) \X (1..PageSlots))
  BY DEF KeysOf
<1> QED
  BY <1>2, <1>3, <1>4, FS_Subset

\* One place with a row it did not have makes one row more at most.
LEMMA OneMore ==
  ASSUME Typing, pages = before, before' = before, NEW x,
         \A p \in DOMAIN pages' : \A s \in Live(p)' : <<p, s>> = x \/ (p \in DOMAIN pages /\ s \in Live(p))
  PROVE  Cardinality(LiveAt') <= 1 + Cardinality(KeysOf(before'))
<1>1. IsFiniteSet(KeysOf(before)) /\ \A p \in DOMAIN pages : \A s \in Live(p) : <<p, s>> \in KeysOf(before)
  BY RowsAre
<1> DEFINE K == KeysOf(before)
<1>2. LiveAt' \in SUBSET (K \cup {x})
  <2>1. ASSUME NEW l \in LiveAt' PROVE l \in K \cup {x}
    <3>1. PICK p \in DOMAIN pages' : l \in {<<p, s>> : s \in Live(p)'}
      BY DEF LiveAt
    <3>2. PICK s \in Live(p)' : l = <<p, s>>
      BY <3>1
    <3> QED
      BY <1>1, <3>2
  <2> QED
    BY <2>1
<1>3. KeysOf(before') = K
  BY DEF KeysOf
<1> HIDE DEF K
<1>4. IsFiniteSet(K)
  BY <1>1 DEF K
<1>5. IsFiniteSet(K \cup {x}) /\ Cardinality(K \cup {x}) = IF x \in K THEN Cardinality(K) ELSE Cardinality(K) + 1
  BY <1>4, FS_AddElement
<1>6. IsFiniteSet(LiveAt') /\ Cardinality(LiveAt') <= Cardinality(K \cup {x})
  BY <1>2, <1>5, FS_Subset
<1>7. Cardinality(K) \in Nat /\ Cardinality(LiveAt') \in Nat
  BY <1>4, <1>6, FS_CardinalityType
<1> QED
  BY <1>3, <1>5, <1>6, <1>7

\* INSERT adds its row behind the others, and touches no page it skipped.
LEMMA InsertWhole == ASSUME WholeInv, Typing', Insert PROVE WholeInv'
<1>1. /\ pc = "insert" /\ pages = before /\ before' = before /\ before \in Seq(Seq(Slots)) /\ Typing
      /\ pid \in Nat \ {0} /\ skipped \subseteq 1..pid - 1 /\ pid <= Len(pages) + 1 /\ skipped' = skipped
      /\ stmt.op = "insert" /\ stmt' = stmt /\ Len(pages) \in Nat /\ DOMAIN pages = 1..Len(pages)
  <2>1. pc = "insert" /\ before' = before /\ skipped' = skipped /\ stmt' = stmt
    BY DEF Insert, FullPage, InsertRow, NewPage, history
  <2>2. /\ pages = before /\ before \in Seq(Seq(Slots)) /\ stmt.op = "insert"
        /\ skipped \subseteq 1..pid - 1
    BY <2>1 DEF WholeInv, Stage
  <2>3. Typing /\ pid \in Nat \ {0} /\ pid <= Len(pages) + 1 /\ pages \in Seq(Seq(Slots))
    BY DEF WholeInv, Typing, TableInv, Counters, LoopFits
  <2>4. Len(pages) \in Nat /\ DOMAIN pages = 1..Len(pages)
    BY <2>3
  <2> QED
    BY <2>1, <2>2, <2>3, <2>4
<1>2. CASE FullPage
  <2>1. /\ UNCHANGED <<pages, pc>> /\ pid' = pid + 1
    BY <1>2 DEF FullPage
  <2>2. skipped' \subseteq 1..pid' - 1
    BY <1>1, <2>1
  <2>3. Stage'
    BY <1>1, <2>1, <2>2 DEF Stage
  <2> QED
    BY <1>1, <2>1, <2>3 DEF WholeInv, SoFar, Reached, WholeTable, Changing
<1>3. \A p : Worked(p)'
  <2>1. ~DeletesAll' /\ ~UpdatesAll'
    BY <1>1 DEF DeletesAll, UpdatesAll
  <2> QED
    BY <2>1 DEF Worked
<1>4. ASSUME \A p \in DOMAIN pages : p < pid => pages'[p] = pages[p],
             \A p \in DOMAIN pages : SubSeq(pages'[p], 1, Len(pages[p])) = pages[p],
             Cardinality(LiveAt') <= 1 + Cardinality(KeysOf(before')),
             pc' \in {"done", "crashed"}
      PROVE  WholeInv'
  <2>1. \A p \in skipped : p \in DOMAIN pages /\ p < pid
    BY <1>1
  <2>2. \A p \in skipped' : pages'[p] = before'[p]
    BY <1>1, <1>4, <2>1
  <2>3. \A p \in DOMAIN before' : SubSeq(pages'[p], 1, Len(before'[p])) = before'[p]
    BY <1>1, <1>4
  <2>4. WholeTable'
    BY <1>3, <1>4, <2>2, <2>3 DEF WholeTable
  <2> QED
    BY <1>1, <1>4, <2>4, Outside
<1>5. \A p \in DOMAIN pages : SubSeq(pages[p], 1, Len(pages[p])) = pages[p]
  <2>1. \A p \in DOMAIN pages : pages[p] \in Seq(Slots)
    BY <1>1
  <2> QED
    BY <2>1, PrefixIs
<1>6. CASE InsertRow
  <2>1. /\ pid \in DOMAIN pages /\ pages[pid] \in Seq(Slots)
        /\ pages' = [pages EXCEPT ![pid] = Append(@, Row(stmt.set))] /\ pc' \in {"done", "crashed"}
    BY <1>1, <1>6, EntryGoesOn DEF InsertRow
  <2> DEFINE q == Append(pages[pid], Row(stmt.set))
             x == <<pid, Len(pages[pid]) + 1>>
  <2>2. Row(stmt.set) \in Slots
    BY <1>1 DEF Typing, TableInv, Counters, Row, Slots
  <2>3. /\ q \in Seq(Slots) /\ Len(q) = Len(pages[pid]) + 1 /\ \A i \in DOMAIN pages[pid] : q[i] = pages[pid][i]
    BY <2>1, <2>2, RowAdded
  <2>4. /\ DOMAIN pages' = DOMAIN pages /\ pages'[pid] = q /\ \A p \in DOMAIN pages \ {pid} : pages'[p] = pages[p]
    BY <1>1, <2>1
  <2> HIDE DEF q
  <2>5. SubSeq(q, 1, Len(pages[pid])) = pages[pid]
    BY <2>1, <2>3, PrefixIs, SMTT(30)
  <2>6. \A p \in DOMAIN pages : SubSeq(pages'[p], 1, Len(pages[p])) = pages[p]
    BY <1>5, <2>4, <2>5
  <2>7. ASSUME NEW p \in DOMAIN pages', NEW s \in Live(p)'
        PROVE  <<p, s>> = x \/ (p \in DOMAIN pages /\ s \in Live(p))
    <3>1. CASE p # pid
      BY <2>4, <2>7, <3>1 DEF Live
    <3>2. CASE p = pid
      <4>1. s \in 1..Len(pages[pid]) + 1 /\ q[s] # Dead /\ Len(pages[pid]) \in Nat
        BY <2>1, <2>3, <2>4, <2>7, <3>2 DEF Live
      <4>2. CASE s = Len(pages[pid]) + 1
        BY <3>2, <4>2
      <4>3. CASE s \in 1..Len(pages[pid])
        BY <2>1, <2>3, <3>2, <4>1, <4>3 DEF Live
      <4> QED
        BY <4>1, <4>2, <4>3
    <3> QED
      BY <3>1, <3>2
  <2> HIDE DEF x
  <2>8. Cardinality(LiveAt') <= 1 + Cardinality(KeysOf(before'))
    BY <1>1, <2>7, OneMore
  <2>9. \A p \in DOMAIN pages : p < pid => pages'[p] = pages[p]
    BY <1>1, <2>4
  <2> QED
    BY <1>4, <2>1, <2>6, <2>8, <2>9
<1>7. CASE NewPage
  <2>1. pc' \in {"done", "crashed"}
    BY <1>7, EntryGoesOn DEF NewPage
  <2>2. CASE UNCHANGED pages
    <3>1. \A p \in DOMAIN pages' : \A s \in Live(p)' : <<p, s>> = <<0, 0>> \/ (p \in DOMAIN pages /\ s \in Live(p))
      BY <2>2 DEF Live
    <3>2. Cardinality(LiveAt') <= 1 + Cardinality(KeysOf(before'))
      BY <1>1, <3>1, OneMore
    <3> QED
      BY <1>4, <1>5, <2>1, <2>2, <3>2
  <2>3. CASE pages' = Append(pages, <<Row(stmt.set)>>)
    <3>1. pages \in Seq(Seq(Slots)) /\ <<Row(stmt.set)>> \in Seq(Slots)
      BY <1>1 DEF Typing, TableInv, Counters, Row, Slots
    <3>2. /\ DOMAIN pages' = 1..Len(pages) + 1 /\ \A p \in DOMAIN pages : pages'[p] = pages[p]
          /\ pages'[Len(pages) + 1] = <<Row(stmt.set)>>
      BY <1>1, <2>3, <3>1
    <3>3. ASSUME NEW p \in DOMAIN pages', NEW s \in Live(p)'
          PROVE  <<p, s>> = <<Len(pages) + 1, 1>> \/ (p \in DOMAIN pages /\ s \in Live(p))
      <4>1. CASE p = Len(pages) + 1
        BY <3>2, <3>3, <4>1 DEF Live
      <4>2. CASE p \in 1..Len(pages)
        BY <1>1, <3>2, <3>3, <4>2 DEF Live
      <4> QED
        BY <1>1, <3>2, <4>1, <4>2
    <3>4. Cardinality(LiveAt') <= 1 + Cardinality(KeysOf(before'))
      BY <1>1, <3>3, OneMore
    <3> QED
      BY <1>4, <1>5, <2>1, <3>2, <3>4
  <2> QED
    BY <1>7, <2>2, <2>3 DEF NewPage
<1> QED
  BY <1>2, <1>6, <1>7 DEF Insert

\* The count of new versions after one more slot.
LEMMA CountFits ==
  ASSUME NEW l \in Nat, NEW len \in Nat, NEW g \in Nat, NEW room \in Int, NEW n \in {0, 1}, NEW d \in {0, 1},
         room = PageSlots - l, len <= PageSlots, len - l = Fewer(g, room),
         n = (IF d = 1 /\ len < PageSlots THEN 1 ELSE 0)
  PROVE  len + n - l = Fewer(g + d, room)
<1>1. PageSlots \in Nat
  BY TableAssumption
<1>2. Fewer(g, room) = IF g < room THEN g ELSE room
  BY DEF Fewer
<1>3. Fewer(g + d, room) = IF g + d < room THEN g + d ELSE room
  BY DEF Fewer
<1> QED
  BY <1>1, <1>2, <1>3

\* A turn of the loop: the slot is dealt with as a statement without WHERE would.
LEMMA SlotWhole ==
  ASSUME WholeInv, Typing', Changing, slot \in 1..limit, NEW n \in {0, 1}, pages[pid] \in Seq(Slots),
         UNCHANGED <<pid, limit, stmt, before, skipped>>, slot' = slot + 1, pc' \in {pc, "crashed"},
         DOMAIN pages' = DOMAIN pages, \A i \in DOMAIN pages \ {pid} : pages'[i] = pages[i],
         pages'[pid] \in Seq(Slots), Len(pages'[pid]) = Len(pages[pid]) + n,
         \A s \in DOMAIN pages[pid] \ {slot} : pages'[pid][s] = pages[pid][s],
         DeletesAll => n = 0 /\ pages'[pid][slot] = Dead,
         UpdatesAll => /\ pages'[pid][slot] = Dead
                       /\ n = 1 => pages'[pid][Len(pages[pid]) + 1].updates = 1
                       /\ n = (IF pages[pid][slot] # Dead /\ Len(pages[pid]) < PageSlots THEN 1 ELSE 0)
  PROVE  WholeInv'
<1>1. /\ pid \in DOMAIN pages /\ pid \in Nat \ {0} /\ slot \in Nat \ {0} /\ limit \in Nat
      /\ limit <= Len(pages[pid]) /\ Len(pages[pid]) \in Nat /\ Len(pages[pid]) <= PageSlots
      /\ Typing /\ Stage /\ SoFar /\ Reached /\ pages[pid] \in Seq(Slots)
  BY DEF WholeInv, Typing, TableInv, Counters, LoopFits, LengthsFit, Changing
<1>2. CASE pc' = "crashed"
  <2>1. before' \in Seq(Seq(Slots)) /\ WholeTable'
    BY <1>1, <1>2 DEF Stage, WholeTable
  <2> QED
    BY <1>2, <2>1, Outside
<1>3. CASE pc' = pc
  <2>1. Stage'
    BY <1>1, <1>3 DEF Stage, Changing
  <2>2. /\ DOMAIN pages = DOMAIN before
        /\ \A p \in DOMAIN pages : Untouched(p) => pages[p] = before[p]
        /\ \A p \in DOMAIN pages : p < pid /\ p \notin skipped => Worked(p)
    BY <1>1 DEF SoFar
  <2>3. pid \notin skipped
    BY <1>1 DEF Stage, Changing
  <2>4. ASSUME NEW p \in DOMAIN pages, Untouched(p)' PROVE pages'[p] = before'[p]
    <3>1. Untouched(p) /\ p # pid
      BY <1>1, <2>3, <2>4 DEF Untouched
    <3> QED
      BY <2>2, <3>1
  <2>5. ASSUME NEW p \in DOMAIN pages, p < pid, p \notin skipped PROVE Worked(p)'
    <3>1. p # pid /\ Worked(p)
      BY <1>1, <2>2, <2>5
    <3>2. pages'[p] = pages[p]
      BY <3>1
    <3> QED
      BY <3>1, <3>2, SameWork
  <2>6. SoFar'
    BY <2>2, <2>4, <2>5 DEF SoFar
  <2>7. /\ limit = Len(before[pid]) /\ slot <= limit + 1
        /\ \A s \in slot..limit : pages[pid][s] = before[pid][s]
        /\ DeletesAll => Len(pages[pid]) = limit /\ Cleared
        /\ UpdatesAll => /\ Cleared
                         /\ \A s \in limit + 1..Len(pages[pid]) : pages[pid][s].updates = 1
                         /\ Len(pages[pid]) - limit = Fewer(Gone(slot - 1), Room(pid))
    BY <1>1 DEF Reached
  <2>8. /\ slot' <= limit' + 1
        /\ \A s \in slot'..limit' : s \in slot..limit /\ s \in DOMAIN pages[pid] \ {slot}
        /\ \A s \in 1..slot' - 1 : s = slot \/ (s \in 1..slot - 1 /\ s \in DOMAIN pages[pid] \ {slot})
        /\ \A s \in limit + 1..Len(pages'[pid]) :
             \/ s \in limit + 1..Len(pages[pid]) /\ s \in DOMAIN pages[pid] \ {slot}
             \/ n = 1 /\ s = Len(pages[pid]) + 1
    <3>1. DOMAIN pages[pid] = 1..Len(pages[pid]) /\ slot <= limit
      BY <1>1
    <3>2. slot' <= limit' + 1
      BY <1>1, <3>1
    <3>3. \A s \in slot'..limit' : s \in slot..limit /\ s \in DOMAIN pages[pid] \ {slot}
      BY <1>1, <3>1
    <3>4. \A s \in 1..slot' - 1 : s = slot \/ (s \in 1..slot - 1 /\ s \in DOMAIN pages[pid] \ {slot})
      BY <1>1, <3>1
    <3>5. \A s \in limit + 1..Len(pages'[pid]) :
             \/ s \in limit + 1..Len(pages[pid]) /\ s \in DOMAIN pages[pid] \ {slot}
             \/ n = 1 /\ s = Len(pages[pid]) + 1
      BY <1>1, <3>1
    <3> QED
      BY <3>2, <3>3, <3>4, <3>5
  <2>9. \A s \in slot'..limit' : pages'[pid'][s] = before'[pid'][s]
    BY <2>7, <2>8
  <2>10. (DeletesAll' <=> DeletesAll) /\ (UpdatesAll' <=> UpdatesAll)
    BY Zenon DEF DeletesAll, UpdatesAll
  <2>11. ASSUME DeletesAll \/ UpdatesAll PROVE Cleared'
    <3>1. Cleared /\ pages'[pid][slot] = Dead
      BY <2>7, <2>11
    <3> QED
      BY <2>8, <3>1 DEF Cleared
  <2>12. ASSUME DeletesAll PROVE Len(pages'[pid']) = limit'
    BY <1>1, <2>7, <2>12
  <2>13. ASSUME UpdatesAll, NEW s \in limit' + 1..Len(pages'[pid']) PROVE pages'[pid'][s].updates = 1
    BY <2>7, <2>8, <2>13, ZenonT(40)
  <2>14. ASSUME UpdatesAll PROVE Len(pages'[pid']) - limit' = Fewer(Gone(slot - 1)', Room(pid)')
    <3> DEFINE d == IF before[pid][slot] # Dead THEN 1 ELSE 0
    <3>1. /\ Gone(slot - 1) \in Nat
          /\ before[pid][slot] # Dead => Gone(slot) = Gone(slot - 1) + 1
          /\ before[pid][slot] = Dead => Gone(slot) = Gone(slot - 1)
      BY <1>1, CountStep DEF Gone
    <3>2. Gone(slot) = Gone(slot - 1) + d /\ d \in {0, 1}
      BY <3>1
    <3>3. Gone(slot - 1)' = Gone(slot)
      <4>1. slot' - 1 = slot
        BY <1>1
      <4> QED
        BY <4>1 DEF Gone
    <3>4. Room(pid)' = Room(pid) /\ Room(pid) = PageSlots - limit /\ Room(pid) \in Int
      BY <1>1, <2>7, TableAssumption DEF Room
    <3>5. n = (IF d = 1 /\ Len(pages[pid]) < PageSlots THEN 1 ELSE 0)
      <4>1. slot \in slot..limit
        BY <1>1
      <4>2. pages[pid][slot] = before[pid][slot]
        BY <2>7, <4>1
      <4> QED
        BY <2>14, <4>2
    <3>6. Len(pages[pid]) - limit = Fewer(Gone(slot - 1), Room(pid))
      BY <2>7, <2>14
    <3> HIDE DEF d
    <3>7. Len(pages[pid]) + n - limit = Fewer(Gone(slot - 1) + d, Room(pid))
      BY <1>1, <3>1, <3>2, <3>4, <3>5, <3>6, CountFits
    <3>8. Len(pages'[pid']) - limit' = Len(pages[pid]) + n - limit
      BY <1>1
    <3>9. Gone(slot - 1)' = Gone(slot - 1) + d /\ Room(pid)' = Room(pid)
      BY <3>2, <3>3, <3>4
    <3> QED
      BY <3>7, <3>8, <3>9
  <2>15. Reached'
    BY <2>7, <2>8, <2>9, <2>10, <2>11, <2>12, <2>13, <2>14 DEF Reached
  <2> QED
    BY <1>3, <2>1, <2>6, <2>15 DEF WholeInv, WholeTable, Changing
<1> QED
  BY <1>2, <1>3

\* UPDATE and DELETE.
LEMMA ChangeWhole == ASSUME WholeInv, Typing', Change PROVE WholeInv'
<1>1. /\ Typing /\ TableInv /\ Stage /\ SoFar
      /\ \A p \in DOMAIN pages : pages[p] \in Seq(Slots) /\ Len(pages[p]) \in Nat
  BY DEF WholeInv, Typing, TableInv, Counters
<1>2. ASSUME Changing, slot \in 1..limit
      PROVE  /\ pid \in DOMAIN pages /\ slot \in DOMAIN pages[pid] /\ stmt.op = pc
             /\ pages[pid] \in Seq(Slots) /\ Len(pages[pid]) \in Nat
             /\ pc = "delete" => ~UpdatesAll
             /\ pc = "update" => ~DeletesAll
  <2>1. pid \in DOMAIN pages /\ slot \in Nat /\ limit \in Nat /\ limit <= Len(pages[pid]) /\ stmt.op = pc
    BY <1>1, <1>2 DEF Typing, TableInv, Counters, LoopFits, Stage, Changing
  <2>2. slot \in DOMAIN pages[pid]
    BY <1>1, <1>2, <2>1
  <2> QED
    BY <1>1, <2>1, <2>2 DEF DeletesAll, UpdatesAll
<1>3. CASE PassRow
  <2>1. /\ Changing /\ slot \in 1..limit /\ slot' = slot + 1 /\ UNCHANGED <<pages, pc>>
        /\ UNCHANGED <<pid, limit, stmt, before, skipped>>
        /\ slot \notin Live(pid) \/ stmt.where \/ stmt.set = Unknown
    BY <1>3 DEF PassRow, AtSlot, PassSlot, Changing
  <2>2. ASSUME DeletesAll \/ UpdatesAll PROVE pages[pid][slot] = Dead
    <3>1. ~stmt.where
      BY <2>2, Zenon DEF UpdatesAll, DeletesAll
    <3>2. stmt.set # Unknown
      <4>1. CASE UpdatesAll
        BY <4>1, Zenon DEF UpdatesAll
      <4>2. CASE DeletesAll
        <5>1. pc = "delete"
          BY <1>2, <2>1, <4>2 DEF Changing
        <5> QED
          BY <1>1, <5>1 DEF Stage, NoValue, Unknown
      <4> QED
        BY <2>2, <4>1, <4>2
    <3> QED
      BY <1>2, <2>1, <3>1, <3>2 DEF Live
  <2> QED
    BY <1>2, <2>1, <2>2, SlotWhole
<1>4. CASE DeleteRow
  <2>1. /\ pc = "delete" /\ Changing /\ slot \in 1..limit /\ slot' = slot + 1 /\ pc' \in {pc, "crashed"}
        /\ UNCHANGED <<pid, limit, stmt, before, skipped>>
    BY <1>4 DEF DeleteRow, AtSlot, Changing
  <2>2. Emptied(0)
    BY <1>1, <1>4, RowEmptied DEF DeleteRow, AtSlot
  <2>3. ~UpdatesAll
    BY <1>2, <2>1
  <2> QED
    BY <2>1, <2>2, <2>3, SlotWhole DEF Emptied
<1>5. CASE UpdateRow
  <2>1. /\ Emptied(1) /\ pages'[pid][Len(pages[pid]) + 1].updates = 1
        /\ pc = "update" /\ slot \in 1..limit /\ pc' \in {pc, "crashed"}
        /\ UNCHANGED <<pid, limit, stmt>> /\ slot' = slot + 1
    BY <1>1, <1>5, RowMoved
  <2>2. UNCHANGED <<before, skipped>> /\ Len(pages[pid]) < PageSlots /\ pages[pid][slot] # Dead /\ Changing
    BY <1>5 DEF UpdateRow, AtSlot, Live, Changing
  <2>3. ~DeletesAll
    BY <1>2, <2>1, <2>2
  <2> QED
    BY <2>1, <2>2, <2>3, SlotWhole DEF Emptied
<1>6. CASE UpdateNoRoom
  <2>1. /\ pc = "update" /\ Changing /\ slot \in 1..limit /\ slot' = slot + 1 /\ pc' = pc
        /\ UNCHANGED <<pid, limit, stmt, before, skipped>> /\ Len(pages[pid]) = PageSlots
    BY <1>6 DEF UpdateNoRoom, AtSlot, Changing
  <2>2. Emptied(0)
    BY <1>1, <1>6, RowEmptied DEF UpdateNoRoom, AtSlot
  <2>3. ~DeletesAll /\ ~(Len(pages[pid]) < PageSlots)
    BY <1>2, <2>1, TableAssumption
  <2> QED
    BY <2>1, <2>2, <2>3, SlotWhole DEF Emptied
<1>7. CASE ChangeDone
  <2>1. /\ Changing /\ pid > Len(pages) /\ pc' = "done"
        /\ UNCHANGED <<pages, stmt, before, skipped>> /\ stmt.op = pc
    BY <1>1, <1>7 DEF ChangeDone, Changing, history, Stage
  <2>2. /\ DOMAIN pages = 1..Len(pages) /\ Len(pages) \in Nat /\ pid = Len(pages) + 1
        /\ skipped \subseteq 1..pid - 1 /\ before \in Seq(Seq(Slots))
    <3>1. pages \in Seq(Seq(Slots)) /\ pid \in Nat /\ pid <= Len(pages) + 1
      BY <1>1 DEF Typing, TableInv, Counters, LoopFits
    <3>2. skipped \subseteq 1..pid - 1 /\ before \in Seq(Seq(Slots))
      BY <1>1, <2>1 DEF Stage, Changing
    <3> QED
      BY <2>1, <3>1, <3>2
  <2>3. /\ DOMAIN pages = DOMAIN before
        /\ \A p \in DOMAIN pages : Untouched(p) => pages[p] = before[p]
        /\ \A p \in DOMAIN pages : p < pid /\ p \notin skipped => Worked(p)
    BY <1>1, <2>1 DEF SoFar
  <2>4. \A p \in skipped' : pages'[p] = before'[p]
    BY <2>1, <2>2, <2>3 DEF Untouched
  <2>5. ASSUME NEW p \in DOMAIN before', p \notin skipped' PROVE Worked(p)'
    <3>1. p \in DOMAIN pages /\ p < pid /\ p \notin skipped
      BY <2>1, <2>2, <2>3, <2>5
    <3>2. Worked(p)
      BY <2>3, <3>1
    <3> QED
      BY <2>1, <3>2, SameWork
  <2>6. stmt'.op # "insert"
    BY <2>1 DEF Changing
  <2>7. WholeTable'
    BY <2>4, <2>5, <2>6 DEF WholeTable
  <2> QED
    BY <2>1, <2>2, <2>7, Outside
<1> QED
  BY <1>3, <1>4, <1>5, <1>6, <1>7 DEF Change

\* The next statement starts with the table as it is now.
LEMMA CloseWhole == ASSUME Typing', table_close PROVE WholeInv'
<1>1. before' = pages' /\ pc' = "closed" /\ skipped' = {}
  BY DEF table_close
<1>2. before' \in Seq(Seq(Slots))
  BY <1>1 DEF Typing, TableInv, Counters
<1> QED
  BY <1>1, <1>2, AsBefore

\* A step that changes nothing.
LEMMA IdleWhole == ASSUME WholeInv, Typing', UNCHANGED vars PROVE WholeInv'
<1>1. UNCHANGED <<pages, pc, stmt, pid, slot, limit, before, skipped>>
  BY DEF vars, loop, history
<1>2. \A p : Worked(p)' <=> Worked(p)
  BY <1>1 DEF Worked, DeletesAll, UpdatesAll, Live, Before, Room
<1>3. Stage'
  BY <1>1 DEF WholeInv, Stage
<1>4. SoFar'
  BY <1>1, <1>2 DEF WholeInv, SoFar, Untouched, Changing
<1>5. Reached'
  BY <1>1 DEF WholeInv, Reached, Cleared, Gone, Room, Changing, DeletesAll, UpdatesAll
<1>6. WholeTable'
  BY <1>1, <1>2 DEF WholeInv, WholeTable, LiveAt, Live
<1> QED
  BY <1>3, <1>4, <1>5, <1>6 DEF WholeInv

\* It holds of the first table.
LEMMA WholeInit == Init => WholeInv
<1> SUFFICES ASSUME Init PROVE WholeInv
  OBVIOUS
<1>1. Typing
  BY TypingInit
<1>2. pages = before /\ pc = "closed" /\ skipped = {} /\ before \in Seq(Seq(Slots))
  BY <1>1 DEF Init, Typing, TableInv, Counters
<1> QED
  BY <1>1, <1>2 DEF WholeInv, Stage, SoFar, Reached, Changing, WholeTable

\* Every step keeps it.
LEMMA WholeStep == WholeInv /\ [Next]_vars => WholeInv'
<1> SUFFICES ASSUME WholeInv, [Next]_vars PROVE WholeInv'
  OBVIOUS
<1>1. Typing'
  BY TypingStep DEF WholeInv
<1> QED
  BY <1>1, BuildWhole, StatementWhole, InsertWhole, ChangeWhole, CloseWhole, IdleWhole
     DEF Next, Progress, Stopped

(* A statement without WHERE reaches every row of every page it could pin, and  *)
(* a page it could not pin is as it was: the loops of TABLE_delete and          *)
(* TABLE_update, for every table, with pages that fail anywhere, whatever       *)
(* becomes of the index.  An INSERT adds one row and touches no other.          *)
THEOREM WholeStatement == Spec => []WholeTable
<1>1. WholeInv => WholeTable
  BY DEF WholeInv
<1> QED
  BY <1>1, WholeInit, WholeStep, PTL DEF Spec
-----------------------------------------------------------------------------
(* The index.  What it has to say of the table are Rows, the live rows with    *)
(* their keys.  Indexes is a tree in which every key is found (BPlusTreeProofs) *)
(* and which has just these entries; Holds is what failed allocations leave    *)
(* of it: an entry of the tree is one of them.                              *)
RowLocations == Nat \X Nat
RowKey(q, l) == Key(q[l[1]][l[2]])
RowsAt(q, A) == {<<RowKey(q, l), l>> : l \in A}
Rows(q)      == RowsAt(q, KeysOf(q))

Indexes(t, E) == /\ \E lev, W : Searchable(t, lev, W, RowLocations)
                 /\ \A k \in Int : \A l : Has(t.nodes, k, l) <=> <<k, l>> \in E
Holds(t, E)   == /\ \E lev : TreeOK(t, lev, RowLocations)
                 /\ \A k, l : Has(t.nodes, k, l) => <<k, l>> \in E

\* A tree is not the missing index.
LEMMA TreeIsIndex == ASSUME NEW t, NEW lev, TreeOK(t, lev, RowLocations) PROVE t # NoIndex
<1>1. t = [root |-> t.root, nodes |-> t.nodes]
  BY DEF TreeOK
<1>2. DOMAIN t = {"root", "nodes"}
  BY <1>1
<1>3. DOMAIN NoIndex = {}
  BY DEF NoIndex
<1> QED
  BY <1>2, <1>3

\* Every descent of a tree that can be searched ends at a leaf.
LEMMA Reachable ==
  ASSUME NEW t, NEW E, Indexes(t, E), NEW key \in Int
  PROVE  t # NoIndex /\ find_leaf(t, key) # NULL /\ ~Unreachable(t, key)
<1>1. PICK lev, W : Searchable(t, lev, W, RowLocations)
  BY DEF Indexes
<1>2. t # NoIndex
  BY <1>1, TreeIsIndex DEF Searchable
<1>3. find_leaf(t, key) \in DOMAIN lev /\ DOMAIN lev = 1..Len(t.nodes)
  BY <1>1, EntryAt DEF Searchable, TreeOK, Levelled
<1>4. find_leaf(t, key) # NULL
  BY <1>3 DEF NULL
<1> QED
  BY <1>2, <1>4 DEF Unreachable

\* INDEX_create.
LEMMA IndexCreated == Indexes(INDEX_create, {}) /\ \A E : Holds(INDEX_create, E)
<1>1. PICK lev, W : Searchable(INDEX_create, lev, W, RowLocations)
  BY CreateSearchable
<1>2. \A k, l : ~Has(INDEX_create.nodes, k, l)
  BY CreateSearchable
<1>3. TreeOK(INDEX_create, lev, RowLocations)
  BY <1>1 DEF Searchable
<1> QED
  BY <1>1, <1>2, <1>3, Zenon DEF Indexes, Holds

\* INDEX_insert of a key that has no entry, with enough memory.
LEMMA IndexEntered ==
  ASSUME NEW t, NEW E, Indexes(t, E), NEW key \in Int, NEW loc \in RowLocations,
         \A l : <<key, l>> \notin E, NEW u, u = INDEX_insert(t, key, loc, 0, 0)
  PROVE  Indexes(u, E \cup {<<key, loc>>})
<1>1. PICK lev, W : Searchable(t, lev, W, RowLocations)
  BY DEF Indexes
<1>2. \A k \in Int : \A l : Has(t.nodes, k, l) <=> <<k, l>> \in E
  BY DEF Indexes
<1>3. \A l : ~Has(t.nodes, key, l)
  BY <1>2
<1>4. \E lev2, W2 : Searchable(u, lev2, W2, RowLocations)
  BY <1>1, <1>3, InsertSearchable
<1>5. \A k, l : Has(u.nodes, k, l) <=> Has(t.nodes, k, l) \/ (k = key /\ l = loc)
  <2>1. TreeOK(t, lev, RowLocations) /\ find_leaf(t, key) # NULL /\ 0 \in Int
    BY <1>1, Reachable DEF Searchable
  <2> QED
    BY <2>1, InsertAdds
<1>6. ASSUME NEW k \in Int, NEW l PROVE Has(u.nodes, k, l) <=> <<k, l>> \in E \cup {<<key, loc>>}
  <2>1. <<k, l>> = <<key, loc>> <=> k = key /\ l = loc
    OBVIOUS
  <2>2. <<k, l>> \in E \cup {<<key, loc>>} <=> <<k, l>> \in E \/ <<k, l>> = <<key, loc>>
    OBVIOUS
  <2> QED
    BY <1>2, <1>5, <2>1, <2>2, Zenon
<1> QED
  BY <1>4, <1>6, Zenon DEF Indexes

\* INDEX_insert of any key, whatever allocation fails.
LEMMA IndexHolds ==
  ASSUME NEW t, NEW E, Holds(t, E), NEW key \in Int, NEW loc \in RowLocations, <<key, loc>> \in E,
         find_leaf(t, key) # NULL, NEW failAt, NEW garbage \in Int,
         NEW u, u = INDEX_insert(t, key, loc, failAt, garbage)
  PROVE  Holds(u, E)
<1>1. PICK lev : TreeOK(t, lev, RowLocations)
  BY DEF Holds
<1>2. \E lev2 : TreeOK(u, lev2, RowLocations)
  BY <1>1, InsertAdds
<1>3. \A k, l : Has(u.nodes, k, l) <=> Has(t.nodes, k, l) \/ (k = key /\ l = loc)
  BY <1>1, InsertAdds
<1>4. \A k, l : Has(u.nodes, k, l) => <<k, l>> \in E
  BY <1>3, Zenon DEF Holds
<1> QED
  BY <1>2, <1>4, Zenon DEF Holds

\* INDEX_delete.
LEMMA IndexWithout ==
  ASSUME NEW t, NEW E, Indexes(t, E), NEW key \in Int, NEW u, u = INDEX_delete(t, key),
         NEW F, \A k \in Int : \A l : <<k, l>> \in F <=> <<k, l>> \in E /\ k # key
  PROVE  Indexes(u, F)
<1>1. PICK lev, W : Searchable(t, lev, W, RowLocations)
  BY DEF Indexes
<1>2. Searchable(u, lev, W, RowLocations) /\ Forgets(u, t, key)
  BY <1>1, DeleteSearchable
<1> QED
  BY <1>2, Zenon DEF Indexes, Forgets

\* INDEX_search.
LEMMA IndexSearched ==
  ASSUME NEW t, NEW E, Indexes(t, E), NEW key \in Int, NEW l
  PROVE  l \in INDEX_search(t, key) <=> <<key, l>> \in E
<1>1. PICK lev, W : Searchable(t, lev, W, RowLocations)
  BY DEF Indexes
<1>2. l \in INDEX_search(t, key) <=> Has(t.nodes, key, l)
  BY <1>1, SearchFinds
<1> QED
  BY <1>2 DEF Indexes

\* INDEX_search, whatever allocation failed.
LEMMA IndexFound ==
  ASSUME NEW t, NEW E, Holds(t, E), NEW key \in Int, find_leaf(t, key) # NULL,
         NEW l \in INDEX_search(t, key)
  PROVE  <<key, l>> \in E
<1>1. PICK lev : TreeOK(t, lev, RowLocations)
  BY DEF Holds
<1>2. Has(t.nodes, key, l)
  BY <1>1, SearchHas
<1> QED
  BY <1>2 DEF Holds

-----------------------------------------------------------------------------
(* The rows of the table.                                                   *)
LEMMA RowIs ==
  ASSUME NEW q, NEW A, NEW k, NEW l
  PROVE  <<k, l>> \in RowsAt(q, A) <=> l \in A /\ k = RowKey(q, l)
  BY DEF RowsAt

\* The key of a live row is a number.
LEMMA LiveKeyIs ==
  ASSUME NEW row \in Slots, row # Dead
  PROVE  row.value \in Values /\ Key(row) \in Int
  BY TableAssumption DEF Slots, Key

\* Rows lie within the table, and have numbers for keys.
LEMMA RowPlace ==
  ASSUME NEW q \in Seq(Seq(Slots)), NEW l \in KeysOf(q)
  PROVE  /\ l \in RowLocations /\ l = <<l[1], l[2]>> /\ l[1] \in DOMAIN q /\ l[2] \in DOMAIN q[l[1]]
         /\ q[l[1]][l[2]] # Dead /\ RowKey(q, l) \in Int
<1>1. /\ l \in (1..Len(q)) \X (1..PageSlots) /\ l[2] \in DOMAIN q[l[1]] /\ q[l[1]][l[2]] # Dead
  BY DEF KeysOf
<1>2. l \in RowLocations /\ l = <<l[1], l[2]>> /\ l[1] \in DOMAIN q
  BY <1>1, TableAssumption DEF RowLocations
<1>3. q[l[1]][l[2]] \in Slots
  BY <1>1, <1>2
<1>4. RowKey(q, l) \in Int
  BY <1>1, <1>3, LiveKeyIs DEF RowKey
<1> QED
  BY <1>1, <1>2, <1>4

\* A place is one of a row.
LEMMA PlaceRow ==
  ASSUME NEW q \in Seq(Seq(Slots)), \A p \in DOMAIN q : Len(q[p]) <= PageSlots,
         NEW p, NEW s
  PROVE  <<p, s>> \in KeysOf(q) <=> p \in DOMAIN q /\ s \in DOMAIN q[p] /\ q[p][s] # Dead
<1>1. <<p, s>>[1] = p /\ <<p, s>>[2] = s
  OBVIOUS
<1>2. <<p, s>> \in KeysOf(q) <=> p \in 1..Len(q) /\ s \in 1..PageSlots /\ s \in DOMAIN q[p] /\ q[p][s] # Dead
  BY <1>1 DEF KeysOf
<1>3. ASSUME p \in DOMAIN q, s \in DOMAIN q[p] PROVE p \in 1..Len(q) /\ s \in 1..PageSlots
  <2>1. p \in 1..Len(q) /\ q[p] \in Seq(Slots) /\ Len(q[p]) <= PageSlots
    BY <1>3
  <2>2. s \in 1..Len(q[p]) /\ Len(q[p]) \in Nat
    BY <1>3, <2>1
  <2> QED
    BY <2>1, <2>2, TableAssumption
<1> QED
  BY <1>2, <1>3

\* The live rows of the table are its rows.
LEMMA LiveRows == ASSUME Typing PROVE LiveAt = KeysOf(pages)
<1>1. pages \in Seq(Seq(Slots)) /\ \A p \in DOMAIN pages : Len(pages[p]) <= PageSlots
  BY DEF Typing, TableInv, Counters, LengthsFit
<1>2. ASSUME NEW l \in LiveAt PROVE l \in KeysOf(pages)
  <2>1. PICK p \in DOMAIN pages : l \in {<<p, s>> : s \in Live(p)}
    BY <1>2 DEF LiveAt
  <2>2. PICK s \in Live(p) : l = <<p, s>>
    BY <2>1
  <2> QED
    BY <1>1, <2>2, PlaceRow DEF Live
<1>3. ASSUME NEW l \in KeysOf(pages) PROVE l \in LiveAt
  <2>1. l = <<l[1], l[2]>> /\ l[1] \in DOMAIN pages /\ l[2] \in Live(l[1])
    BY <1>1, <1>3, RowPlace DEF Live
  <2> QED
    BY <2>1 DEF LiveAt
<1> QED
  BY <1>2, <1>3

\* What a lookup has to find.
LEMMA LiveKeysAre ==
  ASSUME Typing, NEW k, NEW l
  PROVE  l \in LiveKeys(k) <=> <<k, l>> \in Rows(pages)
  BY LiveRows, RowIs DEF LiveKeys, Rows, RowKey
-----------------------------------------------------------------------------
(* How a statement changes the rows: one more, one less, one at another place. *)
GainsRow(q, r, loc, k) ==
  /\ loc \notin KeysOf(q)
  /\ \A l : l \in KeysOf(r) <=> l \in KeysOf(q) \/ l = loc
  /\ \A l \in KeysOf(q) : RowKey(r, l) = RowKey(q, l)
  /\ RowKey(r, loc) = k

LosesRow(q, r, loc) ==
  /\ loc \in KeysOf(q)
  /\ \A l : l \in KeysOf(r) <=> l \in KeysOf(q) /\ l # loc
  /\ \A l \in KeysOf(r) : RowKey(r, l) = RowKey(q, l)

MovesRow(q, r, old, new, k) ==
  /\ old \in KeysOf(q) /\ new \notin KeysOf(q)
  /\ \A l : l \in KeysOf(r) <=> (l \in KeysOf(q) /\ l # old) \/ l = new
  /\ \A l \in KeysOf(q) \ {old} : RowKey(r, l) = RowKey(q, l)
  /\ RowKey(r, new) = k

\* Keys are unique when no two places have the same.
LEMMA UniqueIs ==
  ASSUME NEW q
  PROVE  Unique(q) <=> \A l, m \in KeysOf(q) : RowKey(q, l) = RowKey(q, m) => l = m
  BY DEF Unique, RowKey

\* An index is judged by the keys that are numbers.
LEMMA SameEntries ==
  ASSUME NEW t, NEW E, NEW F, Indexes(t, E), \A k \in Int : \A l : <<k, l>> \in E <=> <<k, l>> \in F
  PROVE  Indexes(t, F)
<1>1. \A k \in Int : \A l : Has(t.nodes, k, l) <=> <<k, l>> \in F
  BY Zenon DEF Indexes
<1> QED
  BY <1>1, Zenon DEF Indexes

\* An entry is one of the live rows.
LEMMA RowEntry ==
  ASSUME NEW q, NEW k, NEW l
  PROVE  <<k, l>> \in Rows(q) <=> l \in KeysOf(q) /\ k = RowKey(q, l)
  BY RowIs DEF Rows

\* A table of unique keys had them before it got the row.
LEMMA GainUnique ==
  ASSUME NEW q, NEW r, NEW loc, NEW k, GainsRow(q, r, loc, k), Unique(r)
  PROVE  Unique(q) /\ \A l \in KeysOf(q) : RowKey(q, l) # k
<1>1. /\ loc \notin KeysOf(q) /\ RowKey(r, loc) = k /\ loc \in KeysOf(r)
      /\ \A l \in KeysOf(q) : l \in KeysOf(r) /\ RowKey(r, l) = RowKey(q, l)
  BY DEF GainsRow
<1>2. \A l, m \in KeysOf(r) : RowKey(r, l) = RowKey(r, m) => l = m
  BY UniqueIs
<1>3. \A l \in KeysOf(q) : RowKey(q, l) # k
  BY <1>1, <1>2
<1>4. \A l, m \in KeysOf(q) : RowKey(q, l) = RowKey(q, m) => l = m
  BY <1>1, <1>2
<1> QED
  BY <1>3, <1>4, UniqueIs

\* The index follows a row that is added.
LEMMA GainIndexed ==
  ASSUME NEW q, NEW r, NEW loc \in RowLocations, NEW k \in Int, GainsRow(q, r, loc, k), Unique(r),
         NEW t, Indexes(t, Rows(q)), NEW u, u = INDEX_insert(t, k, loc, 0, 0)
  PROVE  Indexes(u, Rows(r))
<1>1. \A l : <<k, l>> \notin Rows(q)
  BY GainUnique, RowEntry
<1>2. Indexes(u, Rows(q) \cup {<<k, loc>>})
  BY <1>1, IndexEntered
<1>3. ASSUME NEW j \in Int, NEW l
      PROVE  <<j, l>> \in Rows(q) \cup {<<k, loc>>} <=> <<j, l>> \in Rows(r)
  <2>1. <<j, l>> = <<k, loc>> <=> j = k /\ l = loc
    OBVIOUS
  <2>2. <<j, l>> \in Rows(q) \cup {<<k, loc>>} <=> <<j, l>> \in Rows(q) \/ <<j, l>> = <<k, loc>>
    OBVIOUS
  <2>3. <<j, l>> \in Rows(q) <=> l \in KeysOf(q) /\ j = RowKey(q, l)
    BY RowEntry
  <2>4. <<j, l>> \in Rows(r) <=> l \in KeysOf(r) /\ j = RowKey(r, l)
    BY RowEntry
  <2>5. l \in KeysOf(r) /\ j = RowKey(r, l) <=> (l \in KeysOf(q) /\ j = RowKey(q, l)) \/ (j = k /\ l = loc)
    BY DEF GainsRow
  <2> QED
    BY <2>1, <2>2, <2>3, <2>4, <2>5
<1> QED
  BY <1>2, <1>3, SameEntries

\* The index follows a row that is taken away.
LEMMA LoseIndexed ==
  ASSUME NEW q, NEW r, NEW loc, LosesRow(q, r, loc), Unique(q), NEW k \in Int, k = RowKey(q, loc),
         NEW t, Indexes(t, Rows(q)), NEW u, u = INDEX_delete(t, k)
  PROVE  Unique(r) /\ Indexes(u, Rows(r))
<1>1. /\ loc \in KeysOf(q) /\ \A l : l \in KeysOf(r) <=> l \in KeysOf(q) /\ l # loc
      /\ \A l \in KeysOf(r) : RowKey(r, l) = RowKey(q, l)
  BY DEF LosesRow
<1>2. \A l, m \in KeysOf(q) : RowKey(q, l) = RowKey(q, m) => l = m
  BY UniqueIs
<1>3. \A l, m \in KeysOf(r) : RowKey(r, l) = RowKey(r, m) => l = m
  BY <1>1, <1>2
<1>4. ASSUME NEW j \in Int, NEW l PROVE <<j, l>> \in Rows(r) <=> <<j, l>> \in Rows(q) /\ j # k
  <2>1. <<j, l>> \in Rows(q) <=> l \in KeysOf(q) /\ j = RowKey(q, l)
    BY RowEntry
  <2>2. <<j, l>> \in Rows(r) <=> l \in KeysOf(r) /\ j = RowKey(r, l)
    BY RowEntry
  <2>3. l \in KeysOf(r) /\ j = RowKey(r, l) <=> l \in KeysOf(q) /\ j = RowKey(q, l) /\ j # k
    BY <1>1, <1>2
  <2> QED
    BY <2>1, <2>2, <2>3
<1>5. Indexes(u, Rows(r))
  BY <1>4, IndexWithout
<1> QED
  BY <1>3, <1>5, UniqueIs

\* The index follows a row that is moved, perhaps with another key.
LEMMA MoveIndexed ==
  ASSUME NEW q, NEW r, NEW old, NEW new \in RowLocations, NEW j \in Int, MovesRow(q, r, old, new, j),
         Unique(q), Unique(r), NEW k \in Int, k = RowKey(q, old),
         NEW t, Indexes(t, Rows(q)), NEW v, v = INDEX_delete(t, k), NEW u, u = INDEX_insert(v, j, new, 0, 0)
  PROVE  Indexes(u, Rows(r)) /\ \E E : Indexes(v, E)
<1>1. /\ old \in KeysOf(q) /\ new \notin KeysOf(q)
      /\ \A l : l \in KeysOf(r) <=> (l \in KeysOf(q) /\ l # old) \/ l = new
      /\ \A l \in KeysOf(q) \ {old} : RowKey(r, l) = RowKey(q, l)
      /\ RowKey(r, new) = j
  BY DEF MovesRow
<1>2. \A l, m \in KeysOf(q) : RowKey(q, l) = RowKey(q, m) => l = m
  BY UniqueIs
<1>3. \A l, m \in KeysOf(r) : RowKey(r, l) = RowKey(r, m) => l = m
  BY UniqueIs
<1>4. PICK E : E = RowsAt(q, KeysOf(q) \ {old})
  OBVIOUS
<1>5. ASSUME NEW i, NEW l PROVE <<i, l>> \in E <=> l \in KeysOf(q) /\ l # old /\ i = RowKey(q, l)
  BY <1>4, RowIs
<1>6. ASSUME NEW i \in Int, NEW l PROVE <<i, l>> \in E <=> <<i, l>> \in Rows(q) /\ i # k
  <2>1. <<i, l>> \in Rows(q) <=> l \in KeysOf(q) /\ i = RowKey(q, l)
    BY RowEntry
  <2> QED
    BY <1>1, <1>2, <1>5, <2>1
<1>7. Indexes(v, E)
  BY <1>6, IndexWithout
<1>8. ASSUME NEW l PROVE <<j, l>> \notin E
  BY <1>1, <1>3, <1>5
<1>9. Indexes(u, E \cup {<<j, new>>})
  BY <1>7, <1>8, IndexEntered
<1>10. ASSUME NEW i \in Int, NEW l PROVE <<i, l>> \in E \cup {<<j, new>>} <=> <<i, l>> \in Rows(r)
  <2>1. <<i, l>> = <<j, new>> <=> i = j /\ l = new
    OBVIOUS
  <2>2. <<i, l>> \in E \cup {<<j, new>>} <=> <<i, l>> \in E \/ <<i, l>> = <<j, new>>
    OBVIOUS
  <2>3. <<i, l>> \in Rows(r) <=> l \in KeysOf(r) /\ i = RowKey(r, l)
    BY RowEntry
  <2>4. l \in KeysOf(r) /\ i = RowKey(r, l)
          <=> (l \in KeysOf(q) /\ l # old /\ i = RowKey(q, l)) \/ (i = j /\ l = new)
    BY <1>1
  <2> QED
    BY <1>5, <2>1, <2>2, <2>3, <2>4
<1>11. Indexes(u, Rows(r))
  BY <1>9, <1>10, SameEntries
<1> QED
  BY <1>7, <1>11

-----------------------------------------------------------------------------
(* The rows a build has passed.                                             *)
PassedIn(q, p, s) == {l \in KeysOf(q) : l[1] < p \/ (l[1] = p /\ l[2] < s)}

\* None before the first page, all behind the last; a page is passed with its slots.
LEMMA PassedAre ==
  ASSUME NEW q \in Seq(Seq(Slots)), \A p \in DOMAIN q : Len(q[p]) <= PageSlots
  PROVE  /\ PassedIn(q, 1, 0) = {}
         /\ \A p \in Nat : PassedIn(q, p, 1) = PassedIn(q, p, 0)
         /\ \A p \in Nat, s \in Nat : p > Len(q) => PassedIn(q, p, s) = KeysOf(q)
         /\ \A p \in DOMAIN q : \A s \in Nat :
              s > Len(q[p]) => PassedIn(q, p + 1, 0) = PassedIn(q, p, s)
         /\ \A p \in DOMAIN q : \A s \in DOMAIN q[p] :
              /\ q[p][s] = Dead => PassedIn(q, p, s + 1) = PassedIn(q, p, s)
              /\ q[p][s] # Dead => /\ PassedIn(q, p, s + 1) = PassedIn(q, p, s) \cup {<<p, s>>}
                                   /\ <<p, s>> \notin PassedIn(q, p, s)
<1>1. ASSUME NEW l \in KeysOf(q)
      PROVE  /\ l[1] \in 1..Len(q) /\ l[2] \in 1..Len(q[l[1]]) /\ Len(q[l[1]]) \in Nat /\ Len(q) \in Nat
             /\ l = <<l[1], l[2]>> /\ q[l[1]][l[2]] # Dead
  BY <1>1, RowPlace
<1>2. PassedIn(q, 1, 0) = {}
  BY <1>1 DEF PassedIn
<1>3. ASSUME NEW p \in Nat PROVE PassedIn(q, p, 1) = PassedIn(q, p, 0)
  BY <1>1 DEF PassedIn
<1>4. ASSUME NEW p \in Nat, NEW s \in Nat, p > Len(q) PROVE PassedIn(q, p, s) = KeysOf(q)
  BY <1>1, <1>4 DEF PassedIn
<1>5. ASSUME NEW p \in DOMAIN q, NEW s \in Nat, s > Len(q[p]) PROVE PassedIn(q, p + 1, 0) = PassedIn(q, p, s)
  <2>1. p \in Nat
    OBVIOUS
  <2>2. ASSUME NEW l \in KeysOf(q)
        PROVE  l[1] < p + 1 \/ (l[1] = p + 1 /\ l[2] < 0) <=> l[1] < p \/ (l[1] = p /\ l[2] < s)
    <3>1. l[1] \in Nat /\ l[2] \in Nat /\ l[2] <= Len(q[l[1]]) /\ Len(q[l[1]]) \in Nat
      BY <1>1
    <3>2. l[1] = p => l[2] < s
      BY <1>5, <3>1
    <3> QED
      BY <2>1, <3>1, <3>2
  <2> QED
    BY <2>2 DEF PassedIn
<1>6. ASSUME NEW p \in DOMAIN q, NEW s \in DOMAIN q[p]
      PROVE  /\ q[p][s] = Dead => PassedIn(q, p, s + 1) = PassedIn(q, p, s)
             /\ q[p][s] # Dead => /\ PassedIn(q, p, s + 1) = PassedIn(q, p, s) \cup {<<p, s>>}
                                  /\ <<p, s>> \notin PassedIn(q, p, s)
  <2>1. p \in Nat /\ q[p] \in Seq(Slots)
    OBVIOUS
  <2>2. s \in Nat
    BY <2>1
  <2>3. <<p, s>> \in KeysOf(q) <=> q[p][s] # Dead
    BY PlaceRow
  <2>4. ASSUME NEW l \in KeysOf(q)
        PROVE  l \in PassedIn(q, p, s + 1) <=> l \in PassedIn(q, p, s) \/ l = <<p, s>>
    <3>1. l[1] \in Nat /\ l[2] \in Nat /\ l = <<l[1], l[2]>>
      BY <1>1
    <3>2. l = <<p, s>> <=> l[1] = p /\ l[2] = s
      BY <3>1
    <3>3. l \in PassedIn(q, p, s + 1) <=> l[1] < p \/ (l[1] = p /\ l[2] < s + 1)
      BY DEF PassedIn
    <3>4. l \in PassedIn(q, p, s) <=> l[1] < p \/ (l[1] = p /\ l[2] < s)
      BY DEF PassedIn
    <3> QED
      BY <2>1, <2>2, <3>1, <3>2, <3>3, <3>4
  <2>5. PassedIn(q, p, s + 1) \subseteq KeysOf(q) /\ PassedIn(q, p, s) \subseteq KeysOf(q)
    BY DEF PassedIn
  <2>6. <<p, s>> \notin PassedIn(q, p, s)
    <3>1. <<p, s>>[1] = p /\ <<p, s>>[2] = s
      OBVIOUS
    <3>2. ~(p < p \/ (p = p /\ s < s))
      BY <2>1, <2>2
    <3> QED
      BY <3>1, <3>2, Zenon DEF PassedIn
  <2>7. CASE q[p][s] = Dead
    BY <2>3, <2>4, <2>5, <2>7
  <2>8. CASE q[p][s] # Dead
    BY <2>3, <2>4, <2>5, <2>6, <2>8
  <2> QED
    BY <2>7, <2>8
<1> QED
  BY <1>2, <1>3, <1>4, <1>5, <1>6
-----------------------------------------------------------------------------
\* The rows of a page that lost the one at slot and got n new ones.
LEMMA EmptiedRows ==
  ASSUME Typing, Typing', NEW n \in {0, 1}, Emptied(n), NEW p, NEW s,
         n = 1 => pages'[pid][Len(pages[pid]) + 1] # Dead
  PROVE  /\ <<p, s>> \in KeysOf(pages')
              <=> (<<p, s>> \in KeysOf(pages) /\ ~(p = pid /\ s = slot))
                  \/ (n = 1 /\ p = pid /\ s = Len(pages[pid]) + 1)
         /\ <<p, s>> \in KeysOf(pages) /\ ~(p = pid /\ s = slot)
              => RowKey(pages', <<p, s>>) = RowKey(pages, <<p, s>>)
<1>1. /\ pages \in Seq(Seq(Slots)) /\ \A i \in DOMAIN pages : Len(pages[i]) <= PageSlots
      /\ pages' \in Seq(Seq(Slots)) /\ \A i \in DOMAIN pages' : Len(pages'[i]) <= PageSlots
  BY DEF Typing, TableInv, Counters, LengthsFit
<1>2. /\ DOMAIN pages' = DOMAIN pages
      /\ \A i \in DOMAIN pages \ {pid} : pages'[i] = pages[i]
      /\ pid \in DOMAIN pages /\ slot \in DOMAIN pages[pid] /\ pages[pid] \in Seq(Slots)
      /\ pages'[pid] \in Seq(Slots) /\ Len(pages'[pid]) = Len(pages[pid]) + n
      /\ pages'[pid][slot] = Dead
      /\ \A i \in DOMAIN pages[pid] \ {slot} : pages'[pid][i] = pages[pid][i]
  BY DEF Emptied
<1>3. /\ <<p, s>> \in KeysOf(pages) <=> p \in DOMAIN pages /\ s \in DOMAIN pages[p] /\ pages[p][s] # Dead
      /\ <<p, s>> \in KeysOf(pages') <=> p \in DOMAIN pages' /\ s \in DOMAIN pages'[p] /\ pages'[p][s] # Dead
  BY <1>1, PlaceRow
<1>4. RowKey(pages', <<p, s>>) = Key(pages'[p][s]) /\ RowKey(pages, <<p, s>>) = Key(pages[p][s])
  BY DEF RowKey
<1>5. CASE p # pid
  BY <1>2, <1>3, <1>4, <1>5
<1>6. CASE p = pid
  <2>1. /\ DOMAIN pages[pid] = 1..Len(pages[pid]) /\ DOMAIN pages'[pid] = 1..Len(pages[pid]) + n
        /\ Len(pages[pid]) \in Nat
    BY <1>2
  <2>2. s \in DOMAIN pages'[pid] <=> s \in DOMAIN pages[pid] \/ (n = 1 /\ s = Len(pages[pid]) + 1)
    BY <2>1
  <2>3. Len(pages[pid]) + 1 \notin DOMAIN pages[pid]
    BY <2>1
  <2> QED
    BY <1>2, <1>3, <1>4, <1>6, <2>2, <2>3
<1> QED
  BY <1>5, <1>6

\* Rows are told apart by page and slot.
LEMMA Pairs ==
  ASSUME Typing, NEW l \in KeysOf(pages)
  PROVE  l = <<l[1], l[2]>> /\ <<l[1], l[2]>> \in KeysOf(pages)
<1>1. pages \in Seq(Seq(Slots))
  BY DEF Typing, TableInv, Counters
<1>2. l = <<l[1], l[2]>>
  BY <1>1, RowPlace
<1> QED
  BY <1>2

\* page_delete takes one row away.
LEMMA EmptiedLoses ==
  ASSUME Typing, Typing', Emptied(0), slot \in Live(pid)
  PROVE  LosesRow(pages, pages', <<pid, slot>>)
<1>1. ASSUME NEW p, NEW s
      PROVE  /\ <<p, s>> \in KeysOf(pages') <=> <<p, s>> \in KeysOf(pages) /\ ~(p = pid /\ s = slot)
             /\ <<p, s>> \in KeysOf(pages) /\ ~(p = pid /\ s = slot)
                  => RowKey(pages', <<p, s>>) = RowKey(pages, <<p, s>>)
  BY EmptiedRows
<1>2. ASSUME NEW l \in KeysOf(pages)
      PROVE  l # <<pid, slot>> <=> ~(l[1] = pid /\ l[2] = slot)
  <2>1. l = <<l[1], l[2]>>
    BY Pairs
  <2>2. <<pid, slot>>[1] = pid /\ <<pid, slot>>[2] = slot
    OBVIOUS
  <2>3. l[1] = pid /\ l[2] = slot => l = <<pid, slot>>
    BY <2>1
  <2> QED
    BY <2>2, <2>3, Zenon
<1>3. <<pid, slot>> \in KeysOf(pages)
  <2>1. pages \in Seq(Seq(Slots)) /\ (\A i \in DOMAIN pages : Len(pages[i]) <= PageSlots) /\ pid \in DOMAIN pages
    BY DEF Typing, TableInv, Counters, LengthsFit, Emptied
  <2> QED
    BY <2>1, PlaceRow DEF Live
<1>4. ASSUME NEW l \in KeysOf(pages')
      PROVE  l \in KeysOf(pages) /\ l # <<pid, slot>> /\ RowKey(pages', l) = RowKey(pages, l)
  <2>1. l = <<l[1], l[2]>> /\ <<l[1], l[2]>> \in KeysOf(pages')
    <3>1. pages' \in Seq(Seq(Slots))
      BY DEF Typing, TableInv, Counters
    <3>2. l = <<l[1], l[2]>>
      BY <3>1, RowPlace
    <3> QED
      BY <3>2
  <2>2. <<l[1], l[2]>> \in KeysOf(pages) /\ ~(l[1] = pid /\ l[2] = slot)
    BY <1>1, <2>1
  <2> QED
    BY <1>1, <1>2, <2>1, <2>2
<1>5. ASSUME NEW l \in KeysOf(pages), l # <<pid, slot>> PROVE l \in KeysOf(pages')
  <2>1. l = <<l[1], l[2]>> /\ <<l[1], l[2]>> \in KeysOf(pages)
    BY Pairs
  <2>2. ~(l[1] = pid /\ l[2] = slot)
    BY <1>2, <1>5
  <2>3. <<l[1], l[2]>> \in KeysOf(pages')
    BY <1>1, <2>1, <2>2
  <2> QED
    BY <2>1, <2>3
<1> QED
  BY <1>3, <1>4, <1>5, Zenon DEF LosesRow

\* page_delete and page_insert move one row.
LEMMA MovedMoves ==
  ASSUME Typing, Typing', Emptied(1), slot \in Live(pid),
         pages'[pid][Len(pages[pid]) + 1] # Dead, NEW k, k = Key(pages'[pid][Len(pages[pid]) + 1])
  PROVE  MovesRow(pages, pages', <<pid, slot>>, <<pid, Len(pages[pid]) + 1>>, k)
<1>1. PICK e : e = Len(pages[pid]) + 1
  OBVIOUS
<1>2. ASSUME NEW p, NEW s
      PROVE  /\ <<p, s>> \in KeysOf(pages')
                  <=> (<<p, s>> \in KeysOf(pages) /\ ~(p = pid /\ s = slot)) \/ (p = pid /\ s = e)
             /\ <<p, s>> \in KeysOf(pages) /\ ~(p = pid /\ s = slot)
                  => RowKey(pages', <<p, s>>) = RowKey(pages, <<p, s>>)
  BY <1>1, EmptiedRows
<1>3. /\ pages \in Seq(Seq(Slots)) /\ (\A i \in DOMAIN pages : Len(pages[i]) <= PageSlots)
      /\ pid \in DOMAIN pages /\ pages[pid] \in Seq(Slots) /\ pages' \in Seq(Seq(Slots))
  BY DEF Typing, TableInv, Counters, LengthsFit, Emptied
<1>4. <<pid, slot>> \in KeysOf(pages)
  BY <1>3, PlaceRow DEF Live
<1>5. <<pid, e>> \notin KeysOf(pages)
  <2>1. e \notin DOMAIN pages[pid]
    BY <1>1, <1>3
  <2> QED
    BY <1>3, <2>1, PlaceRow
<1>6. ASSUME NEW l \in KeysOf(pages)
      PROVE  /\ l = <<l[1], l[2]>> /\ <<l[1], l[2]>> \in KeysOf(pages)
             /\ l # <<pid, slot>> <=> ~(l[1] = pid /\ l[2] = slot)
  BY <1>6, Pairs
<1>7. ASSUME NEW l \in KeysOf(pages') PROVE (l \in KeysOf(pages) /\ l # <<pid, slot>>) \/ l = <<pid, e>>
  <2>1. l = <<l[1], l[2]>>
    BY <1>3, RowPlace
  <2>2. (<<l[1], l[2]>> \in KeysOf(pages) /\ ~(l[1] = pid /\ l[2] = slot)) \/ (l[1] = pid /\ l[2] = e)
    <3>1. <<l[1], l[2]>> \in KeysOf(pages')
      BY <2>1
    <3> QED
      BY <1>2, <3>1
  <2> QED
    BY <1>6, <2>1, <2>2
<1>8. ASSUME NEW l \in KeysOf(pages), l # <<pid, slot>>
      PROVE  l \in KeysOf(pages') /\ RowKey(pages', l) = RowKey(pages, l)
  <2>1. l = <<l[1], l[2]>> /\ <<l[1], l[2]>> \in KeysOf(pages) /\ ~(l[1] = pid /\ l[2] = slot)
    BY <1>6, <1>8
  <2>2. <<l[1], l[2]>> \in KeysOf(pages') /\ RowKey(pages', <<l[1], l[2]>>) = RowKey(pages, <<l[1], l[2]>>)
    BY <1>2, <2>1
  <2> QED
    BY <2>1, <2>2
<1>9. <<pid, e>> \in KeysOf(pages')
  BY <1>2
<1>10. RowKey(pages', <<pid, e>>) = k
  BY <1>1 DEF RowKey
<1>11. MovesRow(pages, pages', <<pid, slot>>, <<pid, e>>, k)
  BY <1>4, <1>5, <1>7, <1>8, <1>9, <1>10, Zenon DEF MovesRow
<1> QED
  BY <1>1, <1>11

\* A table gets a row behind the others of a page, or on a page of its own.
LEMMA RowGained ==
  ASSUME Typing, Typing', NEW p, NEW s, NEW v \in Values, NEW k, k = atoi[v],
         p \notin DOMAIN pages \/ s \notin DOMAIN pages[p],
         \A i \in DOMAIN pages : /\ i \in DOMAIN pages' /\ DOMAIN pages[i] \subseteq DOMAIN pages'[i]
                                 /\ \A j \in DOMAIN pages[i] : pages'[i][j] = pages[i][j],
         \A i \in DOMAIN pages' : \A j \in DOMAIN pages'[i] :
           (i \in DOMAIN pages /\ j \in DOMAIN pages[i]) \/ (i = p /\ j = s),
         p \in DOMAIN pages', s \in DOMAIN pages'[p], pages'[p][s] = Row(v)
  PROVE  GainsRow(pages, pages', <<p, s>>, k)
<1>1. /\ pages \in Seq(Seq(Slots)) /\ (\A i \in DOMAIN pages : Len(pages[i]) <= PageSlots)
      /\ pages' \in Seq(Seq(Slots)) /\ (\A i \in DOMAIN pages' : Len(pages'[i]) <= PageSlots)
  BY DEF Typing, TableInv, Counters, LengthsFit
<1>2. Row(v) # Dead /\ Key(Row(v)) = k
  BY ValuesAssumption DEF Row, Dead, Key
<1>3. <<p, s>> \in KeysOf(pages') /\ <<p, s>> \notin KeysOf(pages)
  BY <1>1, <1>2, PlaceRow
<1>4. ASSUME NEW l \in KeysOf(pages)
      PROVE  l \in KeysOf(pages') /\ RowKey(pages', l) = RowKey(pages, l)
  <2>1. l = <<l[1], l[2]>> /\ l[1] \in DOMAIN pages /\ l[2] \in DOMAIN pages[l[1]] /\ pages[l[1]][l[2]] # Dead
    BY <1>1, <1>4, RowPlace
  <2>2. l[1] \in DOMAIN pages' /\ l[2] \in DOMAIN pages'[l[1]] /\ pages'[l[1]][l[2]] = pages[l[1]][l[2]]
    BY <2>1
  <2>3. <<l[1], l[2]>> \in KeysOf(pages')
    BY <1>1, <2>1, <2>2, PlaceRow
  <2> QED
    BY <2>1, <2>2, <2>3 DEF RowKey
<1>5. ASSUME NEW l \in KeysOf(pages'), l # <<p, s>> PROVE l \in KeysOf(pages)
  <2>1. l = <<l[1], l[2]>> /\ l[1] \in DOMAIN pages' /\ l[2] \in DOMAIN pages'[l[1]] /\ pages'[l[1]][l[2]] # Dead
    BY <1>1, <1>5, RowPlace
  <2>2. ~(l[1] = p /\ l[2] = s)
    BY <1>5, <2>1
  <2>3. l[1] \in DOMAIN pages /\ l[2] \in DOMAIN pages[l[1]] /\ pages'[l[1]][l[2]] = pages[l[1]][l[2]]
    BY <2>1, <2>2
  <2>4. <<l[1], l[2]>> \in KeysOf(pages)
    BY <1>1, <2>1, <2>3, PlaceRow
  <2> QED
    BY <2>1, <2>4
<1>6. RowKey(pages', <<p, s>>) = k
  BY <1>2 DEF RowKey
<1> QED
  BY <1>3, <1>4, <1>5, <1>6, Zenon DEF GainsRow
-----------------------------------------------------------------------------
(* The inductive invariant.  While the table is opened the index has the rows  *)
(* the loop has passed (BuiltSoFar), and from then on those of the table       *)
(* (Mirrored), as long as nothing failed and keys are unique; whatever         *)
(* allocation failed, a freshly built index has no entry but of a row and      *)
(* under its key (EntriesHold).  Uniqueness is asked of the table as it is and  *)
(* as the statement found it, which is enough in between (OnlySet): an UPDATE  *)
(* can make no two rows equal but in the value it sets, and the next row it    *)
(* visits would then be a third.                                            *)
Serving == {"ready", "insert", "update", "delete", "done"}

BuildLoop   == pc = "build" /\ slot > 0 => limit = Len(pages[pid]) /\ slot <= limit + 1
EntriesHold == pc \in {"build", "ready"} /\ "key" \notin indexFaults /\ index # NoIndex =>
                 Holds(index, Rows(pages))
BuiltSoFar  == pc = "build" /\ indexFaults = {} /\ Unique(pages) =>
                 Indexes(index, RowsAt(pages, PassedIn(pages, pid, slot)))
Mirrored    == pc \in Serving /\ indexFaults = {} /\ Unique(before) /\ Unique(pages) =>
                 Indexes(index, Rows(pages))
OnlySet     == Unique(before) =>
                 /\ pc = "delete" => Unique(pages)
                 /\ pc = "update" => \A l, m \in KeysOf(pages) :
                      RowKey(pages, l) = RowKey(pages, m) =>
                        l = m \/ (RowKey(pages, l) = atoi[stmt.set] /\ stmt.set \in Values)

IndexRest == BuildLoop /\ EntriesHold /\ BuiltSoFar /\ Mirrored /\ OnlySet /\ LookupRight
IndexInv  == WholeInv /\ IndexRest

\* A closed table and a process that ended have no index to speak of.
LEMMA IndexOutside == ASSUME pc' \in {"closed", "crashed"} PROVE IndexRest'
BY DEF IndexRest, BuildLoop, EntriesHold, BuiltSoFar, Mirrored, OnlySet, LookupRight, LookedUp, Serving

\* What an entry is made of when nothing goes wrong, and when no row is misread.
LEMMA EntryIs ==
  ASSUME NEW t, NEW key, NEW loc, NEW next, AddEntry(t, key, loc, next)
  PROVE  /\ indexFaults \subseteq indexFaults'
         /\ indexFaults' = {} => index' = Entered(t, key, loc, 0, 0)
         /\ "key" \notin indexFaults' =>
              \E failAt : \E garbage \in Int : index' = Entered(t, key, loc, failAt, garbage)
<1>1. CASE Enter(t, key, loc, 0, 0, next) /\ NoFault
  <2>1. index' = Entered(t, key, loc, 0, 0) /\ indexFaults' = indexFaults /\ 0 \in Int
    BY <1>1 DEF Enter, NoFault
  <2> QED
    BY <2>1
<1>2. ASSUME NEW read \in Misread(key), Enter(t, read, loc, 0, 0, next), IndexFault("key")
      PROVE  indexFaults \subseteq indexFaults' /\ "key" \in indexFaults'
  BY <1>2 DEF IndexFault
<1>3. ASSUME NEW failAt, NEW garbage \in Garbage, Enter(t, key, loc, failAt, garbage, next),
             NEW f, IndexFault(f)
      PROVE  /\ indexFaults \subseteq indexFaults' /\ indexFaults' # {} /\ garbage \in Int
             /\ index' = Entered(t, key, loc, failAt, garbage)
  <2>1. indexFaults' = indexFaults \cup {f}
    BY <1>3 DEF IndexFault
  <2>2. garbage \in Int
    BY <1>3, TableAssumption
  <2>3. index' = Entered(t, key, loc, failAt, garbage)
    BY <1>3 DEF Enter
  <2> QED
    BY <2>1, <2>2, <2>3
<1>4. CASE \E read \in Misread(key) : Enter(t, read, loc, 0, 0, next) /\ IndexFault("key")
  BY <1>2, <1>4
<1>5. CASE \E failAt \in 1..Allocations(t, key, loc), garbage \in Garbage :
             /\ Enter(t, key, loc, failAt, garbage, next)
             /\ IndexFault(IF RootFails(t, key, loc, failAt) THEN "root" ELSE "alloc")
  <2>1. PICK failAt \in 1..Allocations(t, key, loc), garbage \in Garbage :
               /\ Enter(t, key, loc, failAt, garbage, next)
               /\ IndexFault(IF RootFails(t, key, loc, failAt) THEN "root" ELSE "alloc")
    BY <1>5, Zenon
  <2>2. /\ indexFaults \subseteq indexFaults' /\ indexFaults' # {} /\ garbage \in Int
        /\ index' = Entered(t, key, loc, failAt, garbage)
    BY <1>3, <2>1, Zenon
  <2> QED
    BY <2>2, Zenon
<1> QED
  BY <1>1, <1>4, <1>5, Zenon DEF AddEntry

\* INDEX_insert is called on an index that is there and can be descended.
LEMMA EnteredIs ==
  ASSUME NEW t, NEW key, NEW loc, NEW failAt, NEW garbage
  PROVE  /\ t # NoIndex /\ find_leaf(t, key) # NULL =>
              Entered(t, key, loc, failAt, garbage) = INDEX_insert(t, key, loc, failAt, garbage)
         /\ t = NoIndex \/ find_leaf(t, key) = NULL => Entered(t, key, loc, failAt, garbage) = t
<1>1. Unreachable(t, key) <=> t # NoIndex /\ find_leaf(t, key) = NULL
  BY DEF Unreachable
<1> QED
  BY <1>1 DEF Entered

\* An entry more, where the index has to hold no more than the rows.
LEMMA EntryHolds ==
  ASSUME NEW E, index # NoIndex => Holds(index, E), NEW key \in Int, NEW loc \in RowLocations,
         <<key, loc>> \in E, NEW next, AddEntry(index, key, loc, next),
         "key" \notin indexFaults', index' # NoIndex
  PROVE  Holds(index', E)
<1>1. PICK failAt : \E garbage \in Int : index' = Entered(index, key, loc, failAt, garbage)
  BY EntryIs
<1>2. PICK garbage \in Int : index' = Entered(index, key, loc, failAt, garbage)
  BY <1>1
<1>3. CASE index = NoIndex \/ find_leaf(index, key) = NULL
  <2>1. index' = index
    BY <1>2, <1>3, EnteredIs
  <2> QED
    BY <2>1
<1>4. CASE index # NoIndex /\ find_leaf(index, key) # NULL
  <2>1. index' = INDEX_insert(index, key, loc, failAt, garbage)
    BY <1>2, <1>4, EnteredIs
  <2> QED
    BY <1>4, <2>1, IndexHolds
<1> QED
  BY <1>3, <1>4

\* An entry more, where nothing failed.
LEMMA EntryClean ==
  ASSUME NEW t, NEW E, Indexes(t, E), NEW key \in Int, NEW loc, NEW next,
         AddEntry(t, key, loc, next), indexFaults' = {}
  PROVE  index' = INDEX_insert(t, key, loc, 0, 0)
<1>1. index' = Entered(t, key, loc, 0, 0)
  BY EntryIs
<1>2. t # NoIndex /\ find_leaf(t, key) # NULL
  BY Reachable
<1> QED
  BY <1>1, <1>2, EnteredIs

-----------------------------------------------------------------------------
\* table_open begins with an empty index, or with none.
LEMMA OpenIndex == ASSUME IndexInv, WholeInv', table_open PROVE IndexRest'
<1>1. /\ pc' = "build" /\ pid' = 1 /\ slot' = 0
      /\ \/ index' = INDEX_create
         \/ index' = NoIndex /\ indexFaults' # {}
  BY DEF table_open, IndexFault
<1>2. BuildLoop' /\ Mirrored' /\ OnlySet' /\ LookupRight'
  BY <1>1 DEF BuildLoop, Mirrored, OnlySet, LookupRight, LookedUp, Serving
<1>3. EntriesHold'
  BY <1>1, IndexCreated DEF EntriesHold
<1>4. BuiltSoFar'
  <2>1. pages' \in Seq(Seq(Slots)) /\ \A p \in DOMAIN pages' : Len(pages'[p]) <= PageSlots
    BY DEF WholeInv, Typing, TableInv, Counters, LengthsFit
  <2>2. PassedIn(pages', 1, 0) = {}
    BY <2>1, PassedAre
  <2>3. RowsAt(pages', PassedIn(pages', pid', slot')) = {}
    BY <1>1, <2>2 DEF RowsAt
  <2> QED
    BY <1>1, <2>3, IndexCreated DEF BuiltSoFar
<1> QED
  BY <1>2, <1>3, <1>4 DEF IndexRest

\* A step that leaves the table and its index alone, and stays where it is.
LEMMA SameIndex ==
  ASSUME IndexRest, UNCHANGED <<pages, index, pc, stmt, before>>, indexFaults \subseteq indexFaults', pc # "done"
  PROVE  EntriesHold' /\ Mirrored' /\ OnlySet' /\ LookupRight'
<1>1. EntriesHold'
  BY DEF IndexRest, EntriesHold
<1>2. Mirrored'
  <2>1. indexFaults' = {} => indexFaults = {}
    OBVIOUS
  <2> QED
    BY <2>1 DEF IndexRest, Mirrored
<1>3. OnlySet'
  BY DEF IndexRest, OnlySet
<1>4. LookupRight'
  BY DEF LookupRight, LookedUp
<1> QED
  BY <1>1, <1>2, <1>3, <1>4

\* The pages and the loop of a build.
LEMMA BuildPlace ==
  ASSUME IndexInv, pc = "build"
  PROVE  /\ pages \in Seq(Seq(Slots)) /\ \A p \in DOMAIN pages : Len(pages[p]) <= PageSlots
         /\ pid \in Nat /\ slot \in Nat /\ limit \in Nat
         /\ slot > 0 => pid \in DOMAIN pages /\ limit = Len(pages[pid]) /\ slot <= limit + 1
<1>1. /\ pages \in Seq(Seq(Slots)) /\ \A p \in DOMAIN pages : Len(pages[p]) <= PageSlots
      /\ pid \in Nat \ {0} /\ slot \in Nat /\ limit \in Nat
      /\ slot > 0 => pid <= Len(pages)
  BY DEF IndexInv, WholeInv, Typing, TableInv, Counters, LengthsFit
<1>2. slot > 0 => limit = Len(pages[pid]) /\ slot <= limit + 1
  BY DEF IndexInv, IndexRest, BuildLoop
<1> QED
  BY <1>1, <1>2

\* The loops come to a page, skip it, or leave it.
LEMMA PageIndex == ASSUME IndexInv, PinPage \/ SkipPage \/ NextPage PROVE IndexRest'
<1>1. UNCHANGED <<pages, index, pc, stmt, before>> /\ indexFaults \subseteq indexFaults' /\ pc # "done"
  BY DEF PinPage, SkipPage, NextPage, InLoop, history, IndexFault
<1>2. EntriesHold' /\ Mirrored' /\ OnlySet' /\ LookupRight'
  BY <1>1, SameIndex DEF IndexInv
<1>3. CASE pc # "build"
  <2>1. BuildLoop' /\ BuiltSoFar'
    BY <1>1, <1>3 DEF BuildLoop, BuiltSoFar
  <2> QED
    BY <1>2, <2>1 DEF IndexRest
<1>4. CASE pc = "build"
  <2>1. /\ pages \in Seq(Seq(Slots)) /\ \A p \in DOMAIN pages : Len(pages[p]) <= PageSlots
        /\ pid \in Nat /\ slot \in Nat /\ limit \in Nat
        /\ slot > 0 => pid \in DOMAIN pages /\ limit = Len(pages[pid]) /\ slot <= limit + 1
    BY <1>4, BuildPlace
  <2>2. CASE PinPage
    <3>1. pid' = pid /\ slot = 0 /\ slot' = 1 /\ limit' = Len(pages[pid]) /\ pid <= Len(pages)
          /\ indexFaults' = indexFaults
      BY <2>2 DEF PinPage, InLoop, history
    <3>2. Len(pages[pid]) \in Nat
      <4>1. pid \in Nat \ {0}
        BY DEF IndexInv, WholeInv, Typing, TableInv, Counters
      <4>2. pid \in DOMAIN pages
        BY <2>1, <3>1, <4>1
      <4> QED
        BY <2>1, <4>2
    <3>3. BuildLoop'
      BY <1>1, <3>1, <3>2 DEF BuildLoop
    <3>4. PassedIn(pages, pid, 1) = PassedIn(pages, pid, 0)
      BY <2>1, PassedAre
    <3>5. BuiltSoFar'
      BY <1>1, <3>1, <3>4 DEF BuiltSoFar, IndexInv, IndexRest
    <3> QED
      BY <1>2, <3>3, <3>5 DEF IndexRest
  <2>3. CASE SkipPage
    <3>1. slot' = slot /\ slot = 0 /\ indexFaults' # {}
      BY <1>4, <2>3 DEF SkipPage, InLoop, IndexFault
    <3>2. BuildLoop' /\ BuiltSoFar'
      BY <3>1 DEF BuildLoop, BuiltSoFar
    <3> QED
      BY <1>2, <3>2 DEF IndexRest
  <2>4. CASE NextPage
    <3>1. pid' = pid + 1 /\ slot' = 0 /\ slot > limit /\ indexFaults' = indexFaults
      BY <2>4 DEF NextPage, history
    <3>2. PassedIn(pages, pid + 1, 0) = PassedIn(pages, pid, slot)
      <4>1. pid \in DOMAIN pages /\ slot > Len(pages[pid])
        BY <2>1, <3>1
      <4> QED
        BY <2>1, <4>1, PassedAre
    <3>3. BuildLoop'
      BY <3>1 DEF BuildLoop
    <3>4. BuiltSoFar'
      BY <1>1, <3>1, <3>2 DEF BuiltSoFar, IndexInv, IndexRest
    <3> QED
      BY <1>2, <3>3, <3>4 DEF IndexRest
  <2> QED
    BY <2>2, <2>3, <2>4
<1> QED
  BY <1>3, <1>4
-----------------------------------------------------------------------------
\* A row of the table goes into the index that is built.
LEMMA BuildRowIndex == ASSUME IndexInv, BuildRow PROVE IndexRest'
<1>1. /\ pages \in Seq(Seq(Slots)) /\ \A p \in DOMAIN pages : Len(pages[p]) <= PageSlots
      /\ pid \in DOMAIN pages /\ slot \in DOMAIN pages[pid] /\ limit = Len(pages[pid])
      /\ pid \in Nat /\ slot \in Nat /\ slot \in 1..limit
  <2>1. pc = "build" /\ slot \in 1..limit
    BY DEF BuildRow
  <2>2. /\ pages \in Seq(Seq(Slots)) /\ \A p \in DOMAIN pages : Len(pages[p]) <= PageSlots
        /\ pid \in Nat /\ slot \in Nat /\ limit \in Nat
        /\ slot > 0 => pid \in DOMAIN pages /\ limit = Len(pages[pid]) /\ slot <= limit + 1
    BY <2>1, BuildPlace
  <2>3. pid \in DOMAIN pages /\ limit = Len(pages[pid]) /\ pages[pid] \in Seq(Slots)
    BY <2>1, <2>2
  <2> QED
    BY <2>1, <2>2, <2>3
<1>2. /\ UNCHANGED <<pages, pid, limit, stmt, before>> /\ slot' = slot + 1 /\ pc = "build"
      /\ pc' \in {"build", "crashed"}
  BY EntryGoesOn DEF BuildRow, PassSlot
<1>3. CASE pc' = "crashed"
  BY <1>3, IndexOutside
<1>4. CASE pc' = "build"
  <2>1. BuildLoop'
    BY <1>1, <1>2 DEF BuildLoop
  <2>2. Mirrored' /\ OnlySet' /\ LookupRight'
    BY <1>4 DEF Mirrored, OnlySet, LookupRight, LookedUp, Serving
  <2>3. CASE slot \notin Live(pid)
    <3>1. UNCHANGED <<index, indexFaults>>
      BY <2>3 DEF BuildRow, PassSlot
    <3>2. EntriesHold'
      BY <1>2, <3>1 DEF EntriesHold, IndexInv, IndexRest
    <3>3. PassedIn(pages, pid, slot + 1) = PassedIn(pages, pid, slot)
      <4>1. pages[pid][slot] = Dead
        BY <1>1, <2>3 DEF Live
      <4> QED
        BY <1>1, <4>1, PassedAre
    <3>4. BuiltSoFar'
      BY <1>2, <3>1, <3>3 DEF BuiltSoFar, IndexInv, IndexRest
    <3> QED
      BY <2>1, <2>2, <3>2, <3>4 DEF IndexRest
  <2>4. CASE slot \in Live(pid)
    <3>1. PICK key : key = Key(pages[pid][slot])
      OBVIOUS
    <3>2. PICK loc : loc = <<pid, slot>>
      OBVIOUS
    <3>3. AddEntry(index, key, loc, "build")
      BY <2>4, <3>1, <3>2 DEF BuildRow
    <3>4. pages[pid][slot] # Dead
      BY <2>4 DEF Live
    <3>5. loc \in KeysOf(pages)
      BY <1>1, <3>2, <3>4, PlaceRow
    <3>6. RowKey(pages, loc) = key
      BY <3>1, <3>2 DEF RowKey
    <3>7. key \in Int /\ loc \in RowLocations
      BY <1>1, <3>5, <3>6, RowPlace
    <3>8. <<key, loc>> \in Rows(pages)
      BY <3>5, <3>6, RowEntry
    <3>9. EntriesHold'
      <4> SUFFICES ASSUME "key" \notin indexFaults', index' # NoIndex PROVE Holds(index', Rows(pages'))
        BY DEF EntriesHold
      <4>1. "key" \notin indexFaults
        BY <3>3, EntryIs
      <4>2. index # NoIndex => Holds(index, Rows(pages))
        BY <1>2, <4>1 DEF EntriesHold, IndexInv, IndexRest
      <4>3. Holds(index', Rows(pages))
        BY <3>3, <3>7, <3>8, <4>2, EntryHolds
      <4> QED
        BY <1>2, <4>3
    <3>10. /\ PassedIn(pages, pid, slot + 1) = PassedIn(pages, pid, slot) \cup {loc}
           /\ loc \notin PassedIn(pages, pid, slot)
      BY <1>1, <3>2, <3>4, PassedAre, ZenonT(60)
    <3>11. BuiltSoFar'
      <4> SUFFICES ASSUME indexFaults' = {}, Unique(pages')
                   PROVE  Indexes(index', RowsAt(pages', PassedIn(pages', pid', slot')))
        BY DEF BuiltSoFar
      <4>1. indexFaults = {}
        BY <3>3, EntryIs
      <4>2. PICK A : A = PassedIn(pages, pid, slot)
        OBVIOUS
      <4>3. Indexes(index, RowsAt(pages, A))
        BY <1>2, <4>1, <4>2 DEF BuiltSoFar, IndexInv, IndexRest
      <4>4. index' = INDEX_insert(index, key, loc, 0, 0)
        BY <3>3, <3>7, <4>3, EntryClean
      <4>5. ASSUME NEW l PROVE <<key, l>> \notin RowsAt(pages, A)
        <5>1. \A j, m \in KeysOf(pages) : RowKey(pages, j) = RowKey(pages, m) => j = m
          BY <1>2, UniqueIs
        <5>2. A \subseteq KeysOf(pages) /\ loc \notin A
          BY <3>10, <4>2 DEF PassedIn
        <5>3. ~(l \in A /\ key = RowKey(pages, l))
          BY <3>5, <3>6, <5>1, <5>2
        <5> QED
          BY <5>3, RowIs
      <4>6. Indexes(index', RowsAt(pages, A) \cup {<<key, loc>>})
        BY <3>7, <4>3, <4>4, <4>5, IndexEntered
      <4>7. RowsAt(pages, A) \cup {<<key, loc>>} = RowsAt(pages, A \cup {loc})
        BY <3>6 DEF RowsAt
      <4>8. pages' = pages /\ pid' = pid /\ slot' = slot + 1 /\ PassedIn(pages, pid, slot + 1) = A \cup {loc}
        BY <1>2, <3>10, <4>2
      <4> QED
        BY <4>6, <4>7, <4>8
    <3> QED
      BY <2>1, <2>2, <3>9, <3>11 DEF IndexRest
  <2> QED
    BY <2>3, <2>4
<1> QED
  BY <1>2, <1>3, <1>4

\* The index is built.
LEMMA BuildDoneIndex == ASSUME IndexInv, BuildDone PROVE IndexRest'
<1>1. /\ UNCHANGED <<pages, index, stmt, before, indexFaults>> /\ pc = "build" /\ pc' = "ready"
      /\ pid > Len(pages)
  BY DEF BuildDone, history
<1>2. BuildLoop' /\ BuiltSoFar' /\ OnlySet' /\ LookupRight'
  BY <1>1 DEF BuildLoop, BuiltSoFar, OnlySet, LookupRight, LookedUp
<1>3. EntriesHold'
  BY <1>1 DEF EntriesHold, IndexInv, IndexRest
<1>4. PassedIn(pages, pid, slot) = KeysOf(pages)
  BY <1>1, BuildPlace, PassedAre
<1>5. Mirrored'
  BY <1>1, <1>4 DEF Mirrored, BuiltSoFar, IndexInv, IndexRest, Rows
<1> QED
  BY <1>2, <1>3, <1>5 DEF IndexRest

-----------------------------------------------------------------------------
\* What an index lookup of key answers.
Answers(key) == LET hits == IF index = NoIndex THEN {} ELSE INDEX_search(index, key)
                IN \/ answer' = hits \cap LiveAt /\ UNCHANGED faults
                   \/ hits # {} /\ answer' = {} /\ Fault

\* The lookup finds rows of its key, and with a sound index the row.
LEMMA AnswerIs ==
  ASSUME IndexInv, pc = "ready", NEW key \in Int, ~Unreachable(index, key), Answers(key),
         faults' = faults \/ skipped' = 1..Len(pages)
  PROVE  /\ "key" \notin indexFaults => answer' \subseteq LiveKeys(key)
         /\ indexFaults = {} /\ skipped' = {} /\ Unique(pages) => answer' = LiveKeys(key)
<1>1. Typing /\ pages = before /\ LiveAt = KeysOf(pages)
  <2>1. Typing /\ pages = before
    BY DEF IndexInv, WholeInv, Stage
  <2> QED
    BY <2>1, LiveRows
<1>2. PICK hits : /\ hits = IF index = NoIndex THEN {} ELSE INDEX_search(index, key)
                  /\ \/ answer' = hits \cap LiveAt /\ UNCHANGED faults
                     \/ answer' = {} /\ Fault
  BY DEF Answers
<1>3. answer' \subseteq hits
  BY <1>2
<1>4. ASSUME "key" \notin indexFaults, NEW l \in hits PROVE l \in LiveKeys(key)
  <2>1. index # NoIndex /\ l \in INDEX_search(index, key)
    BY <1>2, <1>4
  <2>2. Holds(index, Rows(pages))
    BY <1>4, <2>1 DEF EntriesHold, IndexInv, IndexRest
  <2>3. find_leaf(index, key) # NULL
    BY <2>1 DEF Unreachable
  <2>4. <<key, l>> \in Rows(pages)
    BY <1>1, <2>1, <2>2, <2>3, IndexFound
  <2> QED
    BY <1>1, <2>4, LiveKeysAre
<1>5. ASSUME indexFaults = {}, skipped' = {}, Unique(pages) PROVE answer' = LiveKeys(key)
  <2>1. Indexes(index, Rows(pages))
    BY <1>1, <1>5 DEF Mirrored, IndexInv, IndexRest, Serving
  <2>2. hits = INDEX_search(index, key)
    BY <1>1, <1>2, <2>1, Reachable
  <2>3. ASSUME NEW l PROVE l \in hits <=> l \in LiveKeys(key)
    BY <1>1, <2>1, <2>2, IndexSearched, LiveKeysAre
  <2>4. LiveKeys(key) \subseteq LiveAt
    BY DEF LiveKeys
  <2>5. CASE answer' = hits \cap LiveAt
    BY <2>3, <2>4, <2>5
  <2>6. CASE answer' = {} /\ Fault
    <3>1. faults' # faults
      <4>1. faults \in Nat /\ faults' = faults + 1
        BY <1>1, <2>6 DEF Typing, FaultsFit, Fault
      <4> QED
        BY <4>1
    <3>2. 1..Len(pages) = {} /\ LiveAt = {}
      <4>1. 1..Len(pages) = {}
        BY <1>5, <3>1
      <4> QED
        BY <1>1, <4>1 DEF KeysOf
    <3> QED
      BY <2>4, <2>6, <3>2
  <2> QED
    BY <1>2, <2>5, <2>6
<1> QED
  BY <1>3, <1>4, <1>5

\* A lookup keeps the index, and its answer is right.
LEMMA LookupIndex == ASSUME IndexInv, IndexLookup PROVE IndexRest'
<1>1. /\ UNCHANGED <<pages, index, before, indexFaults>> /\ pc = "ready" /\ pc' \in {"done", "crashed"}
      /\ faults' = faults \/ skipped' = 1..Len(pages)
  BY DEF IndexLookup
<1>2. CASE pc' = "crashed"
  BY <1>2, IndexOutside
<1>3. CASE pc' = "done"
  <2>1. BuildLoop' /\ EntriesHold' /\ BuiltSoFar' /\ OnlySet'
    BY <1>3 DEF BuildLoop, EntriesHold, BuiltSoFar, OnlySet
  <2>2. Mirrored'
    BY <1>1, <1>3 DEF Mirrored, Serving, IndexInv, IndexRest
  <2>3. PICK v \in Values : /\ stmt' = [op |-> "lookup", where |-> TRUE, set |-> v]
                            /\ ~Unreachable(index, atoi[v]) /\ Answers(atoi[v])
    <3>1. PICK v \in Values :
             /\ stmt' = [op |-> "lookup", where |-> TRUE, set |-> v]
             /\ IF Unreachable(index, atoi[v])
                THEN pc' = "crashed" /\ UNCHANGED <<answer, faults>>
                ELSE LET hits == IF index = NoIndex THEN {} ELSE INDEX_search(index, atoi[v])
                     IN /\ pc' = "done"
                        /\ \/ answer' = hits \cap LiveAt /\ UNCHANGED faults
                           \/ hits # {} /\ answer' = {} /\ Fault
      BY DEF IndexLookup
    <3>2. ~Unreachable(index, atoi[v])
      BY <1>3, <3>1
    <3>3. Answers(atoi[v])
      BY <3>1, <3>2 DEF Answers
    <3> QED
      BY <3>1, <3>2, <3>3
  <2>4. /\ "key" \notin indexFaults => answer' \subseteq LiveKeys(atoi[v])
        /\ indexFaults = {} /\ skipped' = {} /\ Unique(pages) => answer' = LiveKeys(atoi[v])
    <3>1. atoi[v] \in Int
      BY TableAssumption
    <3> QED
      BY <1>1, <2>3, <3>1, AnswerIs
  <2>5. Asked' = LiveKeys(atoi[v]) /\ Scanned(stmt.set)' = Scanned(v)
    <3>1. LiveAt' = LiveAt
      BY <1>1 DEF LiveAt, Live
    <3>2. stmt'.set = v
      BY <2>3
    <3> QED
      BY <1>1, <3>1, <3>2 DEF LiveKeys, Asked, Scanned
  <2>6. Scanned(v) \subseteq LiveKeys(atoi[v])
    BY DEF Scanned, LiveKeys, Key
  <2>7. LookupRight'
    <3>1. "key" \notin indexFaults' => answer' \subseteq Asked'
      BY <1>1, <2>4, <2>5
    <3>2. ASSUME indexFaults' = {}, skipped' = {}, Unique(pages') PROVE answer' = Asked'
      BY <1>1, <2>4, <2>5, <3>2
    <3>3. Scanned(stmt.set)' \subseteq Asked'
      BY <2>5, <2>6
    <3> QED
      BY <3>1, <3>2, <3>3 DEF LookupRight
  <2> QED
    BY <2>1, <2>2, <2>7 DEF IndexRest
<1> QED
  BY <1>1, <1>2, <1>3

\* So does a scan; and a change starts with the table it finds.
LEMMA StatementIndex == ASSUME IndexInv, Statement PROVE IndexRest'
<1>1. CASE IndexLookup
  BY <1>1, LookupIndex
<1>2. CASE FullScan \/ StartInsert \/ StartChange
  <2>1. /\ UNCHANGED <<pages, index, before, indexFaults>> /\ pc = "ready"
        /\ pc' \in {"done", "insert", "update", "delete"}
        /\ pc' = "done" => stmt'.op = "scan"
    <3>1. CASE FullScan
      BY <3>1 DEF FullScan
    <3>2. CASE StartInsert
      BY <3>2 DEF StartInsert, history
    <3>3. CASE StartChange
      BY <3>3 DEF StartChange, history
    <3> QED
      BY <1>2, <3>1, <3>2, <3>3
  <2>2. pages = before
    BY <2>1 DEF IndexInv, WholeInv, Stage
  <2>3. BuildLoop' /\ EntriesHold' /\ BuiltSoFar' /\ LookupRight'
    BY <2>1 DEF BuildLoop, EntriesHold, BuiltSoFar, LookupRight, LookedUp
  <2>4. Mirrored'
    BY <2>1 DEF Mirrored, Serving, IndexInv, IndexRest
  <2>5. ASSUME Unique(before) PROVE \A l, m \in KeysOf(pages) : RowKey(pages, l) = RowKey(pages, m) => l = m
    BY <2>2, <2>5, UniqueIs
  <2>6. OnlySet'
    BY <2>1, <2>2, <2>5 DEF OnlySet
  <2> QED
    BY <2>3, <2>4, <2>6 DEF IndexRest
<1> QED
  BY <1>1, <1>2 DEF Statement
-----------------------------------------------------------------------------
\* An INSERT that added a row has added its entry.
LEMMA GainStep ==
  ASSUME IndexInv, pc = "insert", pc' \in {"done", "crashed"}, UNCHANGED <<stmt, before>>,
         NEW k \in Int, NEW loc \in RowLocations, GainsRow(pages, pages', loc, k),
         AddEntry(index, k, loc, "done")
  PROVE  IndexRest'
<1>1. CASE pc' = "crashed"
  BY <1>1, IndexOutside
<1>2. CASE pc' = "done"
  <2>1. stmt.op = "insert"
    BY DEF IndexInv, WholeInv, Stage
  <2>2. BuildLoop' /\ EntriesHold' /\ BuiltSoFar' /\ OnlySet' /\ LookupRight'
    BY <1>2, <2>1 DEF BuildLoop, EntriesHold, BuiltSoFar, OnlySet, LookupRight, LookedUp
  <2>3. Mirrored'
    <3> SUFFICES ASSUME indexFaults' = {}, Unique(before), Unique(pages')
                 PROVE  Indexes(index', Rows(pages'))
      BY DEF Mirrored
    <3>1. indexFaults = {}
      BY EntryIs
    <3>2. Unique(pages)
      BY GainUnique
    <3>3. Indexes(index, Rows(pages))
      BY <3>1, <3>2 DEF Mirrored, Serving, IndexInv, IndexRest
    <3>4. index' = INDEX_insert(index, k, loc, 0, 0)
      BY <3>3, EntryClean
    <3> QED
      BY <3>3, <3>4, GainIndexed
  <2> QED
    BY <2>2, <2>3 DEF IndexRest
<1> QED
  BY <1>1, <1>2

\* INSERT.
LEMMA InsertIndex == ASSUME IndexInv, WholeInv', Insert PROVE IndexRest'
<1>1. /\ Typing /\ Typing' /\ pages \in Seq(Seq(Slots)) /\ Len(pages) \in Nat /\ pid \in Nat
      /\ pid \in 1..Len(pages) + 1
  BY DEF IndexInv, WholeInv, Typing, TableInv, Counters, LoopFits
<1>2. ASSUME pc = "insert" PROVE stmt.set \in Values /\ atoi[stmt.set] \in Int
  <2>1. stmt.set \in Values
    BY <1>1, <1>2 DEF Typing, TableInv, Counters
  <2> QED
    BY <2>1, TableAssumption
<1>3. CASE FullPage
  <2>1. UNCHANGED <<pages, index, pc, stmt, before, indexFaults>> /\ pc = "insert"
    BY <1>3 DEF FullPage, history
  <2>2. BuildLoop' /\ BuiltSoFar'
    BY <2>1 DEF BuildLoop, BuiltSoFar
  <2> QED
    BY <2>1, <2>2, SameIndex DEF IndexInv, IndexRest
<1>4. CASE InsertRow
  <2>1. /\ pc = "insert" /\ UNCHANGED <<stmt, before>> /\ pid <= Len(pages)
        /\ pages' = [pages EXCEPT ![pid] = Append(@, Row(stmt.set))]
        /\ AddEntry(index, atoi[stmt.set], <<pid, Len(pages[pid]) + 1>>, "done")
    BY <1>4 DEF InsertRow
  <2>2. pc' \in {"done", "crashed"}
    BY <2>1, EntryGoesOn
  <2>3. pid \in DOMAIN pages /\ pages[pid] \in Seq(Slots) /\ Len(pages[pid]) \in Nat
    BY <1>1, <2>1
  <2>4. PICK e \in Nat : e = Len(pages[pid]) + 1
    BY <2>3
  <2>5. <<pid, e>> \in RowLocations
    BY <1>1 DEF RowLocations
  <2>6. DOMAIN pages[pid] = 1..e - 1
    BY <2>3, <2>4
  <2>7. /\ DOMAIN pages' = DOMAIN pages /\ \A i \in DOMAIN pages \ {pid} : pages'[i] = pages[i]
        /\ pages'[pid] = Append(pages[pid], Row(stmt.set))
    BY <1>1, <2>1, <2>3
  <2>8. /\ DOMAIN pages'[pid] = 1..e /\ pages'[pid][e] = Row(stmt.set)
        /\ \A j \in DOMAIN pages[pid] : pages'[pid][j] = pages[pid][j]
    BY <2>3, <2>4, <2>7
  <2>9. GainsRow(pages, pages', <<pid, e>>, atoi[stmt.set])
    <3>1. e \notin DOMAIN pages[pid] /\ e \in DOMAIN pages'[pid] /\ pid \in DOMAIN pages'
          /\ 1..e - 1 \subseteq 1..e /\ \A j \in 1..e : j \in 1..e - 1 \/ j = e
      BY <2>3, <2>6, <2>7, <2>8
    <3>2. ASSUME NEW i \in DOMAIN pages
          PROVE  /\ i \in DOMAIN pages' /\ DOMAIN pages[i] \subseteq DOMAIN pages'[i]
                 /\ \A j \in DOMAIN pages[i] : pages'[i][j] = pages[i][j]
      BY <2>6, <2>7, <2>8, <3>1
    <3>3. ASSUME NEW i \in DOMAIN pages', NEW j \in DOMAIN pages'[i]
          PROVE  (i \in DOMAIN pages /\ j \in DOMAIN pages[i]) \/ (i = pid /\ j = e)
      BY <2>6, <2>7, <2>8, <3>1
    <3> QED
      BY <1>1, <1>2, <2>1, <2>8, <3>1, <3>2, <3>3, RowGained
  <2> QED
    BY <1>2, <2>1, <2>2, <2>4, <2>5, <2>9, GainStep
<1>5. CASE NewPage
  <2>1. /\ pc = "insert" /\ UNCHANGED <<stmt, before>> /\ pid > Len(pages)
        /\ \/ /\ pages' = Append(pages, <<Row(stmt.set)>>)
              /\ AddEntry(index, atoi[stmt.set], <<pid, 1>>, "done")
           \/ pc' = "done" /\ UNCHANGED <<pages, index, indexFaults>>
    BY <1>5 DEF NewPage
  <2>2. stmt.op = "insert"
    BY <2>1 DEF IndexInv, WholeInv, Stage
  <2>3. CASE pc' = "done" /\ UNCHANGED <<pages, index, indexFaults>>
    <3>1. BuildLoop' /\ EntriesHold' /\ BuiltSoFar' /\ OnlySet' /\ LookupRight'
      BY <2>1, <2>2, <2>3 DEF BuildLoop, EntriesHold, BuiltSoFar, OnlySet, LookupRight, LookedUp
    <3>2. Mirrored'
      BY <2>1, <2>3 DEF Mirrored, Serving, IndexInv, IndexRest
    <3> QED
      BY <3>1, <3>2 DEF IndexRest
  <2>4. CASE pages' = Append(pages, <<Row(stmt.set)>>) /\ AddEntry(index, atoi[stmt.set], <<pid, 1>>, "done")
    <3>1. pc' \in {"done", "crashed"} /\ pid = Len(pages) + 1 /\ <<pid, 1>> \in RowLocations
      BY <1>1, <2>1, <2>4, EntryGoesOn DEF RowLocations
    <3>2. PICK q : q = <<Row(stmt.set)>>
      OBVIOUS
    <3>3. DOMAIN q = {1} /\ q[1] = Row(stmt.set)
      BY <3>2
    <3>4. /\ pid \notin DOMAIN pages /\ DOMAIN pages' = DOMAIN pages \cup {pid} /\ pages'[pid] = q
          /\ \A i \in DOMAIN pages : pages'[i] = pages[i]
      <4>1. pages' = Append(pages, q) /\ q \in Seq(Slots)
        <5>1. Row(stmt.set) \in Slots
          BY <2>1, <1>1 DEF Typing, TableInv, Counters, Row, Slots
        <5> QED
          BY <2>4, <3>2, <5>1
      <4>2. /\ Len(pages') = Len(pages) + 1 /\ pages' \in Seq(Seq(Slots)) /\ pages'[Len(pages) + 1] = q
            /\ \A i \in 1..Len(pages) : pages'[i] = pages[i]
        BY <1>1, <4>1
      <4>3. DOMAIN pages = 1..Len(pages) /\ DOMAIN pages' = 1..Len(pages) + 1
        BY <1>1, <4>2
      <4>4. 1..Len(pages) + 1 = (1..Len(pages)) \cup {Len(pages) + 1} /\ Len(pages) + 1 \notin 1..Len(pages)
        BY <1>1
      <4> QED
        BY <3>1, <4>2, <4>3, <4>4
    <3>5. GainsRow(pages, pages', <<pid, 1>>, atoi[stmt.set])
      <4>1. ASSUME NEW i \in DOMAIN pages
            PROVE  /\ i \in DOMAIN pages' /\ DOMAIN pages[i] \subseteq DOMAIN pages'[i]
                   /\ \A j \in DOMAIN pages[i] : pages'[i][j] = pages[i][j]
        BY <3>4
      <4>2. ASSUME NEW i \in DOMAIN pages', NEW j \in DOMAIN pages'[i]
            PROVE  (i \in DOMAIN pages /\ j \in DOMAIN pages[i]) \/ (i = pid /\ j = 1)
        BY <3>3, <3>4
      <4>3. 1 \in DOMAIN pages'[pid] /\ pid \in DOMAIN pages' /\ pages'[pid][1] = Row(stmt.set)
        BY <3>3, <3>4
      <4> QED
        BY <1>1, <1>2, <2>1, <3>4, <4>1, <4>2, <4>3, RowGained
    <3> QED
      BY <1>2, <2>1, <2>4, <3>1, <3>5, GainStep
  <2> QED
    BY <2>1, <2>3, <2>4
<1> QED
  BY <1>3, <1>4, <1>5 DEF Insert
-----------------------------------------------------------------------------
\* Rows that are left are as different as they were.
LEMMA LoseOnly ==
  ASSUME NEW q, NEW r, NEW loc, LosesRow(q, r, loc), NEW l \in KeysOf(r), NEW m \in KeysOf(r),
         RowKey(r, l) = RowKey(r, m)
  PROVE  l \in KeysOf(q) /\ m \in KeysOf(q) /\ RowKey(q, l) = RowKey(q, m) /\ RowKey(q, l) = RowKey(r, l)
<1>1. /\ \A j : j \in KeysOf(r) <=> j \in KeysOf(q) /\ j # loc
      /\ \A j \in KeysOf(r) : RowKey(r, j) = RowKey(q, j)
  BY DEF LosesRow
<1> QED
  BY <1>1

\* A loop that only takes rows away keeps them different.
LEMMA OnlySetLoses ==
  ASSUME OnlySet, UNCHANGED <<stmt, before, pc>>, NEW loc, LosesRow(pages, pages', loc)
  PROVE  OnlySet'
<1>1. ASSUME Unique(before), pc = "delete" PROVE Unique(pages')
  <2>1. \A l, m \in KeysOf(pages) : RowKey(pages, l) = RowKey(pages, m) => l = m
    BY <1>1, UniqueIs DEF OnlySet
  <2>2. ASSUME NEW l \in KeysOf(pages'), NEW m \in KeysOf(pages'), RowKey(pages', l) = RowKey(pages', m)
        PROVE  l = m
    BY <2>1, <2>2, LoseOnly
  <2> QED
    BY <2>2, UniqueIs
<1>2. ASSUME Unique(before), pc = "update", NEW l \in KeysOf(pages'), NEW m \in KeysOf(pages'),
             RowKey(pages', l) = RowKey(pages', m)
      PROVE  l = m \/ (RowKey(pages', l) = atoi[stmt.set] /\ stmt.set \in Values)
  <2>1. /\ l \in KeysOf(pages) /\ m \in KeysOf(pages) /\ RowKey(pages, l) = RowKey(pages, m)
        /\ RowKey(pages, l) = RowKey(pages', l)
    BY <1>2, LoseOnly
  <2> QED
    BY <1>2, <2>1 DEF OnlySet
<1> QED
  BY <1>1, <1>2 DEF OnlySet

\* The loop of an UPDATE makes rows equal in the value it sets only.
LEMMA OnlySetMoves ==
  ASSUME OnlySet, UNCHANGED <<stmt, before, pc>>, pc = "update", stmt.set \in Values \cup {Other},
         NEW old, NEW new, NEW k, MovesRow(pages, pages', old, new, k),
         k = IF stmt.set = Other THEN RowKey(pages, old) ELSE atoi[stmt.set]
  PROVE  OnlySet'
<1>1. /\ old \in KeysOf(pages) /\ new \notin KeysOf(pages)
      /\ \A l : l \in KeysOf(pages') <=> (l \in KeysOf(pages) /\ l # old) \/ l = new
      /\ \A l \in KeysOf(pages) \ {old} : RowKey(pages', l) = RowKey(pages, l)
      /\ RowKey(pages', new) = k
  BY DEF MovesRow
<1>2. Other \notin Values
  BY ValuesAssumption
<1>3. ASSUME Unique(before), NEW l \in KeysOf(pages'), NEW m \in KeysOf(pages'), l # m,
             RowKey(pages', l) = RowKey(pages', m)
      PROVE  RowKey(pages', l) = atoi[stmt.set] /\ stmt.set \in Values
  <2>1. \A i, j \in KeysOf(pages) :
          RowKey(pages, i) = RowKey(pages, j) => i = j \/ (RowKey(pages, i) = atoi[stmt.set] /\ stmt.set \in Values)
    BY <1>3 DEF OnlySet
  <2>2. CASE l # new /\ m # new
    <3>1. l \in KeysOf(pages) \ {old} /\ m \in KeysOf(pages) \ {old}
      BY <1>1, <1>3, <2>2
    <3>2. RowKey(pages', l) = RowKey(pages, l) /\ RowKey(pages', m) = RowKey(pages, m)
      BY <1>1, <3>1
    <3> QED
      BY <1>3, <2>1, <3>1, <3>2
  <2>3. ASSUME NEW j \in KeysOf(pages'), j # new, RowKey(pages', j) = k
        PROVE  k = atoi[stmt.set] /\ stmt.set \in Values
    <3>1. j \in KeysOf(pages) \ {old} /\ RowKey(pages, j) = k
      BY <1>1, <2>3
    <3>2. stmt.set # Other
      <4> SUFFICES ASSUME stmt.set = Other PROVE FALSE
        OBVIOUS
      <4>1. RowKey(pages, j) = RowKey(pages, old)
        BY <3>1
      <4> QED
        BY <1>1, <1>2, <2>1, <3>1, <4>1
    <3> QED
      BY <3>2
  <2>4. CASE l = new \/ m = new
    BY <1>1, <1>3, <2>3, <2>4
  <2> QED
    BY <2>2, <2>4
<1> QED
  BY <1>3 DEF OnlySet

\* Before a row moved, two rows were not equal if no two are equal afterwards.
LEMMA MoveUnique ==
  ASSUME OnlySet, pc = "update", Unique(before), Unique(pages'),
         NEW old, NEW new, NEW k, MovesRow(pages, pages', old, new, k),
         k = IF stmt.set = Other THEN RowKey(pages, old) ELSE atoi[stmt.set]
  PROVE  Unique(pages)
<1>1. /\ old \in KeysOf(pages) /\ new \notin KeysOf(pages)
      /\ \A l : l \in KeysOf(pages') <=> (l \in KeysOf(pages) /\ l # old) \/ l = new
      /\ \A l \in KeysOf(pages) \ {old} : RowKey(pages', l) = RowKey(pages, l)
      /\ RowKey(pages', new) = k
  BY DEF MovesRow
<1>2. Other \notin Values
  BY ValuesAssumption
<1>3. \A i, j \in KeysOf(pages) :
        RowKey(pages, i) = RowKey(pages, j) => i = j \/ (RowKey(pages, i) = atoi[stmt.set] /\ stmt.set \in Values)
  BY DEF OnlySet
<1>4. \A i, j \in KeysOf(pages') : RowKey(pages', i) = RowKey(pages', j) => i = j
  BY UniqueIs
<1>5. ASSUME NEW j \in KeysOf(pages) \ {old} PROVE RowKey(pages, j) # RowKey(pages, old)
  <2> SUFFICES ASSUME RowKey(pages, j) = RowKey(pages, old) PROVE FALSE
    OBVIOUS
  <2>1. RowKey(pages, j) = atoi[stmt.set] /\ stmt.set \in Values
    BY <1>1, <1>3
  <2>2. k = atoi[stmt.set]
    BY <1>2, <2>1
  <2>3. j \in KeysOf(pages') /\ new \in KeysOf(pages') /\ j # new
    BY <1>1
  <2>4. RowKey(pages', j) = RowKey(pages', new)
    BY <1>1, <2>1, <2>2
  <2> QED
    BY <1>4, <2>3, <2>4
<1>6. ASSUME NEW l \in KeysOf(pages) \ {old}, NEW m \in KeysOf(pages) \ {old},
             RowKey(pages, l) = RowKey(pages, m)
      PROVE  l = m
  BY <1>1, <1>4, <1>6
<1>7. ASSUME NEW l \in KeysOf(pages), NEW m \in KeysOf(pages), RowKey(pages, l) = RowKey(pages, m)
      PROVE  l = m
  BY <1>5, <1>6, <1>7
<1> QED
  BY <1>7, UniqueIs
\* What the loops of a change leave to say of the index.
LEMMA ChangeRest ==
  ASSUME pc' \in {"update", "delete"}, Mirrored', OnlySet'
  PROVE  IndexRest'
BY DEF IndexRest, BuildLoop, EntriesHold, BuiltSoFar, LookupRight, LookedUp

\* The row a loop is at.
LEMMA RowAtSlot ==
  ASSUME Typing, pid \in DOMAIN pages, slot \in Live(pid), NEW key, key = Key(pages[pid][slot])
  PROVE  key = RowKey(pages, <<pid, slot>>) /\ key \in Int
<1>1. pages \in Seq(Seq(Slots)) /\ \A p \in DOMAIN pages : Len(pages[p]) <= PageSlots
  BY DEF Typing, TableInv, Counters, LengthsFit
<1>2. <<pid, slot>> \in KeysOf(pages)
  BY <1>1, PlaceRow DEF Live
<1>3. key = RowKey(pages, <<pid, slot>>)
  BY DEF RowKey
<1> QED
  BY <1>1, <1>2, <1>3, RowPlace

\* DELETE takes the entry away with the row.
LEMMA DeleteIndex == ASSUME IndexInv, WholeInv', DeleteRow PROVE IndexRest'
<1>1. /\ pc = "delete" /\ pc' \in {"delete", "crashed"} /\ UNCHANGED <<stmt, before>>
      /\ slot \in 1..limit /\ slot \in Live(pid)
  BY DEF DeleteRow, AtSlot
<1>2. Typing /\ Typing' /\ TableInv /\ OnlySet
  BY DEF IndexInv, WholeInv, Typing, IndexRest
<1>3. Emptied(0)
  BY <1>1, <1>2, RowEmptied DEF DeleteRow
<1>4. LosesRow(pages, pages', <<pid, slot>>)
  BY <1>1, <1>2, <1>3, EmptiedLoses
<1>5. CASE pc' = "crashed"
  BY <1>5, IndexOutside
<1>6. CASE pc' = "delete"
  <2>1. OnlySet'
    BY <1>1, <1>2, <1>4, <1>6, OnlySetLoses
  <2>2. PICK key : key = Key(pages[pid][slot])
    OBVIOUS
  <2>3. key = RowKey(pages, <<pid, slot>>) /\ key \in Int
    <3>1. pid \in DOMAIN pages
      BY <1>3 DEF Emptied
    <3> QED
      BY <1>1, <1>2, <2>2, <3>1, RowAtSlot
  <2>4. Mirrored'
    <3> SUFFICES ASSUME indexFaults' = {}, Unique(before) PROVE Indexes(index', Rows(pages'))
      BY <1>1 DEF Mirrored
    <3>1. index' = Without(index, key) /\ indexFaults = {}
      <4>1. PICK read : /\ IF read = key THEN NoFault ELSE IndexFault("key")
                        /\ index' = Without(index, read)
        BY <2>2 DEF DeleteRow
      <4>2. ~IndexFault("key")
        BY DEF IndexFault
      <4> QED
        BY <4>1, <4>2 DEF NoFault
    <3>2. Unique(pages)
      BY <1>1, <1>2 DEF OnlySet
    <3>3. Indexes(index, Rows(pages))
      BY <1>1, <3>1, <3>2 DEF Mirrored, Serving, IndexInv, IndexRest
    <3>4. index' = INDEX_delete(index, key)
      BY <2>3, <3>1, <3>3, Reachable DEF Without
    <3> QED
      BY <1>4, <2>3, <3>2, <3>3, <3>4, LoseIndexed
  <2> QED
    BY <1>6, <2>1, <2>4, ChangeRest
<1> QED
  BY <1>1, <1>5, <1>6

\* UPDATE takes the old entry away and adds the new one.
LEMMA UpdateIndex == ASSUME IndexInv, WholeInv', UpdateRow PROVE IndexRest'
<1>1. Typing /\ Typing' /\ TableInv /\ OnlySet
  BY DEF IndexInv, WholeInv, Typing, IndexRest
<1>2. /\ Emptied(1) /\ pages'[pid][Len(pages[pid]) + 1].updates = 1
      /\ pages'[pid][Len(pages[pid]) + 1] = Updated(pages[pid][slot])
      /\ pc = "update" /\ pc' \in {pc, "crashed"} /\ UNCHANGED <<pid, limit, stmt>>
  BY <1>1, RowMoved
<1>3. UNCHANGED before /\ slot \in Live(pid) /\ stmt.set # Unknown
  BY DEF UpdateRow
<1>4. PICK key : key = Key(pages[pid][slot])
  OBVIOUS
<1>5. PICK new : new = <<pid, Len(pages[pid]) + 1>>
  OBVIOUS
<1>6. PICK k : k = Key(Updated(pages[pid][slot]))
  OBVIOUS
<1>7. pid \in DOMAIN pages /\ pages \in Seq(Seq(Slots)) /\ pages[pid] \in Seq(Slots)
  BY <1>1, <1>2 DEF Emptied, TableInv, Counters
<1>8. key = RowKey(pages, <<pid, slot>>) /\ key \in Int
  BY <1>1, <1>3, <1>4, <1>7, RowAtSlot
<1>9. k = IF stmt.set = Other THEN RowKey(pages, <<pid, slot>>) ELSE atoi[stmt.set]
  BY <1>4, <1>6, <1>8 DEF Updated, Key
<1>10. MovesRow(pages, pages', <<pid, slot>>, new, k)
  <2>1. pages'[pid][Len(pages[pid]) + 1] # Dead
    BY <1>2, NewIsLive
  <2> QED
    BY <1>1, <1>2, <1>3, <1>5, <1>6, <2>1, MovedMoves
<1>11. new \in RowLocations /\ k \in Int /\ stmt.set \in Values \cup {Other}
  <2>1. pid \in Nat /\ Len(pages[pid]) + 1 \in Nat
    BY <1>7
  <2>2. stmt.set \in Values \cup {Other}
    BY <1>1, <1>2, <1>3 DEF UpdateRow, TableInv, Counters
  <2>3. k \in Int
    BY <1>8, <1>9, <2>2, TableAssumption
  <2> QED
    BY <1>5, <2>1, <2>2, <2>3 DEF RowLocations
<1>12. CASE pc' = "crashed"
  BY <1>12, IndexOutside
<1>13. CASE pc' = "update"
  <2>1. OnlySet'
    BY <1>1, <1>2, <1>3, <1>9, <1>10, <1>11, <1>13, OnlySetMoves
  <2>2. Mirrored'
    <3> SUFFICES ASSUME indexFaults' = {}, Unique(before), Unique(pages') PROVE Indexes(index', Rows(pages'))
      BY <1>3 DEF Mirrored
    <3>1. Unique(pages)
      BY <1>1, <1>2, <1>9, <1>10, MoveUnique
    <3>2. \/ Unreachable(index, key) /\ UNCHANGED indexFaults
          \/ AddEntry(Without(index, key), k, new, "update")
      <4>1. ReplaceEntry(key, k, new)
        BY <1>4, <1>5, <1>6 DEF UpdateRow
      <4>2. ~IndexFault("key")
        BY DEF IndexFault
      <4> QED
        BY <4>1, <4>2 DEF ReplaceEntry
    <3>3. indexFaults = {}
      BY <3>2, EntryIs
    <3>4. Indexes(index, Rows(pages))
      BY <1>2, <3>1, <3>3 DEF Mirrored, Serving, IndexInv, IndexRest
    <3>5. ~Unreachable(index, key) /\ Without(index, key) = INDEX_delete(index, key)
      BY <1>8, <3>4, Reachable DEF Without
    <3>6. PICK v : v = INDEX_delete(index, key)
      OBVIOUS
    <3>7. AddEntry(v, k, new, "update")
      BY <3>2, <3>5, <3>6
    <3>8. PICK u : u = INDEX_insert(v, k, new, 0, 0)
      OBVIOUS
    <3>9. Indexes(u, Rows(pages')) /\ \E E : Indexes(v, E)
      BY <1>8, <1>10, <1>11, <3>1, <3>4, <3>6, <3>8, MoveIndexed
    <3>10. index' = u
      BY <1>11, <3>7, <3>8, <3>9, EntryClean
    <3> QED
      BY <3>9, <3>10
  <2> QED
    BY <1>13, <2>1, <2>2, ChangeRest
<1> QED
  BY <1>2, <1>12, <1>13

\* UPDATE and DELETE.
LEMMA ChangeIndex == ASSUME IndexInv, WholeInv', Change PROVE IndexRest'
<1>1. CASE PassRow
  <2>1. UNCHANGED <<pages, index, pc, stmt, before, indexFaults>> /\ pc \in {"update", "delete"}
    BY <1>1 DEF PassRow, AtSlot, PassSlot
  <2>2. Mirrored' /\ OnlySet'
    BY <2>1, SameIndex DEF IndexInv
  <2> QED
    BY <2>1, <2>2, ChangeRest
<1>2. CASE DeleteRow
  BY <1>2, DeleteIndex
<1>3. CASE UpdateRow
  BY <1>3, UpdateIndex
<1>4. CASE UpdateNoRoom
  <2>1. /\ pc = "update" /\ pc' = pc /\ UNCHANGED <<stmt, before>> /\ indexFaults' # {}
        /\ slot \in 1..limit /\ slot \in Live(pid)
    BY <1>4 DEF UpdateNoRoom, AtSlot
  <2>2. Typing /\ Typing' /\ TableInv /\ OnlySet
    BY DEF IndexInv, WholeInv, Typing, IndexRest
  <2>3. Emptied(0)
    BY <1>4, <2>1, <2>2, RowEmptied DEF UpdateNoRoom
  <2>4. LosesRow(pages, pages', <<pid, slot>>)
    BY <2>1, <2>2, <2>3, EmptiedLoses
  <2>5. OnlySet'
    BY <2>1, <2>2, <2>4, OnlySetLoses
  <2>6. Mirrored'
    BY <2>1 DEF Mirrored
  <2> QED
    BY <2>1, <2>5, <2>6, ChangeRest
<1>5. CASE ChangeDone
  <2>1. UNCHANGED <<pages, index, stmt, before, indexFaults>> /\ pc \in {"update", "delete"} /\ pc' = "done"
    BY <1>5 DEF ChangeDone, history
  <2>2. stmt.op = pc
    BY <2>1 DEF IndexInv, WholeInv, Stage
  <2>3. BuildLoop' /\ EntriesHold' /\ BuiltSoFar' /\ OnlySet' /\ LookupRight'
    BY <2>1, <2>2 DEF BuildLoop, EntriesHold, BuiltSoFar, OnlySet, LookupRight, LookedUp
  <2>4. Mirrored'
    BY <2>1 DEF Mirrored, Serving, IndexInv, IndexRest
  <2> QED
    BY <2>3, <2>4 DEF IndexRest
<1> QED
  BY <1>1, <1>2, <1>3, <1>4, <1>5 DEF Change

\* A step that changes nothing.
LEMMA IdleIndex == ASSUME IndexInv, UNCHANGED vars PROVE IndexRest'
<1>1. UNCHANGED <<pages, index, pc, stmt, pid, slot, limit, answer, before, skipped, indexFaults>>
  BY DEF vars, loop, history
<1>2. BuildLoop' /\ EntriesHold' /\ BuiltSoFar' /\ Mirrored' /\ OnlySet'
  BY <1>1 DEF BuildLoop, EntriesHold, BuiltSoFar, Mirrored, OnlySet, IndexInv, IndexRest
<1>3. LookupRight'
  BY <1>1 DEF LookupRight, LookedUp, Asked, Scanned, LiveKeys, LiveAt, Live, IndexInv, IndexRest
<1> QED
  BY <1>2, <1>3 DEF IndexRest

\* The table is closed, and has no index, when it is first looked at.
LEMMA IndexInit == Init => IndexInv
<1> SUFFICES ASSUME Init PROVE IndexInv
  OBVIOUS
<1>1. pc = "closed"
  BY DEF Init
<1>2. IndexRest
  BY <1>1 DEF IndexRest, BuildLoop, EntriesHold, BuiltSoFar, Mirrored, OnlySet, LookupRight, LookedUp, Serving
<1> QED
  BY <1>2, WholeInit DEF IndexInv

\* Every step keeps the invariant.
LEMMA IndexStep == IndexInv /\ [Next]_vars => IndexInv'
<1> SUFFICES ASSUME IndexInv, [Next]_vars PROVE IndexInv'
  OBVIOUS
<1>1. WholeInv'
  BY WholeStep DEF IndexInv
<1>2. IndexRest'
  <2>1. CASE table_open
    BY <1>1, <2>1, OpenIndex
  <2>2. CASE Build
    BY <2>2, PageIndex, BuildRowIndex, BuildDoneIndex DEF Build
  <2>3. CASE Statement
    BY <2>3, StatementIndex
  <2>4. CASE Insert
    BY <1>1, <2>4, InsertIndex
  <2>5. CASE Change
    BY <1>1, <2>5, ChangeIndex
  <2>6. CASE table_close
    <3>1. pc' = "closed"
      BY <2>6 DEF table_close
    <3> QED
      BY <3>1, IndexOutside
  <2>7. CASE UNCHANGED vars
    BY <2>7, IdleIndex
  <2> QED
    BY <2>1, <2>2, <2>3, <2>4, <2>5, <2>6, <2>7 DEF Next, Progress, Stopped
<1> QED
  BY <1>1, <1>2 DEF IndexInv

(* table_scan (table.c) prints the row at the location INDEX_search gives it     *)
(* without comparing texts.  Whatever the type of the column, for every order   *)
(* of the index, every table and all failed allocations, that row has the       *)
(* number of the text asked for, unless a row was misread; where nothing failed  *)
(* and no two rows have one number it is the row of that number, and what a     *)
(* scan would print if that row has the text itself.                            *)
THEOREM LookupAnswers == Spec => []LookupRight
<1>1. IndexInv => LookupRight
  BY DEF IndexInv, IndexRest
<1> QED
  BY <1>1, IndexInit, IndexStep, PTL DEF Spec

(* INSERT, UPDATE and DELETE keep the index in step with the rows, between any  *)
(* two rows of a loop as well: every number is answered with the place of its   *)
(* live row, for columns of any type, tables, statements and trees of any size. *)
THEOREM IndexKept == Spec => []IndexMaintained
<1>1. IndexInv => IndexMaintained
  <2> SUFFICES ASSUME IndexInv, pc \in {"ready", "done", "update", "delete"}, indexFaults = {},
                      Unique(before), Unique(pages), NEW v \in Values, NEW k, k = atoi[v]
               PROVE  INDEX_search(index, k) = LiveKeys(k)
    BY DEF IndexMaintained
  <2>1. Indexes(index, Rows(pages))
    BY DEF Mirrored, Serving, IndexInv, IndexRest
  <2>2. Typing /\ k \in Int
    BY TableAssumption DEF IndexInv, WholeInv
  <2>3. ASSUME NEW l PROVE l \in INDEX_search(index, k) <=> l \in LiveKeys(k)
    BY <2>1, <2>2, IndexSearched, LiveKeysAre
  <2> QED
    BY <2>3
<1> QED
  BY <1>1, IndexInit, IndexStep, PTL DEF Spec
=============================================================================
