------------------------------ MODULE ReplProofs ------------------------------
(***************************************************************************)
(* The shell, for every script, buffer size and number of signals: what a     *)
(* signal may cost (InterruptTakesOne), and that nothing outgrows its buffer   *)
(* (ReplTypeOK).                                                            *)
(***************************************************************************)
EXTENDS Repl, WellFoundedInduction, SequenceTheorems, TLAPS

(* The strengthening: a signal whose flag is still set has cost nothing yet.  *)
Pending == IF g_interrupted THEN 1 ELSE 0
SignalsPaid == /\ g_interrupted \in BOOLEAN /\ signals \in Nat /\ dropped \in Nat
               /\ dropped + Pending <= signals

\* The flag and what it is worth.
LEMMA PendingIs ==
  /\ g_interrupted = TRUE => Pending = 1
  /\ g_interrupted = FALSE => Pending = 0
  /\ g_interrupted' = TRUE => Pending' = 1
  /\ g_interrupted' = FALSE => Pending' = 0
  /\ TRUE \in BOOLEAN /\ FALSE \in BOOLEAN
<1>1. g_interrupted = TRUE => Pending = 1
  BY Zenon DEF Pending
<1>2. g_interrupted = FALSE => Pending = 0
  BY Zenon DEF Pending
<1>3. g_interrupted' = TRUE => Pending' = 1
  BY Zenon DEF Pending
<1>4. g_interrupted' = FALSE => Pending' = 0
  BY Zenon DEF Pending
<1> QED
  BY <1>1, <1>2, <1>3, <1>4, Zenon

\* A step that neither signals nor looks at the flag.
LEMMA PaidKept ==
  ASSUME SignalsPaid, g_interrupted' = g_interrupted, signals' = signals, dropped' = dropped
  PROVE  SignalsPaid'
<1>1. g_interrupted = TRUE \/ g_interrupted = FALSE
  BY Zenon DEF SignalsPaid
<1>2. Pending' = Pending
  BY <1>1, PendingIs, Zenon
<1> QED
  BY <1>2, Zenon DEF SignalsPaid

\* The shell's side: only Interrupted throws a piece away, and clears the flag.
LEMMA ShellPays == ASSUME SignalsPaid, repl_run PROVE SignalsPaid'
<1>1. signals \in Nat /\ dropped \in Nat /\ Pending \in {0, 1} /\ dropped + Pending <= signals
  BY PendingIs DEF SignalsPaid
<1>2. CASE Interrupted
  <2>1. g_interrupted = TRUE /\ g_interrupted' = FALSE /\ dropped' = dropped + 1 /\ signals' = signals
    BY <1>2, Zenon DEF Interrupted, Read, SignalsPaid
  <2>2. Pending = 1 /\ Pending' = 0 /\ g_interrupted' \in BOOLEAN
    BY <2>1, PendingIs, Zenon
  <2>3. signals' \in Nat /\ dropped' \in Nat /\ dropped' + Pending' <= signals'
    BY <1>1, <2>1, <2>2
  <2> QED
    BY <2>2, <2>3, Zenon DEF SignalsPaid
<1>3. CASE EndOfInput
  <2>1. g_interrupted' = FALSE /\ signals' = signals /\ dropped' = dropped
    BY <1>3, Zenon DEF EndOfInput
  <2>2. Pending' = 0 /\ g_interrupted' \in BOOLEAN
    BY <2>1, PendingIs, Zenon
  <2>3. signals' \in Nat /\ dropped' \in Nat /\ dropped' + Pending' <= signals'
    BY <1>1, <2>1, <2>2
  <2> QED
    BY <2>2, <2>3, Zenon DEF SignalsPaid
<1>4. CASE EmptyLine \/ MetaLine \/ AppendLine \/ dispatch_sql \/ dispatch_other \/ parse \/ handle_sql
  <2>1. g_interrupted' = g_interrupted /\ signals' = signals /\ dropped' = dropped
    BY <1>4, Zenon DEF EmptyLine, MetaLine, AppendLine, Read, dispatch_sql, dispatch_other, parse, handle_sql
  <2> QED
    BY <2>1, PaidKept, Zenon
<1> QED
  BY <1>2, <1>3, <1>4 DEF repl_run

\* The invariant is inductive.
LEMMA PaidInductive == SignalsPaid /\ [Next]_vars => SignalsPaid'
<1> SUFFICES ASSUME SignalsPaid, [Next]_vars PROVE SignalsPaid'
  OBVIOUS
<1>1. CASE UserTypes \/ UserCloses \/ Ended \/ UNCHANGED vars
  <2>1. g_interrupted' = g_interrupted /\ signals' = signals /\ dropped' = dropped
    BY <1>1, Zenon DEF UserTypes, UserCloses, Ended, vars
  <2> QED
    BY <2>1, PaidKept, Zenon
<1>2. CASE handle_sigint
  <2>1. signals' = signals + 1 /\ g_interrupted' = TRUE /\ dropped' = dropped
    BY <1>2, Zenon DEF handle_sigint
  <2>2. Pending \in {0, 1} /\ Pending' = 1 /\ g_interrupted' \in BOOLEAN
    BY <2>1, PendingIs DEF SignalsPaid
  <2>3. signals' \in Nat /\ dropped' \in Nat /\ dropped' + Pending' <= signals'
    BY <2>1, <2>2 DEF SignalsPaid
  <2> QED
    BY <2>2, <2>3, Zenon DEF SignalsPaid
<1>3. CASE repl_run
  BY <1>3, ShellPays
<1> QED
  BY <1>1, <1>2, <1>3 DEF Next

(* handle_sigint (reph.c) only sets the flag, and repl_run looks at it when a   *)
(* read has returned: however many signals arrive between two reads, and        *)
(* whatever is typed, they cost one piece of input at most, and never more       *)
(* pieces than there were signals.                                             *)
THEOREM OnePiecePerSignal == Spec => []InterruptTakesOne
<1>1. ASSUME Init PROVE SignalsPaid
  <2>1. g_interrupted = FALSE /\ signals = 0 /\ dropped = 0
    BY <1>1, Zenon DEF Init
  <2>2. Pending = 0 /\ g_interrupted \in BOOLEAN
    BY <2>1, PendingIs, Zenon
  <2> QED
    BY <2>1, <2>2 DEF SignalsPaid
<1>2. SignalsPaid => InterruptTakesOne
  BY DEF SignalsPaid, Pending, InterruptTakesOne
<1> QED
  BY <1>1, <1>2, PaidInductive, PTL DEF Spec
-----------------------------------------------------------------------------
(* The buffers.  Induction over a text takes the first place at which a claim *)
(* would fail.                                                              *)

\* A set of naturals that is not empty has a least member.
LEMMA Least ==
  ASSUME NEW T, T \subseteq Nat, T # {}
  PROVE  \E m \in T : \A k \in T : m <= k
<1> DEFINE R == OpToRel(<, Nat)
<1>1. IsWellFoundedOn(R, Nat)
  BY NatLessThanWellFounded, Zenon
<1>2. \A k, m \in Nat : k < m => <<k, m>> \in R
  BY Zenon DEF OpToRel
<1> HIDE DEF R
<1>3. \E m \in T : \A k \in T : ~(<<k, m>> \in R)
  BY <1>1, WFMin, Zenon
<1>4. PICK m \in T : \A k \in T : ~(k < m)
  BY <1>2, <1>3, Zenon
<1> QED
  BY <1>4

\* The turns of the loop of Without.
Turn(F, text, out, n) == IF n = 0 THEN <<>>
                         ELSE IF text[n] \in out THEN F[n - 1]
                         ELSE Append(F[n - 1], text[n])

\* There is such a loop for every text.
LEMMA LoopExists ==
  ASSUME NEW S, NEW text \in Seq(S), NEW out
  PROVE  \E F : F = [n \in 0..Len(text) |-> Turn(F, text, out, n)]
<1> DEFINE Runs(k, F) == F = [n \in 0..k |-> Turn(F, text, out, n)]
           T == {k \in Nat : k <= Len(text) /\ ~\E F : Runs(k, F)}
<1>1. SUFFICES ASSUME T # {} PROVE FALSE
  <2>1. Len(text) \in Nat
    OBVIOUS
  <2> QED
    BY <1>1, <2>1
<1>2. PICK m \in T : \A k \in T : m <= k
  BY <1>1, Least
<1>3. m \in Nat /\ m <= Len(text) /\ Len(text) \in Nat /\ \A F : ~Runs(m, F)
  BY <1>2
<1>4. CASE m = 0
  <2>1. Runs(0, [n \in 0..0 |-> <<>>])
    BY DEF Turn
  <2> QED
    BY <1>3, <1>4, <2>1
<1>5. CASE m > 0
  <2>1. m - 1 \in Nat /\ m - 1 <= Len(text) /\ m - 1 \notin T
    BY <1>2, <1>3, <1>5
  <2>2. PICK F : Runs(m - 1, F)
    BY <2>1
  <2> DEFINE G == [n \in 0..m |-> IF n = m THEN Turn(F, text, out, m) ELSE F[n]]
  <2>3. \A n \in 0..m - 1 : G[n] = F[n] /\ F[n] = Turn(F, text, out, n)
    <3>1. \A n \in 0..m - 1 : n \in 0..m /\ n # m
      BY <1>3
    <3>2. \A n \in 0..m - 1 : F[n] = Turn(F, text, out, n)
      BY <2>2
    <3> QED
      BY <3>1, <3>2
  <2>4. \A n \in 0..m : n # 0 => n - 1 \in 0..m - 1
    BY <1>3
  <2>5. \A n \in 0..m : Turn(G, text, out, n) = Turn(F, text, out, n)
    <3> HIDE DEF G
    <3> QED
      BY <2>3, <2>4 DEF Turn
  <2>6. ASSUME NEW n \in 0..m PROVE G[n] = Turn(F, text, out, n)
    <3>1. n = m \/ n \in 0..m - 1
      BY <1>3, <1>5
    <3>2. G[m] = Turn(F, text, out, m)
      BY <1>3
    <3> HIDE DEF G
    <3> QED
      BY <2>3, <3>1, <3>2
  <2>7. Runs(m, G)
    <3>1. DOMAIN G = 0..m /\ G = [n \in 0..m |-> G[n]]
      OBVIOUS
    <3> HIDE DEF G
    <3> QED
      BY <2>5, <2>6, <3>1
  <2> QED
    BY <1>3, <2>7
<1> QED
  BY <1>3, <1>4, <1>5

\* What the loop keeps is made of what the text is made of.
LEMMA LoopSeq ==
  ASSUME NEW S, NEW text \in Seq(S), NEW out, NEW kept,
         \A n \in 0..Len(text) : kept[n] = Turn(kept, text, out, n)
  PROVE  kept[Len(text)] \in Seq(S)
<1> DEFINE T == {k \in Nat : k <= Len(text) /\ kept[k] \notin Seq(S)}
<1>3. ASSUME T # {} PROVE FALSE
  <2>1. PICK m \in T : \A k \in T : m <= k
    BY <1>3, Least
  <2>2. m \in 0..Len(text) /\ kept[m] \notin Seq(S) /\ Len(text) \in Nat
    BY <2>1
  <2>3. kept[m] = Turn(kept, text, out, m)
    BY <2>2
  <2>4. m # 0
    BY <2>2, <2>3 DEF Turn
  <2>5. m - 1 \in Nat /\ m - 1 <= Len(text) /\ m - 1 \notin T
    BY <2>1, <2>2, <2>4
  <2>6. kept[m - 1] \in Seq(S) /\ text[m] \in S
    BY <2>2, <2>4, <2>5
  <2> HIDE DEF T
  <2> QED
    BY <2>2, <2>3, <2>4, <2>6 DEF Turn
<1>4. Len(text) \in Nat /\ Len(text) \notin T
  BY <1>3
<1> QED
  BY <1>4

\* What is left of a text is made of its lexemes.
LEMMA WithoutSeq ==
  ASSUME NEW text \in Seq(Lexemes), NEW out
  PROVE  Without(out)[text] \in Seq(Lexemes)
<1> DEFINE kept == CHOOSE F : F = [n \in 0..Len(text) |-> Turn(F, text, out, n)]
<1>1. Without(out)[text] = kept[Len(text)]
  BY DEF Without, Turn
<1>2. kept = [n \in 0..Len(text) |-> Turn(kept, text, out, n)]
  BY LoopExists
<1> HIDE DEF kept
<1>3. \A n \in 0..Len(text) : kept[n] = Turn(kept, text, out, n)
  BY <1>2
<1>4. kept[Len(text)] \in Seq(Lexemes)
  BY <1>3, LoopSeq
<1> QED
  BY <1>1, <1>4

\* What fits a buffer.
LEMMA UpToFits ==
  ASSUME NEW S, NEW list \in Seq(S), NEW max \in Nat
  PROVE  /\ UpTo(list, max) \in Seq(S) /\ Len(UpTo(list, max)) <= max
         /\ Len(UpTo(list, max)) <= Len(list)
         /\ (list # <<>> /\ max > 0) => Len(UpTo(list, max)) > 0
<1> DEFINE n == IF Len(list) < max THEN Len(list) ELSE max
<1>1. n \in Nat /\ n <= Len(list) /\ n <= max /\ Len(list) \in Nat
  OBVIOUS
<1>2. UpTo(list, max) = SubSeq(list, 1, n)
  BY DEF UpTo
<1>3. list # <<>> => Len(list) > 0
  OBVIOUS
<1>4. (list # <<>> /\ max > 0) => n > 0
  BY <1>3
<1> HIDE DEF n
<1>5. SubSeq(list, 1, n) \in Seq(S) /\ Len(SubSeq(list, 1, n)) = n
  BY <1>1
<1> QED
  BY <1>1, <1>2, <1>4, <1>5
-----------------------------------------------------------------------------
\* The invariant: what ReplTypeOK says, with the types its bounds rest on.
Types  == {"UNKNOWN", "BEGIN", "COMMIT", "USE", "SELECT", "INSERT", "UPDATE", "DELETE",
           "CREATE DATABASE", "CREATE TABLE", "DROP TABLE"}
Column == Lexemes \cup (Lexemes \X Lexemes)
IntentRecord == [type : Types, name : Lexemes \cup {None}, columns : Seq(Column), values : Seq(Lexemes),
                 set : Seq(Lexemes \cup {None}), where : Seq(Lexemes)]
IntentFits == /\ intent \in IntentRecord
              /\ Len(intent.values) <= MAX_VALUES /\ Len(intent.columns) <= MAX_COLUMNS

ParserFits == /\ tokens \in Seq(Lexemes) /\ Len(tokens) <= MAX_TOKENS
              /\ at # "off" => Len(tokens) > 0
              /\ pos \in Nat \ {0} /\ IntentFits

InputFits == /\ script \in Scripts /\ tty \in BOOLEAN /\ eof \in BOOLEAN /\ g_interrupted \in BOOLEAN
             /\ taken \in Nat /\ fetched \in Nat /\ typed \in Nat
             /\ taken <= fetched /\ fetched <= typed /\ typed <= Len(script)
             /\ rest \in Seq(Lexemes) /\ signals \in 0..MaxSignals

QueryFits == /\ query \in Seq(Lexemes) /\ Len(query) <= QuerySize
             /\ pc \in PC /\ (pc = "sql" <=> at # "off")

BuffersInv == InputFits /\ QueryFits /\ ParserFits

\* A cleared intent fits.
LEMMA EmptyFits ==
  /\ NoIntent \in IntentRecord
  /\ Len(NoIntent.values) <= MAX_VALUES /\ Len(NoIntent.columns) <= MAX_COLUMNS
<1>1. NoIntent.values = <<>> /\ NoIntent.columns = <<>>
  BY DEF NoIntent
<1>2. <<>> \in Seq(Lexemes) /\ <<>> \in Seq(Column) /\ <<>> \in Seq(Lexemes \cup {None})
  OBVIOUS
<1>3. NoIntent \in IntentRecord
  BY <1>2 DEF NoIntent, IntentRecord, Types
<1>4. Len(<<>>) = 0 /\ MAX_VALUES \in Nat /\ MAX_COLUMNS \in Nat
  BY ParserAssumption
<1> QED
  BY <1>1, <1>3, <1>4

\* The parser never looks behind the tokens there are.
LEMMA AheadIs ==
  ASSUME ParserFits, at # "off", NEW n \in Nat
  PROVE  Ahead(n) \in Lexemes /\ Moved(n) \in Nat \ {0}
<1>1. Len(tokens) \in Nat \ {0} /\ pos + n \in Nat \ {0} /\ tokens \in Seq(Lexemes)
  BY DEF ParserFits
<1> DEFINE i == IF pos + n <= Len(tokens) THEN pos + n ELSE Len(tokens)
<1>2. i \in 1..Len(tokens) /\ Ahead(n) = tokens[i]
  BY <1>1 DEF Ahead
<1>3. Moved(n) \in Nat \ {0}
  BY <1>1 DEF Moved
<1> HIDE DEF i
<1> QED
  BY <1>1, <1>2, <1>3

\* A step of the parser within its list of tokens.
LEMMA StepFits ==
  ASSUME ParserFits, at # "off", UNCHANGED tokens, at' # "off", pos' \in Nat \ {0}, IntentFits'
  PROVE  ParserFits' /\ at' # "off"
BY DEF ParserFits

\* Fail, and the steps that return an intent that fits.
LEMMA FinishFits ==
  ASSUME ParserFits, at # "off", NEW r \in {"ok", "error"}, Finish(r), IntentFits'
  PROVE  ParserFits' /\ at' # "off"
<1>1. UNCHANGED <<tokens, pos>> /\ at' # "off"
  BY DEF Finish
<1> QED
  BY <1>1 DEF ParserFits

\* A syntax error ends the parser with the intent it has.
LEMMA FailFits == ASSUME ParserFits, at # "off", Fail PROVE ParserFits' /\ at' # "off"
<1>1. Finish("error") /\ IntentFits'
  BY DEF Fail, ParserFits, IntentFits
<1> QED
  BY <1>1, FinishFits

\* A value or a column more than there is room for is not kept.
LEMMA AppendFits ==
  ASSUME ParserFits, NEW x \in Lexemes, NEW c \in Column
  PROVE  /\ intent' = (IF Len(intent.values) < MAX_VALUES
                       THEN [intent EXCEPT !.values = Append(@, x)] ELSE intent) => IntentFits'
         /\ intent' = (IF Len(intent.columns) < MAX_COLUMNS
                       THEN [intent EXCEPT !.columns = Append(@, c)] ELSE intent) => IntentFits'
<1>1. IntentFits /\ intent \in IntentRecord /\ intent.values \in Seq(Lexemes) /\ intent.columns \in Seq(Column)
  BY DEF ParserFits, IntentFits, IntentRecord
<1>2. MAX_VALUES \in Nat /\ MAX_COLUMNS \in Nat
  BY ParserAssumption
<1>3. Append(intent.values, x) \in Seq(Lexemes) /\ Len(Append(intent.values, x)) = Len(intent.values) + 1
  BY <1>1
<1>4. Append(intent.columns, c) \in Seq(Column) /\ Len(Append(intent.columns, c)) = Len(intent.columns) + 1
  BY <1>1
<1>5. Len(intent.values) \in Nat /\ Len(intent.columns) \in Nat
  BY <1>1
<1>6. ASSUME intent' = [intent EXCEPT !.values = Append(@, x)], Len(intent.values) < MAX_VALUES
      PROVE  IntentFits'
  <2>1. intent' \in IntentRecord /\ intent'.values = Append(intent.values, x) /\ intent'.columns = intent.columns
    BY <1>1, <1>3, <1>6 DEF IntentRecord
  <2> QED
    BY <1>1, <1>2, <1>3, <1>5, <1>6, <2>1 DEF IntentFits
<1>7. ASSUME intent' = [intent EXCEPT !.columns = Append(@, c)], Len(intent.columns) < MAX_COLUMNS
      PROVE  IntentFits'
  <2>1. intent' \in IntentRecord /\ intent'.columns = Append(intent.columns, c) /\ intent'.values = intent.values
    BY <1>1, <1>4, <1>7 DEF IntentRecord
  <2> QED
    BY <1>1, <1>2, <1>4, <1>5, <1>7, <2>1 DEF IntentFits
<1>8. intent' = intent => IntentFits'
  BY <1>1 DEF IntentFits
<1> QED
  BY <1>6, <1>7, <1>8

\* The WHERE of a statement is two words, or nothing.
LEMMA WhereIs ==
  ASSUME ParserFits, at # "off", NEW n \in Nat
  PROVE  parse_where(n) \in Seq(Lexemes)
<1> DEFINE eq == IF Type(Ahead(n + 2)) = "=" THEN 1 ELSE 0
<1>1. eq \in Nat /\ n + 1 \in Nat /\ n + 2 + eq \in Nat
  OBVIOUS
<1>2. Ahead(n + 1) \in Lexemes /\ Ahead(n + 2 + eq) \in Lexemes
  BY <1>1, AheadIs
<1>3. parse_where(n) \in {<<>>, <<Ahead(n + 1), Ahead(n + 2 + eq)>>}
  BY DEF parse_where
<1> HIDE DEF eq
<1>4. <<>> \in Seq(Lexemes) /\ <<Ahead(n + 1), Ahead(n + 2 + eq)>> \in Seq(Lexemes)
  BY <1>2
<1> QED
  BY <1>3, <1>4, Zenon

\* A statement without a list.
LEMMA ReturnFits ==
  ASSUME ParserFits, at # "off", NEW type \in Types, NEW name \in Lexemes \cup {None},
         NEW set \in Seq(Lexemes \cup {None}), NEW where \in Seq(Lexemes),
         \/ intent' = [intent EXCEPT !.type = type, !.name = name, !.set = set, !.where = where]
         \/ intent' = [intent EXCEPT !.type = type, !.name = name, !.where = where]
         \/ intent' = [intent EXCEPT !.type = type, !.name = name]
         \/ intent' = [NoIntent EXCEPT !.type = type, !.name = name]
         \/ intent' = [NoIntent EXCEPT !.type = type]
  PROVE  IntentFits'
<1>1. intent \in IntentRecord /\ Len(intent.values) <= MAX_VALUES /\ Len(intent.columns) <= MAX_COLUMNS
  BY DEF ParserFits, IntentFits
<1>2. ASSUME NEW i \in IntentRecord, Len(i.values) <= MAX_VALUES, Len(i.columns) <= MAX_COLUMNS,
             NEW j, \/ j = [i EXCEPT !.type = type, !.name = name, !.set = set, !.where = where]
                    \/ j = [i EXCEPT !.type = type, !.name = name, !.where = where]
                    \/ j = [i EXCEPT !.type = type, !.name = name]
                    \/ j = [i EXCEPT !.type = type]
      PROVE  j \in IntentRecord /\ Len(j.values) <= MAX_VALUES /\ Len(j.columns) <= MAX_COLUMNS
  <2>1. j \in IntentRecord
    BY <1>2 DEF IntentRecord
  <2>2. j.values = i.values /\ j.columns = i.columns
    BY <1>2 DEF IntentRecord
  <2> QED
    BY <1>2, <2>1, <2>2
<1>3. intent' \in IntentRecord /\ Len(intent'.values) <= MAX_VALUES /\ Len(intent'.columns) <= MAX_COLUMNS
  BY <1>1, <1>2, EmptyFits
<1> QED
  BY <1>3 DEF IntentFits

\* The steps of the parser.
LEMMA FirstFits == ASSUME ParserFits, ParseFirst PROVE ParserFits' /\ at' # "off"
<1>0. at # "off" /\ Ahead(0) \in Lexemes /\ Ahead(1) \in Lexemes /\ Moved(1) \in Nat \ {0}
  BY AheadIs DEF ParseFirst
<1>1. CASE /\ Ahead(0) \in {"BEGIN", "COMMIT"}
           /\ intent' = [NoIntent EXCEPT !.type = Ahead(0)] /\ Finish("ok")
  <2>0. <<>> \in Seq(Lexemes) /\ <<>> \in Seq(Lexemes \cup {None}) /\ None \in Lexemes \cup {None}
    OBVIOUS
  <2>1. Ahead(0) \in Types
    BY <1>1 DEF Types
  <2>2. IntentFits'
    BY <1>0, <1>1, <2>0, <2>1, ReturnFits
  <2> QED
    BY <1>0, <1>1, <2>2, FinishFits
<1>2. CASE /\ Ahead(0) \in DOMAIN Clause
           /\ at' = Clause[Ahead(0)] /\ Skip(1) /\ UNCHANGED <<tokens, intent>>
  <2>1. at' # "off"
    BY <1>2 DEF Clause
  <2>2. pos' \in Nat \ {0} /\ IntentFits'
    BY <1>0, <1>2 DEF Skip, ParserFits, IntentFits
  <2> QED
    BY <1>0, <1>2, <2>1, <2>2, StepFits
<1>3. CASE /\ Ahead(0) = "USE" /\ Type(Ahead(1)) = "IDENT"
           /\ intent' = [NoIntent EXCEPT !.type = "USE", !.name = Ahead(1)] /\ Finish("ok")
  <2>1. "USE" \in Types /\ Ahead(1) \in Lexemes \cup {None} /\ <<>> \in Seq(Lexemes)
        /\ <<>> \in Seq(Lexemes \cup {None})
    BY <1>0 DEF Types
  <2>2. IntentFits'
    BY <1>0, <1>3, <2>1, ReturnFits
  <2> QED
    BY <1>0, <1>3, <2>2, FinishFits
<1>4. CASE Fail
  BY <1>0, <1>4, FailFits
<1> QED
  BY <1>1, <1>2, <1>3, <1>4 DEF ParseFirst

\* SELECT: the names of the columns, then FROM and WHERE.
LEMMA SelectFits ==
  ASSUME ParserFits, ParseSelect \/ SelectColumn \/ SelectFrom
  PROVE  ParserFits' /\ at' # "off"
<1>0. /\ at # "off" /\ Ahead(0) \in Lexemes /\ Ahead(1) \in Lexemes
      /\ Moved(1) \in Nat \ {0} /\ Moved(2) \in Nat \ {0} /\ pos \in Nat \ {0}
      /\ parse_where(2) \in Seq(Lexemes) /\ IntentFits
  BY AheadIs, WhereIs DEF ParseSelect, SelectColumn, SelectFrom, ParserFits
<1>1. CASE ParseSelect
  <2>1. at' # "off" /\ pos' \in Nat \ {0} /\ UNCHANGED tokens
    BY <1>0, <1>1 DEF ParseSelect, Skip
  <2>2. CASE intent' = [intent EXCEPT !.columns = <<"*">>]
    <3>0. "*" \in Column /\ MAX_COLUMNS \in Nat \ {0}
      BY ParserAssumption, Zenon DEF Column
    <3>1. <<"*">> \in Seq(Column) /\ Len(<<"*">>) <= MAX_COLUMNS
      BY <3>0
    <3>2. intent' \in IntentRecord /\ intent'.columns = <<"*">> /\ intent'.values = intent.values
      BY <1>0, <2>2, <3>1 DEF IntentRecord, IntentFits
    <3>3. IntentFits'
      BY <1>0, <3>1, <3>2 DEF IntentFits
    <3> QED
      BY <1>0, <2>1, <3>3, StepFits
  <2>3. CASE UNCHANGED intent
    BY <1>0, <2>1, <2>3, StepFits DEF IntentFits
  <2> QED
    BY <1>1, <2>2, <2>3 DEF ParseSelect
<1>2. CASE SelectColumn
  <2>1. at' # "off" /\ pos' \in Nat \ {0} /\ UNCHANGED tokens
    BY <1>0, <1>2 DEF SelectColumn, Skip
  <2>2. \/ intent' = IF Len(intent.columns) < MAX_COLUMNS
                     THEN [intent EXCEPT !.columns = Append(@, Ahead(0))] ELSE intent
        \/ intent' = intent
    BY <1>2, Zenon DEF SelectColumn
  <2>3. Ahead(0) \in Column
    BY <1>0 DEF Column
  <2>4. IntentFits'
    BY <1>0, <2>2, <2>3, AppendFits DEF IntentFits
  <2> QED
    BY <1>0, <2>1, <2>4, StepFits
<1>3. CASE SelectFrom
  <2>1. CASE Fail
    BY <1>0, <2>1, FailFits
  <2>2. CASE /\ intent' = [intent EXCEPT !.type = "SELECT", !.name = Ahead(1), !.where = parse_where(2)]
             /\ Finish("ok")
    <3>1. "SELECT" \in Types /\ Ahead(1) \in Lexemes \cup {None} /\ <<>> \in Seq(Lexemes \cup {None})
      BY <1>0 DEF Types
    <3>2. IntentFits'
      BY <1>0, <2>2, <3>1, ReturnFits
    <3> QED
      BY <1>0, <2>2, <3>2, FinishFits
  <2> QED
    BY <1>3, <2>1, <2>2 DEF SelectFrom
<1> QED
  BY <1>1, <1>2, <1>3

\* SkipWithComma stays among the tokens.
LEMMA CommaFits ==
  ASSUME ParserFits, at # "off", NEW n \in Nat, SkipWithComma(n)
  PROVE  pos' \in Nat \ {0}
<1>1. Moved(n) \in Nat \ {0} /\ n + 1 \in Nat
  BY AheadIs
<1>2. Moved(n + 1) \in Nat \ {0}
  BY <1>1, AheadIs
<1> QED
  BY <1>1, <1>2 DEF SkipWithComma, Skip

\* INSERT: the values of its list.
LEMMA InsertFits ==
  ASSUME ParserFits, ParseInsert \/ InsertValue \/ ListEnds
  PROVE  ParserFits' /\ at' # "off"
<1>0. /\ at # "off" /\ Ahead(0) \in Lexemes /\ Ahead(1) \in Lexemes
      /\ Moved(4) \in Nat \ {0} /\ IntentFits
  BY AheadIs DEF ParseInsert, InsertValue, ListEnds, ParserFits
<1>1. CASE ParseInsert
  <2>1. CASE Fail
    BY <1>0, <2>1, FailFits
  <2>2. CASE /\ intent' = [intent EXCEPT !.type = "INSERT", !.name = Ahead(1)]
             /\ Skip(4) /\ at' = "values" /\ UNCHANGED tokens
    <3>1. "INSERT" \in Types /\ Ahead(1) \in Lexemes \cup {None}
      BY <1>0 DEF Types
    <3>2. <<>> \in Seq(Lexemes) /\ <<>> \in Seq(Lexemes \cup {None})
      OBVIOUS
    <3>3. IntentFits'
      BY <1>0, <2>2, <3>1, <3>2, ReturnFits
    <3>4. pos' \in Nat \ {0} /\ at' # "off"
      BY <1>0, <2>2 DEF Skip
    <3> QED
      BY <1>0, <2>2, <3>3, <3>4, StepFits
  <2> QED
    BY <1>1, <2>1, <2>2 DEF ParseInsert
<1>2. CASE InsertValue
  <2>1. /\ UNCHANGED <<at, tokens>>
        /\ \/ intent' = IF Len(intent.values) < MAX_VALUES
                        THEN [intent EXCEPT !.values = Append(@, Ahead(0))] ELSE intent
           \/ intent' = intent
        /\ SkipWithComma(1) \/ SkipWithComma(0)
    BY <1>2, Zenon DEF InsertValue
  <2>2. IntentFits'
    BY <1>0, <2>1, AppendFits DEF IntentFits, Column
  <2>3. pos' \in Nat \ {0}
    BY <1>0, <2>1, CommaFits
  <2> QED
    BY <1>0, <2>1, <2>2, <2>3, StepFits
<1>3. CASE ListEnds
  BY <1>0, <1>3, FinishFits DEF ListEnds, IntentFits
<1> QED
  BY <1>1, <1>2, <1>3

\* UPDATE, DELETE and DROP TABLE have no list.
LEMMA ChangeFits ==
  ASSUME ParserFits, ParseUpdate \/ ParseDelete \/ ParseDrop
  PROVE  ParserFits' /\ at' # "off"
<1>0. /\ at # "off" /\ IntentFits /\ parse_where(2) \in Seq(Lexemes)
      /\ \A n \in Nat : Ahead(n) \in Lexemes
  BY AheadIs, WhereIs DEF ParseUpdate, ParseDelete, ParseDrop, ParserFits
<1>1. /\ {"UPDATE", "DELETE", "DROP TABLE"} \subseteq Types
      /\ <<>> \in Seq(Lexemes) /\ <<>> \in Seq(Lexemes \cup {None})
  BY DEF Types
<1>2. CASE Fail
  BY <1>0, <1>2, FailFits
<1>3. CASE ParseUpdate /\ ~Fail
  <2> DEFINE eq    == IF Type(Ahead(3)) = "=" THEN 1 ELSE 0
             given == Ahead(3 + eq) \in Values
             value == IF given THEN Ahead(3 + eq) ELSE None
             after == 3 + eq + IF given THEN 1 ELSE 0
  <2>1. /\ intent' = [intent EXCEPT !.type = "UPDATE", !.name = Ahead(0), !.set = <<Ahead(2), value>>,
                                    !.where = parse_where(after)]
        /\ Finish("ok")
    BY <1>3 DEF ParseUpdate
  <2>2. after \in Nat /\ 3 + eq \in Nat
    OBVIOUS
  <2>3. value \in Lexemes \cup {None} /\ Ahead(2) \in Lexemes /\ Ahead(0) \in Lexemes
    BY <1>0, <2>2
  <2>4. parse_where(after) \in Seq(Lexemes)
    BY <1>0, <2>2, WhereIs
  <2> HIDE DEF after, value
  <2>5. <<Ahead(2), value>> \in Seq(Lexemes \cup {None})
    BY <2>3
  <2>6. IntentFits'
    <3> DEFINE pair == <<Ahead(2), value>>
               w    == parse_where(after)
    <3>1. pair \in Seq(Lexemes \cup {None}) /\ w \in Seq(Lexemes) /\ Ahead(0) \in Lexemes \cup {None}
          /\ intent' = [intent EXCEPT !.type = "UPDATE", !.name = Ahead(0), !.set = pair, !.where = w]
      BY <2>1, <2>3, <2>4, <2>5
    <3> HIDE DEF pair, w
    <3> QED
      BY <1>0, <1>1, <3>1, ReturnFits
  <2> QED
    BY <1>0, <2>1, <2>6, FinishFits
<1>4. CASE ParseDelete /\ ~Fail
  <2>1. /\ intent' = [intent EXCEPT !.type = "DELETE", !.name = Ahead(1), !.where = parse_where(2)]
        /\ Finish("ok") /\ Ahead(1) \in Lexemes \cup {None}
    BY <1>0, <1>4 DEF ParseDelete
  <2>2. IntentFits'
    BY <1>0, <1>1, <2>1, ReturnFits
  <2> QED
    BY <1>0, <2>1, <2>2, FinishFits
<1>5. CASE ParseDrop /\ ~Fail
  <2>1. /\ intent' = [intent EXCEPT !.type = "DROP TABLE", !.name = Ahead(1)]
        /\ Finish("ok") /\ Ahead(1) \in Lexemes \cup {None}
    BY <1>0, <1>5 DEF ParseDrop
  <2>2. IntentFits'
    BY <1>0, <1>1, <2>1, ReturnFits
  <2> QED
    BY <1>0, <2>1, <2>2, FinishFits
<1> QED
  BY <1>2, <1>3, <1>4, <1>5

\* CREATE: a name, and for a table its columns.
LEMMA CreateFits ==
  ASSUME ParserFits, ParseCreate \/ CreateColumn
  PROVE  ParserFits' /\ at' # "off"
<1>0. /\ at # "off" /\ IntentFits /\ Ahead(0) \in Lexemes /\ Ahead(1) \in Lexemes
      /\ Moved(3) \in Nat \ {0}
  BY AheadIs DEF ParseCreate, CreateColumn, ParserFits
<1>1. /\ {"CREATE DATABASE", "CREATE TABLE"} \subseteq Types /\ Ahead(1) \in Lexemes \cup {None}
      /\ <<>> \in Seq(Lexemes) /\ <<>> \in Seq(Lexemes \cup {None})
  BY <1>0 DEF Types
<1>2. CASE Fail
  BY <1>0, <1>2, FailFits
<1>3. CASE intent' = [intent EXCEPT !.type = "CREATE DATABASE", !.name = Ahead(1)] /\ Finish("ok")
  <2>1. IntentFits'
    BY <1>0, <1>1, <1>3, ReturnFits
  <2> QED
    BY <1>0, <1>3, <2>1, FinishFits
<1>4. CASE /\ intent' = [intent EXCEPT !.type = "CREATE TABLE", !.name = Ahead(1)]
           /\ Skip(3) /\ at' = "definitions" /\ UNCHANGED tokens
  <2>1. IntentFits'
    BY <1>0, <1>1, <1>4, ReturnFits
  <2>2. pos' \in Nat \ {0} /\ at' # "off"
    BY <1>0, <1>4 DEF Skip
  <2> QED
    BY <1>0, <1>4, <2>1, <2>2, StepFits
<1>5. CASE CreateColumn
  <2>1. /\ UNCHANGED <<at, tokens>>
        /\ \/ intent' = IF Len(intent.columns) < MAX_COLUMNS
                        THEN [intent EXCEPT !.columns = Append(@, <<Ahead(0), Ahead(1)>>)] ELSE intent
           \/ intent' = intent
        /\ \E n \in {0, 1, 2} : SkipWithComma(n)
    <3>1. (IF check("IDENT") THEN 1 ELSE 0) \in {0, 1, 2}
      BY Zenon
    <3> QED
      BY <1>5, <3>1, Zenon DEF CreateColumn
  <2>2. <<Ahead(0), Ahead(1)>> \in Column
    BY <1>0 DEF Column
  <2>3. IntentFits'
    BY <1>0, <2>1, <2>2, AppendFits DEF IntentFits
  <2>4. pos' \in Nat \ {0}
    BY <1>0, <2>1, CommaFits
  <2> QED
    BY <1>0, <2>1, <2>3, <2>4, StepFits
<1> QED
  BY <1>2, <1>3, <1>4, <1>5 DEF ParseCreate

\* The lexer makes at least one token of a query, and no more than there is room for.
LEMMA LexerFits ==
  ASSUME NEW text \in Seq(Lexemes)
  PROVE  /\ lexer_tokenize(text) \in Seq(Lexemes)
         /\ Len(lexer_tokenize(text)) <= MAX_TOKENS /\ Len(lexer_tokenize(text)) > 0
<1> DEFINE read == [i \in DOMAIN text |-> Token(text, i)]
           all  == Append(Without(Skipped)[read], "EOF")
<1>1. " " \in Lexemes /\ LongWord \in Lexemes /\ LongNumber \in Lexemes /\ "EOF" \in Lexemes
  <2>1. LongWord \in Values /\ LongNumber \in Values /\ " " \in Skipped
    BY ParserAssumption, Zenon DEF Values, Skipped
  <2> QED
    BY <2>1, ParserAssumption, Zenon
<1>2. \A i \in DOMAIN text : Token(text, i) \in Lexemes
  <2> TAKE i \in DOMAIN text
  <2>1. text[i] \in Lexemes
    OBVIOUS
  <2>2. Token(text, i) \in {" ", text[i], LongWord, LongNumber}
    BY Zenon DEF Token
  <2> QED
    BY <1>1, <2>1, <2>2, Zenon
<1>3. Len(text) \in Nat /\ DOMAIN text = 1..Len(text)
  OBVIOUS
<1>4. read \in [1..Len(text) -> Lexemes]
  BY <1>2, <1>3
<1>5. read \in Seq(Lexemes)
  BY <1>3, <1>4, SeqDef
<1>6. lexer_tokenize(text) = UpTo(all, MAX_TOKENS)
  BY DEF lexer_tokenize
<1> HIDE DEF read
<1>7. Without(Skipped)[read] \in Seq(Lexemes)
  BY <1>5, WithoutSeq
<1> DEFINE kept == Without(Skipped)[read]
<1>8. kept \in Seq(Lexemes) /\ all = Append(kept, "EOF")
  BY <1>7
<1> HIDE DEF kept, all
<1>9. all \in Seq(Lexemes) /\ Len(all) > 0
  <2>1. \A e \in Lexemes : Append(kept, e) \in Seq(Lexemes) /\ Len(Append(kept, e)) > 0
    BY <1>8
  <2> QED
    BY <1>1, <1>8, <2>1, Zenon
<1>10. MAX_TOKENS \in Nat /\ MAX_TOKENS > 0
  <2>1. MAX_TOKENS \in Nat \ {0}
    BY ParserAssumption, Zenon
  <2> QED
    BY <2>1
<1> QED
  BY <1>6, <1>9, <1>10, UpToFits

\* What stands before the semicolon is no longer than the line.
LEMMA SemicolonFits ==
  ASSUME NEW text \in Seq(Lexemes)
  PROVE  UpToSemicolon(text) \in Seq(Lexemes) /\ Len(UpToSemicolon(text)) <= Len(text)
<1> DEFINE at1 == {i \in DOMAIN text : /\ HasSemicolon(text[i])
                                       /\ \A j \in 1..i-1 : ~HasSemicolon(text[j])}
           i == CHOOSE i \in at1 : TRUE
<1>1. CASE at1 = {}
  BY <1>1 DEF UpToSemicolon
<1>2. CASE at1 # {}
  <2>1. i \in 1..Len(text) /\ Len(text) \in Nat
    BY <1>2
  <2>2. \/ UpToSemicolon(text) = SubSeq(text, 1, i - 1) \o <<>>
        \/ UpToSemicolon(text) = SubSeq(text, 1, i - 1) \o <<CutQuote>>
    BY <1>2 DEF UpToSemicolon
  <2>3. CutQuote \in Lexemes
    BY LexemesAssumption
  <2> HIDE DEF i, at1
  <2>4. SubSeq(text, 1, i - 1) \in Seq(Lexemes) /\ Len(SubSeq(text, 1, i - 1)) = i - 1
    BY <2>1
  <2> DEFINE head == SubSeq(text, 1, i - 1)
  <2> HIDE DEF head
  <2>5. head \in Seq(Lexemes) /\ Len(head) = i - 1
    BY <2>4 DEF head
  <2>6. head \o <<>> \in Seq(Lexemes) /\ Len(head \o <<>>) = i - 1
    BY <2>5
  <2>7. head \o <<CutQuote>> \in Seq(Lexemes) /\ Len(head \o <<CutQuote>>) = i
    BY <2>1, <2>3, <2>5
  <2>8. UpToSemicolon(text) = head \o <<>> \/ UpToSemicolon(text) = head \o <<CutQuote>>
    BY <2>2 DEF head
  <2>9. Len(head \o <<>>) <= Len(text) /\ Len(head \o <<CutQuote>>) <= Len(text)
    BY <2>1, <2>6, <2>7
  <2> QED
    BY <2>6, <2>7, <2>8, <2>9
<1> QED
  BY <1>1, <1>2

\* A read leaves the counters in order and gives a line of lexemes.
LEMMA ReadFits ==
  ASSUME InputFits, Read
  PROVE  /\ script' = script /\ tty' = tty /\ eof' = eof /\ signals' = signals /\ typed' = typed
         /\ taken' \in Nat /\ fetched' \in Nat /\ taken' <= fetched' /\ fetched' <= typed'
         /\ rest' \in Seq(Lexemes) /\ line \in Seq(Lexemes)
         /\ UNCHANGED parserVars
<1>1. /\ taken \in Nat /\ fetched \in Nat /\ typed \in Nat /\ rest \in Seq(Lexemes)
      /\ taken <= fetched /\ fetched <= typed /\ typed <= Len(script)
  BY DEF InputFits
<1>2. /\ UNCHANGED <<script, tty, typed, eof, signals, parserVars>> /\ fetched' = Refill
      /\ taken' = (IF rest = <<>> THEN taken + 1 ELSE taken) /\ ~AtEof
      /\ rest' = SubSeq(Current, Len(Piece) + 1, Len(Current))
  BY DEF Read
<1>3. fetched' \in Nat /\ fetched <= fetched' /\ fetched' <= typed
  BY <1>1, <1>2 DEF Refill, AtEof
<1>4. rest = <<>> => taken < fetched'
  BY <1>1, <1>2, <1>3 DEF Refill, AtEof, Buffered
<1>5. taken' \in Nat /\ taken' <= fetched'
  BY <1>1, <1>2, <1>3, <1>4
<1>6. Current \in Seq(Lexemes)
  <2>1. CASE rest # <<>>
    BY <1>1, <2>1 DEF Current
  <2>2. CASE rest = <<>>
    <3>1. script \in Seq(Seq(Lexemes)) /\ Newline \in Lexemes
      BY ScriptsAssumption, LexemesAssumption DEF InputFits
    <3>2. taken + 1 \in 1..Len(script)
      BY <1>1, <1>3, <1>4, <2>2, <3>1
    <3>3. script[taken + 1] \in Seq(Lexemes)
      BY <3>1, <3>2
    <3>4. Append(script[taken + 1], Newline) \in Seq(Lexemes)
      BY <3>1, <3>3
    <3> QED
      BY <2>2, <3>4 DEF Current
  <2> QED
    BY <2>1, <2>2
<1>7. LineSize \in Nat
  BY ReplAssumption
<1>8. Piece \in Seq(Lexemes) /\ Len(Piece) <= Len(Current)
  BY <1>6, <1>7, UpToFits DEF Piece
<1>9. rest' \in Seq(Lexemes)
  <2> DEFINE c == Current
             m == Len(Piece) + 1
  <2>1. c \in Seq(Lexemes) /\ m \in Nat \ {0} /\ rest' = SubSeq(c, m, Len(c))
    BY <1>2, <1>6, <1>8
  <2> HIDE DEF c, m
  <2>2. Len(c) \in Nat /\ \A k \in m..Len(c) : k \in 1..Len(c)
    BY <2>1
  <2> QED
    BY <2>1, <2>2
<1>10. line \in Seq(Lexemes)
  BY <1>8, WithoutSeq DEF line
<1> QED
  BY <1>1, <1>2, <1>3, <1>5, <1>9, <1>10
-----------------------------------------------------------------------------
\* Steps that leave the parser, or the input, alone.
LEMMA SameParser == ASSUME ParserFits, UNCHANGED parserVars PROVE ParserFits'
BY DEF ParserFits, parserVars, IntentFits

\* What leaves the counters of lines alone.
LEMMA SameInput ==
  ASSUME InputFits, UNCHANGED <<script, tty, input, g_interrupted, signals>>
  PROVE  InputFits'
<1>1. UNCHANGED <<script, tty, typed, eof, fetched, taken, rest, g_interrupted, signals>>
  BY DEF input
<1> QED
  BY <1>1 DEF InputFits

\* A read, with a query that fits, unless it leads into the parser.
LEMMA ReadKeeps ==
  ASSUME BuffersInv, Read, g_interrupted' \in BOOLEAN,
         query' \in Seq(Lexemes), Len(query') <= QuerySize, pc' \in PC \ {"sql"}
  PROVE  BuffersInv'
<1>1. InputFits /\ QueryFits /\ ParserFits
  BY DEF BuffersInv
<1>2. /\ script' = script /\ tty' = tty /\ eof' = eof /\ signals' = signals /\ typed' = typed
      /\ taken' \in Nat /\ fetched' \in Nat /\ taken' <= fetched' /\ fetched' <= typed'
      /\ rest' \in Seq(Lexemes) /\ UNCHANGED parserVars
  BY <1>1, ReadFits
<1>3. InputFits'
  BY <1>1, <1>2 DEF InputFits
<1>4. pc = "input" /\ at' = at
  BY <1>2 DEF Read, parserVars
<1>5. at' = "off"
  BY <1>1, <1>4 DEF QueryFits
<1>6. QueryFits'
  BY <1>5 DEF QueryFits
<1> QED
  BY <1>1, <1>2, <1>3, <1>6, SameParser DEF BuffersInv

\* A cleared query fits.
LEMMA ClearedFits == <<>> \in Seq(Lexemes) /\ Len(<<>>) <= QuerySize
<1>1. QuerySize \in Nat
  BY ReplAssumption, Zenon
<1> QED
  BY <1>1

\* The lines joined, cut off at the buffer's end, and at the semicolon.
LEMMA QueryAppends ==
  ASSUME BuffersInv, Read, AppendLine
  PROVE  query' \in Seq(Lexemes) /\ Len(query') <= QuerySize /\ pc' \in PC \ {"sql"}
<1> DEFINE joined == UpTo(query \o line, QuerySize)
<1>1. InputFits /\ query \in Seq(Lexemes) /\ QuerySize \in Nat /\ line \in Seq(Lexemes)
  BY ReadFits, ReplAssumption DEF BuffersInv, QueryFits
<1>2. query \o line \in Seq(Lexemes)
  BY <1>1
<1>3. joined \in Seq(Lexemes) /\ Len(joined) <= QuerySize
  BY <1>1, <1>2, UpToFits
<1>4. UpToSemicolon(joined) \in Seq(Lexemes) /\ Len(UpToSemicolon(joined)) <= Len(joined)
  BY <1>3, SemicolonFits
<1>5. \/ query' = UpToSemicolon(joined) /\ pc' = "dispatch"
      \/ query' = joined /\ pc' = pc
  BY DEF AppendLine
<1>6. pc = "input"
  BY DEF Read
<1> HIDE DEF joined
<1>7. Len(joined) \in Nat /\ Len(UpToSemicolon(joined)) \in Nat
  BY <1>3, <1>4
<1> QED
  BY <1>1, <1>3, <1>4, <1>5, <1>6, <1>7 DEF PC

\* The parser's step, whatever it is.
LEMMA ParseFits == ASSUME ParserFits, Parse PROVE ParserFits' /\ at' # "off"
BY FirstFits, SelectFits, InsertFits, ChangeFits, CreateFits DEF Parse
\* Every action of the shell keeps its buffers.
LEMMA ShellFits == ASSUME BuffersInv, repl_run PROVE BuffersInv'
<1>0. /\ InputFits /\ QueryFits /\ ParserFits /\ TRUE \in BOOLEAN /\ FALSE \in BOOLEAN
      /\ g_interrupted \in BOOLEAN
  BY DEF BuffersInv, InputFits
<1>1. CASE Interrupted
  <2>1. Read /\ query' = <<>> /\ pc' = pc /\ g_interrupted' = FALSE /\ pc = "input"
    BY <1>1, Zenon DEF Interrupted, Read
  <2>2. pc' \in PC \ {"sql"} /\ query' \in Seq(Lexemes) /\ Len(query') <= QuerySize
    BY <2>1, ClearedFits DEF PC
  <2>3. g_interrupted' \in BOOLEAN
    BY <1>0, <2>1, Zenon
  <2> QED
    BY <2>1, <2>2, <2>3, ReadKeeps
<1>2. CASE EndOfInput
  <2>1. /\ UNCHANGED <<script, tty, input, signals, parserVars>> /\ pc = "input"
        /\ g_interrupted' = FALSE
        /\ (query' = <<>> /\ pc' = pc) \/ (query' = query /\ pc' = "ended")
    BY <1>2, Zenon DEF EndOfInput
  <2>2. InputFits'
    <3>1. UNCHANGED <<script, tty, typed, eof, fetched, taken, rest, signals>>
      BY <2>1 DEF input
    <3>2. g_interrupted' \in BOOLEAN
      BY <1>0, <2>1, Zenon
    <3> QED
      BY <1>0, <3>1, <3>2 DEF InputFits
  <2>3. ParserFits' /\ at' = at
    BY <1>0, <2>1, SameParser DEF parserVars
  <2>4. QueryFits'
    BY <1>0, <2>1, <2>3, ClearedFits DEF QueryFits, PC
  <2> QED
    BY <2>2, <2>3, <2>4 DEF BuffersInv
<1>3. CASE EmptyLine \/ MetaLine
  <2>1. Read /\ query' = query /\ (pc' = pc \/ pc' = "ended") /\ g_interrupted' = g_interrupted
        /\ pc = "input"
    BY <1>3, Zenon DEF EmptyLine, MetaLine, Read
  <2>2. pc' \in PC \ {"sql"} /\ query' \in Seq(Lexemes) /\ Len(query') <= QuerySize
    BY <1>0, <2>1 DEF PC, QueryFits
  <2>3. g_interrupted' \in BOOLEAN
    BY <1>0, <2>1, Zenon
  <2> QED
    BY <2>1, <2>2, <2>3, ReadKeeps
<1>4. CASE AppendLine
  <2>1. Read /\ g_interrupted' = g_interrupted
    BY <1>4, Zenon DEF AppendLine
  <2>2. query' \in Seq(Lexemes) /\ Len(query') <= QuerySize /\ pc' \in PC \ {"sql"}
    BY <1>4, <2>1, QueryAppends
  <2>3. g_interrupted' \in BOOLEAN
    BY <1>0, <2>1, Zenon
  <2> QED
    BY <2>1, <2>2, <2>3, ReadKeeps
<1>5. CASE dispatch_sql
  <2>1. /\ UNCHANGED <<script, tty, input, g_interrupted, query, signals>> /\ pc' = "sql"
        /\ at' = "first" /\ tokens' = lexer_tokenize(query) /\ pos' = 1 /\ intent' = NoIntent
    BY <1>5, Zenon DEF dispatch_sql, ParseStart
  <2>2. InputFits'
    BY <1>0, <2>1, SameInput
  <2>3. QueryFits'
    BY <1>0, <2>1 DEF QueryFits, PC
  <2>4. tokens' \in Seq(Lexemes) /\ Len(tokens') <= MAX_TOKENS /\ Len(tokens') > 0
    BY <1>0, <2>1, LexerFits DEF QueryFits
  <2>5. IntentFits'
    BY <2>1, EmptyFits DEF IntentFits
  <2>6. ParserFits'
    BY <2>1, <2>4, <2>5 DEF ParserFits
  <2> QED
    BY <2>2, <2>3, <2>6 DEF BuffersInv
<1>6. CASE dispatch_other
  <2>1. /\ UNCHANGED <<script, tty, input, g_interrupted, signals, parserVars>> /\ query' = <<>>
        /\ pc = "dispatch" /\ (pc' = "ended" \/ pc' = "input")
    BY <1>6, Zenon DEF dispatch_other
  <2>2. InputFits'
    BY <1>0, <2>1, SameInput
  <2>3. ParserFits' /\ at' = at
    BY <1>0, <2>1, SameParser DEF parserVars
  <2>4. QueryFits'
    BY <1>0, <2>1, <2>3, ClearedFits DEF QueryFits, PC
  <2> QED
    BY <2>2, <2>3, <2>4 DEF BuffersInv
<1>7. CASE parse
  <2>1. Parse /\ UNCHANGED <<script, tty, input, g_interrupted, query, pc, signals>> /\ pc = "sql"
    BY <1>7, Zenon DEF parse
  <2>2. InputFits'
    BY <1>0, <2>1, SameInput
  <2>3. ParserFits' /\ at' # "off"
    BY <1>0, <2>1, ParseFits
  <2>4. QueryFits'
    BY <1>0, <2>1, <2>3 DEF QueryFits
  <2> QED
    BY <2>2, <2>3, <2>4 DEF BuffersInv
<1>8. CASE handle_sql
  <2>1. /\ UNCHANGED <<script, tty, input, g_interrupted, signals>>
        /\ query' = <<>> /\ pc' = "input" /\ at' = "off"
        /\ tokens' = <<>> /\ pos' = 1 /\ intent' = NoIntent
    BY <1>8, Zenon DEF handle_sql
  <2>2. InputFits'
    BY <1>0, <2>1, SameInput
  <2>3. QueryFits'
    BY <2>1, ClearedFits DEF QueryFits, PC
  <2>4. tokens' \in Seq(Lexemes) /\ Len(tokens') <= MAX_TOKENS
    <3>1. MAX_TOKENS \in Nat \ {0}
      BY ParserAssumption, Zenon
    <3> QED
      BY <2>1, <3>1
  <2>5. IntentFits'
    BY <2>1, EmptyFits DEF IntentFits
  <2>6. ParserFits'
    BY <2>1, <2>4, <2>5 DEF ParserFits
  <2> QED
    BY <2>2, <2>3, <2>6 DEF BuffersInv
<1> QED
  BY <1>1, <1>2, <1>3, <1>4, <1>5, <1>6, <1>7, <1>8 DEF repl_run

\* And so does its user.
LEMMA BuffersInductive == BuffersInv /\ [Next]_vars => BuffersInv'
<1> SUFFICES ASSUME BuffersInv, [Next]_vars PROVE BuffersInv'
  OBVIOUS
<1>0. /\ InputFits /\ QueryFits /\ ParserFits /\ TRUE \in BOOLEAN
      /\ tty \in BOOLEAN /\ eof \in BOOLEAN /\ g_interrupted \in BOOLEAN
  BY DEF BuffersInv, InputFits
<1>1. CASE UserTypes
  <2>1. /\ typed < Len(script) /\ typed' = typed + 1 /\ UNCHANGED <<query, pc, parserVars>>
        /\ UNCHANGED <<script, tty, eof, fetched, taken, rest, g_interrupted, signals>>
    BY <1>1, Zenon DEF UserTypes
  <2>2. typed \in Nat /\ Len(script) \in Nat /\ fetched \in Nat /\ fetched <= typed
    BY <1>0, ScriptsAssumption DEF InputFits
  <2>3. typed' \in Nat /\ fetched <= typed' /\ typed' <= Len(script)
    BY <2>1, <2>2
  <2>4. InputFits'
    BY <1>0, <2>1, <2>3 DEF InputFits
  <2>5. ParserFits' /\ QueryFits'
    BY <1>0, <2>1, SameParser DEF QueryFits, parserVars
  <2> QED
    BY <2>4, <2>5 DEF BuffersInv
<1>2. CASE UserCloses
  <2>1. /\ eof' = TRUE /\ UNCHANGED <<query, pc, parserVars>>
        /\ UNCHANGED <<script, tty, typed, fetched, taken, rest, g_interrupted, signals>>
    BY <1>2, Zenon DEF UserCloses
  <2>2. eof' \in BOOLEAN
    BY <1>0, <2>1, Zenon
  <2>3. InputFits'
    BY <1>0, <2>1, <2>2 DEF InputFits
  <2>4. ParserFits' /\ QueryFits'
    BY <1>0, <2>1, SameParser DEF QueryFits, parserVars
  <2> QED
    BY <2>3, <2>4 DEF BuffersInv
<1>3. CASE handle_sigint
  <2>1. /\ signals < MaxSignals /\ signals' = signals + 1 /\ g_interrupted' = TRUE
        /\ UNCHANGED <<script, tty, input, query, pc, parserVars>>
    BY <1>3, Zenon DEF handle_sigint
  <2>2. MaxSignals \in Nat
    BY ReplAssumption, Zenon
  <2>3. signals' \in 0..MaxSignals
    BY <1>0, <2>1, <2>2 DEF InputFits
  <2>4. g_interrupted' \in BOOLEAN
    BY <1>0, <2>1, Zenon
  <2>5. UNCHANGED <<script, tty, typed, eof, fetched, taken, rest>>
    BY <2>1 DEF input
  <2>6. InputFits'
    BY <1>0, <2>3, <2>4, <2>5 DEF InputFits
  <2>7. ParserFits' /\ QueryFits'
    BY <1>0, <2>1, SameParser DEF QueryFits, parserVars
  <2> QED
    BY <2>6, <2>7 DEF BuffersInv
<1>4. CASE repl_run
  BY <1>4, ShellFits
<1>5. CASE Ended \/ UNCHANGED vars
  <2>1. UNCHANGED <<script, tty, input, g_interrupted, query, pc, signals, parserVars>>
    BY <1>5 DEF Ended, vars
  <2>2. InputFits'
    BY <1>0, <2>1, SameInput
  <2>3. ParserFits' /\ QueryFits'
    BY <1>0, <2>1, SameParser DEF QueryFits, parserVars
  <2> QED
    BY <2>2, <2>3 DEF BuffersInv
<1> QED
  BY <1>1, <1>2, <1>3, <1>4, <1>5, Zenon DEF Next

\* An empty shell fits.
LEMMA BuffersInit == Init => BuffersInv
<1> SUFFICES ASSUME Init PROVE BuffersInv
  OBVIOUS
<1>1. /\ script \in Scripts /\ tty \in BOOLEAN /\ eof = FALSE /\ g_interrupted = FALSE
      /\ typed = 0 /\ fetched = 0 /\ taken = 0 /\ rest = <<>> /\ query = <<>> /\ pc = "input"
      /\ signals = 0 /\ at = "off" /\ tokens = <<>> /\ pos = 1 /\ intent = NoIntent
  BY Zenon DEF Init
<1>2. eof \in BOOLEAN /\ g_interrupted \in BOOLEAN /\ tty \in BOOLEAN
  BY <1>1, Zenon
<1>3. MAX_TOKENS \in Nat \ {0} /\ MaxSignals \in Nat
  BY ParserAssumption, ReplAssumption, Zenon
<1>4. Len(script) \in Nat
  BY <1>1, ScriptsAssumption
<1>5. InputFits
  BY <1>1, <1>2, <1>3, <1>4 DEF InputFits
<1>6. QueryFits
  BY <1>1, ClearedFits DEF QueryFits, PC
<1>7. IntentFits
  BY <1>1, EmptyFits DEF IntentFits
<1>8. ParserFits
  BY <1>1, <1>3, <1>7 DEF ParserFits
<1> QED
  BY <1>5, <1>6, <1>8 DEF BuffersInv

\* No line, statement, list of tokens, values or columns outgrows its buffer,
\* whatever is typed, and the parser is entered and left with dispatch.
THEOREM BuffersFit == Spec => []ReplTypeOK
<1>1. BuffersInv => ReplTypeOK
  <2> SUFFICES ASSUME BuffersInv PROVE ReplTypeOK
    OBVIOUS
  <2>1. InputFits /\ QueryFits /\ ParserFits /\ IntentFits
    BY DEF BuffersInv, ParserFits
  <2>2. script \in Scripts /\ tty \in BOOLEAN /\ eof \in BOOLEAN /\ g_interrupted \in BOOLEAN
    BY <2>1, Zenon DEF InputFits
  <2>3. /\ taken <= fetched /\ fetched <= typed /\ typed <= Len(script)
        /\ signals \in 0..MaxSignals
    BY <2>1, Zenon DEF InputFits
  <2>4. /\ Len(query) <= QuerySize /\ Len(tokens) <= MAX_TOKENS
        /\ pc \in PC /\ (pc = "sql" <=> at # "off")
    BY <2>1, Zenon DEF QueryFits, ParserFits
  <2>5. Len(intent.values) <= MAX_VALUES /\ Len(intent.columns) <= MAX_COLUMNS
    BY <2>1, Zenon DEF IntentFits
  <2> QED
    BY <2>2, <2>3, <2>4, <2>5, Zenon DEF ReplTypeOK
<1> QED
  BY <1>1, BuffersInit, BuffersInductive, PTL DEF Spec
=============================================================================
