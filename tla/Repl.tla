-------------------------------- MODULE Repl --------------------------------
(***************************************************************************)
(* From the lines a user types to the statements that run: the loop of       *)
(* src/reph/reph.c, the dispatcher's classification, and the parser          *)
(* (SqlParser), under SIGINT and SIGTERM.  A line is a sequence of lexemes    *)
(* with the blanks between them; lengths are counted in lexemes.             *)
(***************************************************************************)
EXTENDS SqlParser

CONSTANTS
  Scripts,      \* the inputs considered: sequences of lines
  LineSize,     \* what fgets reads at most, 255
  QuerySize,    \* what query holds, 1023
  Intents,      \* the statements whose text is followed through (see Sql)
  MaxSignals    \* model bound: signals sent in a behaviour

ASSUME ScriptsAssumption == Scripts \subseteq Seq(Seq(Lexemes))
ASSUME ReplAssumption == LineSize \in Nat \ {0} /\ QuerySize \in Nat /\ MaxSignals \in Nat

VARIABLES
  script, tty,     \* what is typed, and whether stdin is a terminal or a pipe
  typed, eof,      \* lines sent so far; the input has been closed
  fetched, taken,  \* lines read from the descriptor; lines fgets has begun
  rest,            \* the rest of a line that was longer than the buffer
  g_interrupted,   \* the flag
  query,
  pc,              \* "input", "dispatch", "sql" (in parse), "ended"
  signals,         \* history: signals sent
  dropped,         \* history: pieces thrown away for a signal
  asked            \* history: what was typed since query was last cleared

input == <<typed, eof, fetched, taken, rest>>
vars  == <<script, tty, input, g_interrupted, query, pc, signals, dropped, asked, parserVars>>

Newline == "\n"
PC      == {"input", "dispatch", "sql", "ended"}

Init == /\ script \in Scripts /\ tty \in BOOLEAN
        /\ typed = 0 /\ eof = FALSE /\ fetched = 0 /\ taken = 0 /\ rest = <<>>
        /\ g_interrupted = FALSE /\ query = <<>> /\ pc = "input"
        /\ signals = 0 /\ dropped = 0 /\ asked = <<>>
        /\ at = "off" /\ tokens = <<>> /\ pos = 1 /\ intent = NoIntent

-----------------------------------------------------------------------------
(* The other side of the descriptor.                                        *)

UserTypes == /\ typed < Len(script) /\ ~eof /\ typed' = typed + 1
             /\ UNCHANGED <<script, tty, eof, fetched, taken, rest, g_interrupted, query, pc,
                            signals, dropped, asked, parserVars>>

UserCloses == /\ typed = Len(script) /\ ~eof /\ eof' = TRUE
              /\ UNCHANGED <<script, tty, typed, fetched, taken, rest, g_interrupted, query, pc,
                             signals, dropped, asked, parserVars>>

\* SIGINT and SIGTERM have one handler.  With SA_RESTART a read goes on, and
\* poll's EINTR is a turn without input.
handle_sigint == /\ signals < MaxSignals /\ pc # "ended"
                 /\ signals' = signals + 1 /\ g_interrupted' = TRUE
                 /\ UNCHANGED <<script, tty, input, query, pc, dropped, asked, parserVars>>

-----------------------------------------------------------------------------
(* read_input: poll asks the descriptor, fgets reads from stdio's buffer and  *)
(* refills it, from a terminal with one line, from a pipe with all there is. *)

Buffered == rest # <<>> \/ taken < fetched
\* Mutant: the end of the input is not asked for.
Ready_DataOnly == fetched < typed
\* Mutant: of what poll reports, only POLLHUP is taken for input.
Ready_HangUpOnly == eof
Ready    == fetched < typed \/ eof                \* poll; otherwise it times out
AtEof    == ~Buffered /\ fetched = typed          \* fgets returns NULL

Refill  == IF Buffered THEN fetched ELSE IF tty THEN fetched + 1 ELSE typed
Current == IF rest # <<>> THEN rest ELSE Append(script[taken + 1], Newline)
Piece   == UpTo(Current, LineSize)
line    == Without({Newline})[Piece]

Read == /\ pc = "input" /\ Ready /\ ~AtEof
        /\ fetched' = Refill
        /\ taken' = IF rest = <<>> THEN taken + 1 ELSE taken
        /\ rest' = SubSeq(Current, Len(Piece) + 1, Len(Current))
        /\ UNCHANGED <<script, tty, typed, eof, signals, parserVars>>

-----------------------------------------------------------------------------
(* repl_run.  The flag is looked at only when a read has returned.           *)

\* Mutant: the flag stays set.
Interrupted_FlagStays == /\ Read /\ g_interrupted
                         /\ query' = <<>> /\ asked' = <<>> /\ dropped' = dropped + 1
                         /\ UNCHANGED <<g_interrupted, pc>>

\* Mutant: the statement begun is kept.
Interrupted_KeepsQuery == /\ Read /\ g_interrupted /\ g_interrupted' = FALSE
                          /\ asked' = <<>> /\ dropped' = dropped + 1
                          /\ UNCHANGED <<query, pc>>

Interrupted == /\ Read /\ g_interrupted /\ g_interrupted' = FALSE
               /\ query' = <<>> /\ asked' = <<>> /\ dropped' = dropped + 1
               /\ UNCHANGED pc

EndOfInput == /\ pc = "input" /\ eof /\ AtEof
              /\ IF g_interrupted THEN query' = <<>> /\ asked' = <<>> /\ UNCHANGED pc
                 ELSE pc' = "ended" /\ UNCHANGED <<query, asked>>
              /\ g_interrupted' = FALSE
              /\ UNCHANGED <<script, tty, input, signals, dropped, parserVars>>

EmptyLine == /\ Read /\ ~g_interrupted /\ line = <<>>
             /\ UNCHANGED <<g_interrupted, query, pc, dropped, asked>>

Meta == {".exit", ".help", "show db"}
Exit == ".exit"

\* A command has a line of its own; a statement begun before stays in query.
MetaLine == /\ Read /\ ~g_interrupted /\ line # <<>> /\ line[1] \in Meta
            /\ line[1] = "show db" => Len(line) = 1
            /\ pc' = IF line = <<Exit>> THEN "ended" ELSE pc
            /\ UNCHANGED <<g_interrupted, query, dropped, asked>>

\* Lexemes with a ';' in them, and what stands before it.
QuotedSemicolon == "'x;y'"
CutQuote        == "'x"
ASSUME LexemesAssumption == {Newline, QuotedSemicolon, CutQuote} \subseteq Lexemes
HasSemicolon(x) == x \in {";", QuotedSemicolon}

UpToSemicolon(text) ==
  LET at1 == {i \in DOMAIN text : HasSemicolon(text[i]) /\ \A j \in 1..i-1 : ~HasSemicolon(text[j])}
  IN IF at1 = {} THEN text
     ELSE LET i == CHOOSE i \in at1 : TRUE
          IN SubSeq(text, 1, i - 1) \o IF text[i] = ";" THEN <<>> ELSE <<CutQuote>>

\* strncat joins the lines without a blank between them.
AppendLine ==
  /\ Read /\ ~g_interrupted /\ line # <<>>
  /\ line[1] \notin Meta \/ (line[1] = "show db" /\ Len(line) > 1)
  /\ IF \E x \in Range(line) : HasSemicolon(x)
     THEN /\ query' = UpToSemicolon(UpTo(query \o line, QuerySize)) /\ pc' = "dispatch"
          /\ asked' = UpToSemicolon(asked \o Piece)
     ELSE /\ query' = UpTo(query \o line, QuerySize) /\ UNCHANGED pc
          /\ asked' = asked \o Piece
  /\ UNCHANGED <<g_interrupted, dropped>>

-----------------------------------------------------------------------------
(* dispatch: classify by the first word.                                    *)

Words(text) == Without({" "})[text]
Start(text) == IF Words(text) = <<>> THEN None ELSE Words(text)[1]

SQL_KEYWORDS == {"SELECT", "INSERT", "UPDATE", "DELETE", "CREATE", "DROP", "USE", "BEGIN", "COMMIT"}

dispatch_sql == /\ pc = "dispatch" /\ Start(query) \in SQL_KEYWORDS
                /\ ParseStart(query) /\ pc' = "sql"
                /\ UNCHANGED <<script, tty, input, g_interrupted, query, signals, dropped, asked>>

\* CMD_EMPTY, CMD_META and CMD_UNKNOWN; the query is cleared.
dispatch_other == /\ pc = "dispatch" /\ Start(query) \notin SQL_KEYWORDS
                  /\ pc' = IF Words(query) = <<Exit>> /\ Last(query) = Exit THEN "ended" ELSE "input"
                  /\ query' = <<>> /\ asked' = <<>>
                  /\ UNCHANGED <<script, tty, input, g_interrupted, signals, dropped, parserVars>>

parse == /\ pc = "sql" /\ Parse
         /\ UNCHANGED <<script, tty, input, g_interrupted, query, pc, signals, dropped, asked>>

\* The statement runs, or its text was no statement; the query is cleared.
handle_sql == /\ pc = "sql" /\ Returned
              /\ pc' = "input" /\ at' = "off" /\ query' = <<>> /\ asked' = <<>>
              /\ tokens' = <<>> /\ pos' = 1 /\ intent' = NoIntent
              /\ UNCHANGED <<script, tty, input, g_interrupted, signals, dropped>>

repl_run == \/ Interrupted \/ EndOfInput \/ EmptyLine \/ MetaLine \/ AppendLine
            \/ dispatch_sql \/ dispatch_other \/ parse \/ handle_sql

Ended == pc = "ended" /\ UNCHANGED vars

Next == UserTypes \/ UserCloses \/ handle_sigint \/ repl_run \/ Ended

\* The process is scheduled, and poll returns after 200 ms at the latest.
Spec == Init /\ [][Next]_vars /\ WF_vars(repl_run)

-----------------------------------------------------------------------------
(* Properties.                                                              *)

ReplTypeOK ==
  /\ script \in Scripts /\ tty \in BOOLEAN /\ eof \in BOOLEAN /\ g_interrupted \in BOOLEAN
  /\ taken <= fetched /\ fetched <= typed /\ typed <= Len(script)
  /\ pc \in PC /\ (pc = "sql" <=> at # "off")
  /\ Len(query) <= QuerySize /\ Len(tokens) <= MAX_TOKENS
  /\ Len(intent.values) <= MAX_VALUES /\ Len(intent.columns) <= MAX_COLUMNS
  /\ signals \in 0..MaxSignals

(* The text of a statement, as the help of the shell prints it.             *)
List(items)  == FlattenSeq([j \in DOMAIN items |-> IF j = 1 THEN items[j] ELSE <<",">> \o items[j]])
Commas(list) == List([j \in DOMAIN list |-> <<list[j]>>])
Where(w)     == IF w = <<>> THEN <<>> ELSE <<"WHERE", w[1], "=", w[2]>>
Sql(i) ==
  CASE i.type \in {"BEGIN", "COMMIT"} -> <<i.type>>
    [] i.type = "USE"    -> <<"USE", i.name>>
    [] i.type = "SELECT" -> <<"SELECT">> \o Commas(i.columns) \o <<"FROM", i.name>> \o Where(i.where)
    [] i.type = "INSERT" -> <<"INSERT", "INTO", i.name, "VALUES", "(">> \o Commas(i.values) \o <<")">>
    [] i.type = "UPDATE" -> <<"UPDATE", i.name, "SET", i.set[1], "=", i.set[2]>> \o Where(i.where)
    [] i.type = "DELETE" -> <<"DELETE", "FROM", i.name>> \o Where(i.where)
    [] i.type = "CREATE DATABASE" -> <<"CREATE", "DATABASE", i.name>>
    [] i.type = "CREATE TABLE" -> <<"CREATE", "TABLE", i.name, "(">> \o List(i.columns) \o <<")">>
    [] i.type = "DROP TABLE" -> <<"DROP", "TABLE", i.name>>

(* What was typed is the text of i, fits the buffers, and no line ends in a   *)
(* word that the next one would continue.                                   *)
Typed(text)  == Without({" ", Newline})[text]
Fits(text)   == /\ Len(Typed(text)) < MAX_TOKENS
                /\ Len(Without({Newline})[text]) < QuerySize
Apart(text)  == \A j \in 2..Len(text) - 1 : text[j] = Newline => ~Joins(text[j - 1], text[j + 1])
Texts        == [i \in Intents |-> Sql(i)]
Meanings     == [t \in Range(Texts) |-> {i \in Intents : Texts[i] = t}]
Plain        == Fits(asked) /\ Apart(asked)
WellFormed   == Plain /\ Typed(asked) \in Range(Texts)

(* A statement becomes what its user typed, over however many lines and pieces *)
(* it came, whatever was typed, cut off or interrupted before it, and with    *)
(* its WHERE: an UPDATE or DELETE that lost it would change every row.       *)
IntentAsTyped == pc = "sql" /\ Returned /\ WellFormed =>
                   at = "ok" /\ Meanings[Typed(asked)] = {intent}

(* And it does come to its intent: no text of a statement keeps the parser's  *)
(* loops from ending, or is taken for something else by dispatch.            *)
StatementParsed == pc = "dispatch" /\ WellFormed ~> at = "ok"

(* A signal costs one piece of input at most, and the statement begun.        *)
InterruptTakesOne == dropped <= signals

(* After the end of the input the shell ends, having read everything, unless  *)
(* a list that does not parse keeps it in the parser for ever.               *)
SessionEnds == eof ~> (pc = "ended" \/ []Parsing)

(* A terminal's lines are answered without waiting for the next one to be     *)
(* typed, if they fit the buffer of fgets.                                  *)
Short     == \A n \in DOMAIN script : Len(script[n]) < LineSize
Waiting   == fetched < typed \/ Buffered
TtyAnswers == tty /\ Short /\ Waiting ~> (~Waiting \/ pc = "ended" \/ []Parsing)
=============================================================================
