------------------------------ MODULE SqlParser ------------------------------
(***************************************************************************)
(* From the text of a statement to its intent: src/parser/lexer/lexer.c and  *)
(* src/parser/parser.c.  A text is a sequence of lexemes.  A step is one     *)
(* turn of a loop, or the code up to the next loop.                         *)
(***************************************************************************)
EXTENDS Naturals, FiniteSets, SequencesExt

CONSTANTS
  Ident, Number, String,   \* the words, numbers and quoted strings users type
  Lexemes,                 \* whatever a line may be made of
  MAX_TOKENS,              \* 128
  MAX_VALUES, MAX_COLUMNS  \* 32

VARIABLES
  at,       \* where parse is; "off": not running
  tokens,   \* the TokenList
  pos,      \* p->pos, from 1
  intent    \* *intent

parserVars == <<at, tokens, pos, intent>>

Values == Ident \cup Number \cup String
None   == ""
NoIntent == [type |-> "UNKNOWN", name |-> None, columns |-> <<>>, values |-> <<>>,
             set |-> <<>>, where |-> <<>>]

-----------------------------------------------------------------------------
(* The lexer.  A word goes on as long as letters and digits follow, so that   *)
(* words with nothing between them are one; a character it does not know is   *)
(* skipped; and beyond MAX_TOKENS every token is dropped, TOKEN_EOF included. *)
Keyword == {"SELECT", "INSERT", "UPDATE", "DELETE", "CREATE", "DROP", "TABLE", "INTO", "FROM",
            "WHERE", "SET", "VALUES", "AND", "USE", "BEGIN", "COMMIT"}
Skipped == {"?", " "}

\* What two words, or two numbers, in a row are read as.
LongWord   == "longword"
LongNumber == "123"

IsWord(x) == x \in Keyword \cup Ident
Joins(x, y) == (IsWord(x) /\ (IsWord(y) \/ y \in Number)) \/ (x \in Number /\ y \in Number)

\* Lexeme i belongs to a word, whose first letters may stand before it; and it
\* goes on with the token of the lexeme before it.
InWord(text, i) ==
  \E j \in 1..i : /\ IsWord(text[j])
                  /\ \A k \in j + 1..i : IsWord(text[k]) \/ text[k] \in Number
GoesOn(text, i) ==
  /\ i \in 2..Len(text)
  /\ Joins(text[i - 1], text[i]) \/ (InWord(text, i - 1) /\ InWord(text, i))

\* The token that begins at lexeme i, or nothing.
Token(text, i) == IF GoesOn(text, i) THEN " "
                  ELSE IF ~GoesOn(text, i + 1) THEN text[i]
                  ELSE IF InWord(text, i) THEN LongWord ELSE LongNumber

UpTo(list, max) == SubSeq(list, 1, IF Len(list) < max THEN Len(list) ELSE max)

\* Texts without what is in out.  (SelectSeq, as a function that proofs can unfold.)
Without(out) == [text \in Seq(Lexemes) |->
  LET kept[n \in 0..Len(text)] == IF n = 0 THEN <<>>
                                  ELSE IF text[n] \in out THEN kept[n - 1]
                                  ELSE Append(kept[n - 1], text[n])
  IN kept[Len(text)]]

lexer_tokenize(text) ==
  LET read == [i \in DOMAIN text |-> Token(text, i)]
  IN UpTo(Append(Without(Skipped)[read], "EOF"), MAX_TOKENS)

ASSUME ParserAssumption ==
  /\ MAX_TOKENS \in Nat \ {0} /\ MAX_VALUES \in Nat /\ MAX_COLUMNS \in Nat \ {0}
  /\ {"DATABASE", LongWord} \subseteq Ident /\ LongNumber \in Number
  /\ Keyword \cup Skipped \cup Values \cup {"*", ";", "EOF"} \subseteq Lexemes
  /\ Ident \cap (Number \cup String) = {} /\ Keyword \cap Ident = {}

\* A keyword or a punctuation mark is its own type.
Type(x) == IF x \in Ident THEN "IDENT" ELSE IF x \in Values THEN "VALUE" ELSE x

\* The token n places ahead; behind the end of the list it is the last one.
Ahead(n)    == tokens[IF pos + n <= Len(tokens) THEN pos + n ELSE Len(tokens)]
check(type) == Type(Ahead(0)) = type
IsValue     == Ahead(0) \in Values

\* A row of expect calls that all find their token.
Expects(types) == \A i \in DOMAIN types : Type(Ahead(i - 1)) = types[i]

\* pos grows behind the end of the list, where it makes no difference.
Moved(n) == IF pos + n <= Len(tokens) + 1 THEN pos + n ELSE Len(tokens) + 1
Skip(n)  == pos' = Moved(n)

-----------------------------------------------------------------------------
Finish(result) == at' = result /\ UNCHANGED <<tokens, pos>>
Fail == Finish("error") /\ UNCHANGED intent

\* parse up to the switch: memset and the lexer.
ParseStart(text) == /\ at' = "first"
                    /\ tokens' = lexer_tokenize(text) /\ pos' = 1
                    /\ intent' = NoIntent

\* The switch on the first token.
Clause == [SELECT |-> "select", INSERT |-> "insert", UPDATE |-> "update",
           DELETE |-> "delete", CREATE |-> "create", DROP |-> "drop"]

ParseFirst ==
  /\ at = "first"
  /\ \/ /\ Ahead(0) \in {"BEGIN", "COMMIT"}
        /\ intent' = [NoIntent EXCEPT !.type = Ahead(0)] /\ Finish("ok")
     \/ /\ Ahead(0) \in DOMAIN Clause
        /\ at' = Clause[Ahead(0)] /\ Skip(1) /\ UNCHANGED <<tokens, intent>>
     \/ /\ Ahead(0) = "USE"
        /\ IF Type(Ahead(1)) = "IDENT"
           THEN intent' = [NoIntent EXCEPT !.type = "USE", !.name = Ahead(1)] /\ Finish("ok")
           ELSE Fail
     \/ Ahead(0) \notin DOMAIN Clause \cup {"BEGIN", "COMMIT", "USE"} /\ Fail

\* parse_where at the n-th token ahead: <<>> unless a column and a value follow.
parse_where(n) ==
  LET eq == IF Type(Ahead(n + 2)) = "=" THEN 1 ELSE 0
  IN IF Ahead(n) = "WHERE" /\ Type(Ahead(n + 1)) = "IDENT" /\ Ahead(n + 2 + eq) \in Values
     THEN <<Ahead(n + 1), Ahead(n + 2 + eq)>>
     ELSE <<>>

-----------------------------------------------------------------------------
(* parse_select, with the loop over the column names.                       *)

ParseSelect ==
  /\ at = "select"
  /\ \/ check("*") /\ Skip(1) /\ at' = "from" /\ intent' = [intent EXCEPT !.columns = <<"*">>]
     \/ check("IDENT") /\ at' = "columns" /\ UNCHANGED <<pos, intent>>
     \/ ~check("*") /\ ~check("IDENT") /\ at' = "from" /\ UNCHANGED <<pos, intent>>
  /\ UNCHANGED tokens

SelectColumn ==
  /\ at = "columns"
  /\ IF check("IDENT")
     THEN /\ intent' = IF Len(intent.columns) < MAX_COLUMNS
                       THEN [intent EXCEPT !.columns = Append(@, Ahead(0))] ELSE intent
          /\ IF Type(Ahead(1)) = "," THEN Skip(2) /\ at' = at ELSE Skip(1) /\ at' = "from"
     ELSE at' = "from" /\ UNCHANGED <<pos, intent>>
  /\ UNCHANGED tokens

SelectFrom ==
  /\ at = "from"
  /\ IF Expects(<<"FROM", "IDENT">>)
     THEN /\ intent' = [intent EXCEPT !.type = "SELECT", !.name = Ahead(1),
                                      !.where = parse_where(2)]
          /\ Finish("ok")
     ELSE Fail

-----------------------------------------------------------------------------
(* parse_insert, with the loop over the values.                             *)

ParseInsert ==
  /\ at = "insert"
  /\ IF Expects(<<"INTO", "IDENT", "VALUES", "(">>)
     THEN /\ intent' = [intent EXCEPT !.type = "INSERT", !.name = Ahead(1)]
          /\ Skip(4) /\ at' = "values" /\ UNCHANGED tokens
     ELSE Fail

\* Mutant: the ")" does not end the list.
InList_OnlyEof == ~check("EOF")
InList == ~check(")") /\ ~check("EOF")

\* A comma n tokens ahead is passed too.
SkipWithComma(n) == IF Type(Ahead(n)) = "," THEN Skip(n + 1) ELSE Skip(n)

\* Mutant: value_count is not compared with MAX_VALUES.
InsertValue_Unbounded ==
  /\ at = "values" /\ InList
  /\ IF IsValue
     THEN /\ intent' = [intent EXCEPT !.values = Append(@, Ahead(0))]
          /\ SkipWithComma(1)
     ELSE SkipWithComma(0) /\ UNCHANGED intent
  /\ UNCHANGED <<at, tokens>>

\* A token that is neither a value nor a comma is not passed.
InsertValue ==
  /\ at = "values" /\ InList
  /\ IF IsValue
     THEN /\ intent' = IF Len(intent.values) < MAX_VALUES
                       THEN [intent EXCEPT !.values = Append(@, Ahead(0))] ELSE intent
          /\ SkipWithComma(1)
     ELSE SkipWithComma(0) /\ UNCHANGED intent
  /\ UNCHANGED <<at, tokens>>

\* parse_insert and parse_create return OK without their ")" as well.
ListEnds == /\ at \in {"values", "definitions"} /\ ~InList
            /\ Finish("ok") /\ UNCHANGED intent

-----------------------------------------------------------------------------
(* parse_update and parse_delete.                                           *)

ParseUpdate ==
  /\ at = "update"
  /\ IF Expects(<<"IDENT", "SET", "IDENT">>)
     THEN LET eq    == IF Type(Ahead(3)) = "=" THEN 1 ELSE 0
              given == Ahead(3 + eq) \in Values
          IN /\ intent' = [intent EXCEPT
                  !.type = "UPDATE", !.name = Ahead(0),
                  !.set = <<Ahead(2), IF given THEN Ahead(3 + eq) ELSE None>>,
                  !.where = parse_where(3 + eq + IF given THEN 1 ELSE 0)]
             /\ Finish("ok")
     ELSE Fail

ParseDelete ==
  /\ at = "delete"
  /\ IF Expects(<<"FROM", "IDENT">>)
     THEN /\ intent' = [intent EXCEPT !.type = "DELETE", !.name = Ahead(1),
                                      !.where = parse_where(2)]
          /\ Finish("ok")
     ELSE Fail

-----------------------------------------------------------------------------
(* parse_create, with the loop over the column definitions, and parse_drop.  *)

ParseCreate ==
  /\ at = "create"
  /\ IF Ahead(0) = "DATABASE"
     THEN IF Type(Ahead(1)) = "IDENT"
          THEN intent' = [intent EXCEPT !.type = "CREATE DATABASE", !.name = Ahead(1)] /\ Finish("ok")
          ELSE Fail
     ELSE IF Expects(<<"TABLE", "IDENT", "(">>)
          THEN /\ intent' = [intent EXCEPT !.type = "CREATE TABLE", !.name = Ahead(1)]
               /\ Skip(3) /\ at' = "definitions" /\ UNCHANGED tokens
          ELSE Fail

\* A name and a type; a name alone is passed and forgotten; anything else but
\* a comma is not passed.
CreateColumn ==
  /\ at = "definitions" /\ InList
  /\ IF Expects(<<"IDENT", "IDENT">>)
     THEN /\ intent' = IF Len(intent.columns) < MAX_COLUMNS
                       THEN [intent EXCEPT !.columns = Append(@, <<Ahead(0), Ahead(1)>>)] ELSE intent
          /\ SkipWithComma(2)
     ELSE SkipWithComma(IF check("IDENT") THEN 1 ELSE 0) /\ UNCHANGED intent
  /\ UNCHANGED <<at, tokens>>

ParseDrop ==
  /\ at = "drop"
  /\ IF Expects(<<"TABLE", "IDENT">>)
     THEN intent' = [intent EXCEPT !.type = "DROP TABLE", !.name = Ahead(1)] /\ Finish("ok")
     ELSE Fail

Parse == \/ ParseFirst \/ ParseSelect \/ SelectColumn \/ SelectFrom
         \/ ParseInsert \/ InsertValue \/ ListEnds
         \/ ParseUpdate \/ ParseDelete
         \/ ParseCreate \/ CreateColumn \/ ParseDrop

Parsing  == at \notin {"off", "ok", "error"}
Returned == at \in {"ok", "error"}
=============================================================================
