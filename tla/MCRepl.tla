------------------------------- MODULE MCRepl -------------------------------
(* Instances of Repl for TLC: sessions of up to three lines out of a few, and  *)
(* every statement that begins well and goes on anyhow.                      *)
EXTENDS Repl

\* Blanks only where two words would become one.
Spaced(list) == FlattenSeq([j \in DOMAIN list |->
  IF j > 1 /\ Joins(list[j - 1], list[j]) THEN <<" ", list[j]>> ELSE <<list[j]>>])

End(list) == Append(Spaced(list), ";")

Lines == { <<"DELETE">>,
           Spaced(<<"UPDATE", "a", "SET", "a", "=", "a">>),
           Spaced(<<"DELETE", "FROM", "a">>),
           <<" ">> \o End(<<"FROM", "a">>),
           <<" ">> \o End(<<"WHERE", "a", "=", "1">>),
           End(<<"WHERE", "a", "=", "'x;y'">>),
           End(<<"CREATE", "TABLE", "a", "(", "a", "a", ",", "a", "a", ")">>) }

MoreLines == Lines \cup { <<".exit">>, <<>>, <<";">>, <<"?", ";">>, <<".help">>, <<"show db">>, <<" ", ".exit", ";">> }

Alphabet == {"a", "1", ",", ")", "=", "WHERE"}
Endings(n) == UNION {[1..m -> Alphabet] : m \in 0..n}

Beginnings == { <<"SELECT", "*">>, <<"SELECT">>, <<"SELECT", "a", "FROM">>, <<"SELECT", "*", "FROM", "a">>,
              <<"UPDATE">>, <<"UPDATE", "a", "SET", "a">>, <<"UPDATE", "a", "SET", "a", "=", "a", "WHERE", "a">>,
              <<"DELETE">>, <<"DELETE", "FROM">>, <<"DELETE", "FROM", "a", "WHERE">>,
              <<"CREATE">>, <<"CREATE", "DATABASE">>, <<"DROP", "TABLE">>, <<"DROP">>, <<"USE">>,
              <<"BEGIN">>, <<"INSERT">> }

Started == {End(p \o q) : p \in Beginnings, q \in Endings(2)}
             \cup {End(<<"INSERT", "INTO", "a", "VALUES", "(">> \o q) : q \in Endings(3)}
             \cup {End(<<"INSERT", "INTO", "a", "VALUES", "(", "1", ",">> \o q) : q \in Endings(2)}
             \cup {End(<<"CREATE", "TABLE", "a", "(">> \o q) : q \in Endings(3)}

MCScripts == [1..3 -> Lines] \cup [1..2 -> MoreLines] \cup {<<l>> : l \in Started}

MCLexemes == Keyword \cup Skipped \cup Values \cup Meta
               \cup {"*", ",", "(", ")", "=", ";", "EOF", Newline, QuotedSemicolon, CutQuote}

Names   == {"a"}
Vals    == {"a", "1", "'x'"}
Lists(n, set) == UNION {[1..m -> set] : m \in 1..n}
Wheres  == {<<>>} \cup {<<c, v>> : c \in Names, v \in Vals}
Of(t)   == [NoIntent EXCEPT !.type = t, !.name = "a"]
MCIntents ==
  {[NoIntent EXCEPT !.type = "BEGIN"], [NoIntent EXCEPT !.type = "COMMIT"],
   Of("USE"), Of("CREATE DATABASE"), Of("DROP TABLE")}
    \cup {[Of("SELECT") EXCEPT !.columns = c, !.where = w] : c \in {<<"*">>} \cup Lists(MAX_COLUMNS, Names), w \in Wheres}
    \cup {[Of("DELETE") EXCEPT !.where = w] : w \in Wheres}
    \cup {[Of("UPDATE") EXCEPT !.set = <<"a", v>>, !.where = w] : v \in Vals, w \in Wheres}
    \cup {[Of("INSERT") EXCEPT !.values = v] : v \in Lists(MAX_VALUES, Vals)}
    \cup {[Of("CREATE TABLE") EXCEPT !.columns = c] : c \in Lists(MAX_COLUMNS, {<<"a", "a">>})}
=============================================================================
