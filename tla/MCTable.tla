------------------------------- MODULE MCTable -------------------------------
(* Instances of Table for TLC: tables of two pages as earlier statements may  *)
(* leave them, one with all keys different, the others with few keys and     *)
(* deleted rows.  Two of the values are no numbers: their key is 0.          *)
EXTENDS Table

CONSTANT FewValues   \* the values of the tables in which keys repeat

Digits == <<"1", "2", "3", "4">>
MCAtoi == [v \in Values |-> IF \E d \in DOMAIN Digits : Digits[d] = v
                           THEN CHOOSE d \in DOMAIN Digits : Digits[d] = v ELSE 0]

Contents(n, m, values) == {<<p, q>> : p \in [1..n -> values], q \in [1..m -> values]}

MCTables == {t \in Contents(3, 1, {Row(v) : v \in Values \ NewValues}) : Unique(t)}
              \cup Contents(2, 1, {Dead} \cup {Row(v) : v \in FewValues \cup NewValues})
              \cup Contents(4, 1, {Row(v) : v \in FewValues})

\* Seven rows, four of them with one key.
EqualKeys == {<<<<Row("3"), Row("3"), Row("3"), Row("3")>>, <<Row("4"), Row("2"), Row("1")>>>>}

\* A table without a column of type INT.
Texts == <<"TEXT", "TEXT">>
=============================================================================
