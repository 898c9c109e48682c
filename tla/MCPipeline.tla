---------------------------- MODULE MCPipeline ----------------------------
(***************************************************************************)
(* Small statements for Pipeline: inputs of up to three rows of two        *)
(* columns g and v, with every kind of cell, and the clauses over them.    *)
(* Numbers are counted in twelfths, so that an average of up to three      *)
(* cells is a whole number of them.                                        *)
(***************************************************************************)
EXTENDS Pipeline

CONSTANTS
    MaxNumber,        \* bound: the largest number that is spelled, in twelfths
    MaxLong           \* bound: the largest integer strtoll holds here, in twelfths

MCOne == 12

Fraction == <<"", ".083333", ".166667", ".25", ".333333", ".416667",
              ".5", ".583333", ".666667", ".75", ".833333", ".916667">>
MCSpell == [n \in 0..MaxNumber |-> ToString(n \div 12) \o Fraction[(n % 12) + 1]]

Twelfths == 0..MaxNumber
MCIntCell == {MCSpell[n] : n \in {m \in Twelfths : m <= MaxLong /\ m % 12 = 0}}
MCLongCell == {MCSpell[n] : n \in {m \in Twelfths : m > MaxLong /\ m % 12 = 0}}
MCNumCell == {MCSpell[n] : n \in Twelfths}
MCRangeCell == {"1e9999"}
MCCell == MCNumCell \cup MCRangeCell \cup {"", "a", "b"}
NumberOf == [c \in MCNumCell |-> CHOOSE n \in Twelfths : MCSpell[n] = c]
MCValue == NumberOf

\* The order of texts: a point sorts before a digit, a digit before e.
NumberRank(n) ==
    LET i == n \div 12 IN
    1 + (IF i < 10 THEN 1000 * i + (n % 12)
         ELSE 1000 * (i \div 10) + 100 + 12 * (i % 10) + (n % 12))
MCTextRank == [c \in MCCell |->
    CASE c = "" -> 0 [] c = "1e9999" -> 1999 [] c = "a" -> 90000 [] c = "b" -> 90001
      [] OTHER -> NumberRank(NumberOf[c])]

G == <<"col", "g">>
V == <<"col", "v">>
Row(g, v) == (G :> g) @@ (V :> v)
RowsOf(cells, n) == UNION {[1..m -> {Row(g, v) : g \in {"a", "b"}, v \in cells}] : m \in 0..n}

No == [name |-> Absent, op |-> "none", lit |-> ""]
Is(name, op, lit) == [name |-> name, op |-> op, lit |-> lit]

Statement(where, groupBy, having, orderBy, asc, limit, select, distinct, input, errno) ==
    [where : where, groupBy : groupBy, having : having, orderBy : orderBy, asc : asc,
     limit : limit, select : select, distinct : distinct, input : input, overflow : errno]

\* Scan, filter, sort, limit, projection, distinct.
Plain ==
    Statement({No, Is(V, ">=", "2"), Is(G, "=", "a")}, {<<>>}, {No}, {Absent, V},
              {FALSE}, {-1, 1}, {<<G>>, <<Star>>}, BOOLEAN,
              RowsOf({"9", "10.5", "1e9999"}, 2) \cup RowsOf({"", "a", "9", "10.5"}, 2),
              BOOLEAN)

LongPlain ==
    Statement({No, Is(V, "#", "2")}, {<<>>}, {No}, {Absent, V}, {TRUE}, {1, 2, -1},
              {<<G>>}, {TRUE}, RowsOf({"10.5", "2", "1e9999"}, 3), {FALSE})

Grouped ==
    Statement({No, Is(V, "#", "2")}, {<<>>, <<G>>},
              {No, Is(<<"AVG", "v">>, ">", "9"), Is(<<"COUNT", "*">>, ">=", "2"), Is(V, "#", "")},
              {Absent, <<"SUM", "v">>, G}, {FALSE}, {-1},
              {<< <<"COUNT", "*">>, <<"MIN", "v">>, G>>,
               << <<"MAX", "v">>, <<"AVG", "v">> >>,
               << <<"COUNT_DISTINCT", "v">>, <<"COUNT", "v">>, <<"MIN", "v">> >>},
              {FALSE}, RowsOf({"", "2", "10.5", "a"}, 2), {FALSE})

LongGrouped ==
    Statement({No}, {<<G>>, <<>>}, {No, Is(<<"MIN", "v">>, "<", "9")}, {Absent, <<"MAX", "v">>},
              {TRUE}, {-1},
              {<<G, <<"MIN", "v">>, <<"SUM", "v">>, <<"COUNT_DISTINCT", "v">> >>},
              BOOLEAN, RowsOf({"", "2", "10.5"}, 3), {FALSE})

Odd ==
    Statement({No}, {<<>>, <<G>>}, {No, Is(<<"col", "w">>, "=", "2"), Is(V, "=", "2")}, {Absent, <<"col", "w">>},
              {TRUE}, {-1, 0}, {<< <<"col", "w">> >>, <<G>>, << <<"COUNT", "w">> >>},
              {FALSE}, RowsOf({"2", "a"}, 2), {FALSE})

MCQueries == Plain \cup LongPlain \cup Grouped \cup LongGrouped \cup Odd
=============================================================================
