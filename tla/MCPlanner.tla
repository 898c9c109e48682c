----------------------------- MODULE MCPlanner -----------------------------
(***************************************************************************)
(* Small queries for Planner: one, two and three tables of up to three     *)
(* rows, every type of join, ON predicates over both tables, over one or   *)
(* over none, WHERE predicates that fold, push left, right or not at all,  *)
(* qualified and bare names.  And, with the constants of the program, a    *)
(* chain of four tables whose sizes make an order lose a predicate.        *)
(***************************************************************************)
EXTENDS Planner

MCIntCell == {ToString(n) : n \in 0..200}
MCNumCell == MCIntCell \cup {"1.0"}
MCCell == MCNumCell \cup {"", "a"}
MCValue == [c \in MCNumCell |->
    IF c = "1.0" THEN 10 ELSE 10 * (CHOOSE n \in 0..200 : ToString(n) = c)]
MCTextRank == [c \in MCCell |->
    CASE c = "" -> 0 [] c = "a" -> 999 [] c = "1.0" -> 15
      [] OTHER -> MCValue[c] + 1]

MCSchema == ("ta" :> {"id", "x"}) @@ ("tb" :> {"id", "y"}) @@ ("tc" :> {"id", "z"})

\* Rows as pairs: the first column is id, the second the table's other one.
Content(second, pairs) ==
    [r \in DOMAIN pairs |-> ("id" :> pairs[r][1]) @@ (second :> pairs[r][2])]
Contents(a, b, c) ==
    ("ta" :> Content("x", a)) @@ ("tb" :> Content("y", b)) @@ ("tc" :> Content("z", c))

MCDatabases == {
    Contents(<< <<"1", "1">>, <<"2", "">> >>, << <<"1", "2">>, <<"3", "1">> >>, << <<"2", "1">> >>),
    Contents(<< <<"1", "2">> >>, << <<"1", "1">>, <<"1", "2">>, <<"2", "1.0">> >>,
             << <<"1", "1">>, <<"3", "2">> >>),
    Contents(<<>>, << <<"2", "1">> >>, << <<"2", "2">>, <<"1", "1">> >>)}

Col(q, n) == [e |-> "col", name |-> Name(q, n)]
Lit(v) == [e |-> "lit", v |-> v]
Cmp(op, a, b) == [e |-> "cmp", op |-> op, a |-> a, b |-> b]
In(a, items) == [e |-> "in", a |-> a, items |-> items]
Or(p, q) == [e |-> "OR", a |-> p, b |-> q]
Not(p) == [e |-> "NOT", a |-> p]
Exists(v) == [e |-> "sub", v |-> v]

AId == Col("ta", "id")
BId == Col("tb", "id")
CId == Col("tc", "id")
X == Col("ta", "x")
Y == Col("tb", "y")

True1 == Cmp("=", Lit("1"), Lit("1"))
OneIsOne == Cmp("=", Lit("1"), Lit("1.0"))
Never == Cmp("<", Lit("2"), Lit("1"))

Wheres == {
    None, True1, Never, OneIsOne,
    And(Cmp("=", AId, Lit("1")), True1), Or(Never, Cmp("#", X, Lit("1"))),
    And(Cmp("=", AId, Lit("1")), Not(In(X, <<Lit("2"), Lit("")>>))),
    And(Never, Cmp("=", AId, Lit("1"))), Not(Or(Never, Cmp("=", X, Lit("1")))),
    Cmp("=", X, Lit("1.0")), And(Cmp("=", X, Lit("1.0")), Exists(TRUE)),
    Cmp("=", Col("", "x"), Lit("1")), Cmp("=", Col("ta", "y"), Lit(""))}

WheresOfTwo == Wheres \cup {
    And(Cmp("=", AId, Lit("1")), Cmp(">", Y, Lit("1"))),
    And(Cmp("<=", X, Y), In(BId, <<Lit("1"), Lit("3")>>)),
    And(Cmp("=", Y, Lit("")), And(Exists(FALSE), Cmp("=", X, Lit("")))),
    Cmp("=", Y, Lit("")), Cmp("=", Col("", "y"), Lit("1"))}

Ons == {Cmp("=", AId, BId), Cmp("=", Lit("1"), AId), Cmp("=", Y, Lit("1")),
        And(Cmp("=", AId, BId), Cmp("#", X, Y)), Cmp("=", Col("", "x"), Y), True1}
OnsOfThree == {Cmp("=", BId, CId), Cmp("=", AId, Lit("2")), Cmp("<", AId, CId)}

Reads == {{Name("ta", "id")}, {Name("ta", "x"), Name("tb", "y")}, {Name("", "y")}}

Named(t) == [table |-> t, as |-> t]
Joined(type, on) == [type |-> type, on |-> on]

OfOne == [tables : {<<Named("ta")>>, << [table |-> "ta", as |-> "u"] >>}, joins : {<<>>},
          where : Wheres, reads : {{Name("ta", "id")}, {Name("", "x")}, {Name("u", "x")}},
          star : {FALSE}]

OfTwo ==
    [tables : {<<Named("ta"), Named("tb")>>},
     joins : {<<Joined(type, on)>> : type \in {"INNER", "LEFT", "RIGHT", "FULL"}, on \in Ons}
             \cup {<<Joined("CROSS", None)>>},
     where : WheresOfTwo, reads : Reads, star : {FALSE}]
    \cup [tables : {<<Named("ta"), Named("tb")>>},
          joins : {<<Joined("LEFT", Cmp("=", AId, BId))>>},
          where : WheresOfTwo, reads : {{}}, star : {TRUE}]

OfThree ==
    [tables : {<<Named("ta"), Named("tb"), Named("tc")>>},
     joins : {<<Joined(t1, on1), Joined(t2, on2)>> :
                t1 \in {"INNER", "LEFT"}, t2 \in {"INNER", "RIGHT"},
                on1 \in {Cmp("=", AId, BId), Cmp("=", Y, Lit("1"))}, on2 \in OnsOfThree},
     where : {None, And(Cmp("=", Y, Lit("1")), Cmp("=", CId, Lit("2"))),
              And(Cmp("#", AId, CId), Cmp("=", X, Lit("1")))},
     reads : {{Name("ta", "x"), Name("tc", "z")}}, star : {FALSE}]

MCQueries == OfOne \cup OfTwo \cup OfThree

\* ta JOIN tb ON ta.k = tb.k JOIN tc ON tb.k = tc.k JOIN td ON ta.k = 3, over
\* 5, 40, 8 and 200 rows numbered from 1.
ChainSchema == [t \in {"ta", "tb", "tc", "td"} |-> {"k"}]
Numbered(n) == [r \in 1..n |-> ("k" :> ToString(r))]
ChainDatabases == {("ta" :> Numbered(5)) @@ ("tb" :> Numbered(40)) @@ ("tc" :> Numbered(8))
                   @@ ("td" :> Numbered(200))}
K(q) == Col(q, "k")
ChainQueries ==
    [tables : {<<Named("ta"), Named("tb"), Named("tc"), Named("td")>>},
     joins : {<<Joined("INNER", Cmp("=", K("ta"), K("tb"))),
                Joined("INNER", Cmp("=", K("tb"), K("tc"))),
                Joined("INNER", Cmp("=", K("ta"), Lit("3")))>>},
     where : {None}, reads : {{Name("td", "k")}}, star : {FALSE}]
=============================================================================
