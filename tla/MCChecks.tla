------------------------------ MODULE MCChecks ------------------------------
(***************************************************************************)
(* Small tables for Checks: two columns, every clause and table            *)
(* constraint, and CHECKs of every shape: comparisons, ranges and lists    *)
(* with literals and with columns, alone and joined by AND and OR, with    *)
(* and without parentheses, on the column they begin with and on another.  *)
(* String literals are only used in lists, the one place where a literal   *)
(* made of others is taken apart again by a rename.                        *)
(***************************************************************************)
EXTENDS Checks

MCNumbers == {"0", "1", "5", "007", "12"}
MCJsonNumber == MCNumbers \ {"007"}
MCStrings == {"x", "y", "z"}
MCNames == {"a", "b"}
MCWords == MCNumbers \cup MCStrings \cup {"", "a", "b", "c"}
MCValue == ("0" :> 0) @@ ("1" :> 1) @@ ("5" :> 5) @@ ("007" :> 7) @@ ("12" :> 12)
MCTextRank == ("" :> 0) @@ ("0" :> 1) @@ ("007" :> 2) @@ ("1" :> 3) @@ ("12" :> 4) @@ ("5" :> 5)
              @@ ("a" :> 6) @@ ("b" :> 7) @@ ("c" :> 8) @@ ("x" :> 9) @@ ("y" :> 10) @@ ("z" :> 11)

MCRows == {[n \in {"a", "b"} |-> IF n = "a" THEN v ELSE w] :
            v \in {"1", "12", "x"}, w \in {"", "1", "5"}}

Cmp(c, op, v) == [p |-> "cmp", c |-> c, op |-> op, v |-> v]
Between(c, lo, hi) == [p |-> "between", c |-> c, lo |-> lo, hi |-> hi]
In(c, items) == [p |-> "in", c |-> c, negated |-> FALSE, items |-> items]
NotIn(c, items) == [p |-> "in", c |-> c, negated |-> TRUE, items |-> items]
And(ps) == <<ps>>
Or(ps) == [k \in DOMAIN ps |-> <<ps[k]>>]
One(p) == And(<<p>>)
All(ps) == <<And(ps)>>
Either(ps) == <<Or(ps)>>
Only(p) == <<One(p)>>
XY == <<Str("x"), Str("y")>>
Zero == Cmp("a", ">=", Num("0"))
Five == Cmp("a", "<=", Num("5"))

Seven == Num("007")

\* Two in parentheses.
BothIn == <<One(Zero), One(Five), And(<<Paren(1), Paren(2)>>)>>

MCExpressions == {
    Only(Cmp("a", "<=", Seven)), All(<<Cmp("a", "<=", Seven), Zero>>), Only(Cmp("b", "#", Seven)),
    Only(Between("a", Num("0"), Seven)), Only(Between("a", Seven, Num("12"))), Only(In("a", <<Seven, Num("1")>>)),
    All(<<Between("a", Num("0"), Seven), Cmp("b", "=", Num("1"))>>),
    All(<<Between("a", Str("x"), Str("y")), Cmp("a", "<=", Seven)>>),
    Only(Zero), Only(Cmp("a", "#", Id("b"))), Only(Cmp("b", "=", Num("1"))), Only(Cmp("a", "=", Str("x"))),
    All(<<Zero, Five>>), Either(<<Cmp("a", "=", Num("1")), Cmp("a", "=", Num("12"))>>),
    Either(<<Cmp("b", "=", Num("1")), Cmp("a", "=", Num("1"))>>),
    Only(Between("a", Num("0"), Num("5"))), Only(Between("a", Num("0"), Id("b"))),
    All(<<Between("a", Num("0"), Num("5")), Cmp("b", "=", Num("1"))>>),
    Only(In("a", XY)), Only(In("a", <<Str("x")>>)), Only(In("a", <<Num("1"), Num("12")>>)),
    Only(In("a", <<Id("b"), Num("0")>>)), Only(In("a", <<Id("b")>>)), Only(NotIn("a", XY)),
    All(<<In("a", <<Num("1"), Num("12")>>), Cmp("b", "=", Num("1"))>>),
    <<One(Cmp("b", "=", Num("1"))), Or(<<In("a", <<Str("x")>>), Paren(1)>>)>>,
    Either(<<In("a", <<Id("b")>>), In("b", XY)>>),
    Either(<<In("a", <<Str("x"), Str("z")>>), In("a", <<Str("y")>>)>>),
    BothIn,
    << << <<Cmp("b", "#", Num("1")), Cmp("a", "=", Num("1"))>>, <<Five>> >> >>,
    <<Or(<<Cmp("a", "=", Num("1")), Cmp("a", "=", Str("x"))>>), And(<<Cmp("b", "#", Num("5")), Paren(1)>>)>>}

MCLaterChecks == {Only(Cmp("b", "#", Num("5"))), BothIn}

Column(n) == [i |-> "column", n |-> n, enum |-> <<>>]
Enum(n, values) == [i |-> "column", n |-> n, enum |-> values]
Clause(i) == [i |-> i]
Check(e) == [i |-> "check", e |-> e]
TableCheck(e) == [i |-> "CHECK", e |-> e]
References(r) == [i |-> "references", ref |-> r]
ForeignKey(c, refs) == [i |-> "FOREIGN_KEY", c |-> c, refs |-> refs]
PrimaryKey(c) == [i |-> "PRIMARY_KEY", c |-> c]

\* Every CHECK on a column, on the table, and with another CHECK before it.
CheckDeclarations ==
    {<<Column("a"), Check(e), Column("b")>> : e \in MCExpressions}
    \cup {<<Column("a"), Column("b"), Check(e)>> : e \in MCExpressions}
    \cup {<<Column("a"), Column("b"), TableCheck(e), TableCheck(Only(Zero)), TableCheck(e)>> : e \in MCExpressions}
    \cup {<<Column("a"), Check(e), Check(Only(Zero)), Column("b")>> : e \in {Only(Five), Only(In("a", XY))}}
    \cup {<<Column("a"), Check(e)>> : e \in {Only(Cmp("b", "=", Num("1"))), Only(Cmp("a", "#", Id("b"))),
                                             Either(<<Zero, Cmp("b", "=", Num("1"))>>)}}
    \cup {<<Enum("a", <<"x", "y">>), Column("b")>>, <<Enum("a", <<"x">>), Check(Only(Zero)), Column("b")>>}

Clauses == {Clause("primary_key"), Clause("unique"), Clause("not_null"), Clause("null"),
            Clause("not"), Clause("default"), References("p.id")}
TableClauses == {ForeignKey(<<"a">>, <<"q.id">>), ForeignKey(<<"b">>, <<"q.id">>),
                 ForeignKey(<<"a">>, <<"q.id", "q.k">>), ForeignKey(<<"a", "b">>, <<"q.id", "q.k">>),
                 PrimaryKey(<<"a">>), PrimaryKey(<<"a", "b">>), PrimaryKey(<<"c">>)}

KeyDeclarations ==
    {<<Column("a"), x, y, Column("b"), z>> : x \in Clauses, y \in Clauses,
        z \in {ForeignKey(<<"a">>, <<"q.id">>), PrimaryKey(<<"a", "b">>)}}
    \cup {<<Column("a"), z, Column("b"), t>> : z \in TableClauses, t \in TableClauses}
    \cup {<<Column("a"), Column("a")>>}

MCDeclarations == CheckDeclarations \cup KeyDeclarations
=============================================================================
