------------------------------- MODULE Checks -------------------------------
(***************************************************************************)
(* The constraints of one table as CREATE TABLE reads them, and the life   *)
(* of its CHECKs after that: kept as text, tokenised and evaluated while   *)
(* it is parsed for every row of every change, rewritten by a RENAME, and  *)
(* turned into one of four JSON shapes by each save of metadata.json and   *)
(* back into text by each start.                                           *)
(*                                                                         *)
(* A text is a sequence of tokens [k, w]: a kind and words.  All tokens    *)
(* but string literals have one word; a string literal has several when a  *)
(* piece of an expression was taken for a literal, and w lists its words.  *)
(***************************************************************************)
EXTENDS Sequences, SequencesExt, Cells

CONSTANTS
    Declarations,     \* CREATE TABLEs: sequences of items
    LaterChecks,      \* expressions for ALTER TABLE ADD CHECK
    Names,            \* column names
    NewName,          \* the name a RENAME gives
    StringWord,       \* words that only occur as string literals
    JsonNumber,       \* the texts JsonParser::number reads: 7, but not 007 or +7
    Rows,             \* the rows that are inserted
    MaxRows           \* bound: rows of the table

VARIABLES
    todo,       \* Parser::parseCreateTable: the items it has still to read
    decl,       \* the declaration, all of it
    stage,      \* "parse", "live", or "failed" if the CREATE TABLE or a start failed
    cols,       \* the columns read so far, by name, with their constraints
    last,       \* the column read last, which column clauses go to
    tableChecks,\* the table's CHECKs: texts
    meant,      \* what was declared: column CHECKs by name, table CHECKs
    rows,       \* the table
    restarts    \* has metadata.json been loaded since the CREATE TABLE?

vars == <<todo, decl, stage, cols, last, tableChecks, meant, rows, restarts>>

----------------------------------------------------------------------------
(* Tokens *)

\* A token of a text: a kind and its words.
Tok(k, w) == [k |-> k, w |-> <<w>>]
Id(n) == Tok("id", n)
Num(n) == Tok("num", n)
Str(s) == Tok("str", s)
Kw(n) == Tok("kw", n)
Comma == Kw(",")

----------------------------------------------------------------------------
(* What a CREATE TABLE may say *)

Operators == {"=", "#", "<", ">", "<=", ">="}
NonEmpty(S) == Seq(S) \ {<<>>}
ValueTok(names) ==
    {Id(n) : n \in names} \cup {Num(c) : c \in NumCell} \cup {Str(s) : s \in StringWord}
Primary(names) ==
    [p : {"cmp"}, c : names, op : Operators, v : ValueTok(names)]
    \cup [p : {"between"}, c : names, lo : ValueTok(names), hi : ValueTok(names)]
    \cup [p : {"in"}, c : names, negated : BOOLEAN, items : NonEmpty(ValueTok(names))]
    \cup [p : {"paren"}, of : Nat \ {0}]
Expression(names) ==
    {e \in NonEmpty(NonEmpty(NonEmpty(Primary(names)))) :
        \A i \in DOMAIN e : \A k \in DOMAIN e[i] : \A m \in DOMAIN e[i][k] :
            e[i][k][m].p = "paren" => e[i][k][m].of < i}

ClauseKinds == {"primary_key", "unique", "not_null", "null", "not", "default", "references", "check"}

\* A declaration starts with a column; a clause follows a column or a clause.
Declaration(d) ==
    /\ d \in Seq(ToSet(d))
    /\ \A p \in DOMAIN d :
        /\ d[p].i \in ClauseKinds \cup {"column", "CHECK", "PRIMARY_KEY", "FOREIGN_KEY"}
        /\ d[p].i \in ClauseKinds => p > 1 /\ d[p - 1].i \in ClauseKinds \cup {"column"}
        /\ d[p].i = "column" => d[p].n \in Names /\ d[p].enum \in Seq(StringWord)
        /\ d[p].i \in {"check", "CHECK"} => d[p].e \in Expression(Names)
        /\ d[p].i = "FOREIGN_KEY" => d[p].c \in Seq(Names)

ASSUME ChecksAssumption ==
    /\ IsFiniteSet(Names) /\ NewName \notin Names
    /\ JsonNumber \subseteq NumCell
    /\ \A d \in Declarations : Declaration(d)
    /\ LaterChecks \subseteq Expression(Names)
    /\ Rows \subseteq [Names -> Cell]

----------------------------------------------------------------------------
(* Expressions and their texts *)

\* An expression is the sequence of its parts, each after those in its
\* parentheses; the last part is all of it.  A part is an OR, a sequence, of
\* ANDs, sequences of primaries; a primary is a comparison, a range, a list, or
\* the number of an earlier part, in parentheses.
Whole(e) == Last(e)

Separated(parts, separator) ==
    FlattenSeq([k \in DOMAIN parts |-> IF k = 1 THEN parts[k] ELSE <<separator>> \o parts[k]])

ListText(items) == Separated([k \in DOMAIN items |-> <<items[k]>>], Comma)

PrimaryText(p, texts) ==
    CASE p.p = "cmp" -> <<Id(p.c), Tok("op", p.op), p.v>>
      [] p.p = "between" -> <<Id(p.c), Kw("BETWEEN"), p.lo, Kw("AND"), p.hi>>
      [] p.p = "in" -> <<Id(p.c)>> \o (IF p.negated THEN <<Kw("NOT")>> ELSE <<>>)
                       \o <<Kw("IN"), Kw("(")>> \o ListText(p.items) \o <<Kw(")")>>
      [] p.p = "paren" -> <<Kw("(")>> \o texts[p.of] \o <<Kw(")")>>

AndText(and, texts) ==
    Separated([m \in DOMAIN and |-> PrimaryText(and[m], texts)], Kw("AND"))
OrText(part, texts) ==
    Separated([k \in DOMAIN part |-> AndText(part[k], texts)], Kw("OR"))

Texts(e) ==
    LET upTo[i \in 0..Len(e)] ==
            IF i = 0 THEN <<>> ELSE Append(upTo[i - 1], OrText(e[i], upTo[i - 1]))
    IN upTo[Len(e)]
TextOf(e) == Last(Texts(e))

----------------------------------------------------------------------------
(* The CHECK evaluator *)

\* compareScalar: a cell against the words of a literal.
CompareScalar(cell, words) ==
    IF Len(words) = 1 THEN CompareCompiled(cell, words[1])
    ELSE IF CompareText(cell, words[1]) = 0 THEN -1 ELSE CompareText(cell, words[1])

\* parseValue: a name that is no column of the row is the text it spells.
ValueOf(tok, row) ==
    IF tok.k = "id" /\ tok.w[1] \in DOMAIN row THEN <<row[tok.w[1]]>> ELSE tok.w
IsValue(tok) == tok.k \in {"id", "num", "str"}

End == Kw("END")
At(text, p) == IF p \in DOMAIN text THEN text[p] ELSE End

\* What a parsing function returns, with the place it stops at, or throws.
Outcome == [ok : BOOLEAN, v : BOOLEAN, p : Nat]
Wrong == [ok |-> FALSE, v |-> FALSE, p |-> 0]
Is(v, p) == [ok |-> TRUE, v |-> v, p |-> p]

\* parsePrimary's list from p on: values as long as commas follow, and ")".
Values(text, p) ==
    LET lasts == {n \in 1..Len(text) : At(text, p + 2 * n - 1) # Comma}
        n == CHOOSE n \in lasts : \A m \in lasts : n <= m
        places == {p + 2 * m - 2 : m \in 1..n}
    IN [ok |-> At(text, p + 2 * n - 1) = Kw(")") /\ \A q \in places : IsValue(At(text, q)),
        places |-> places, p |-> p + 2 * n]

Leaf(text, p, row) ==
    LET Cmp(q) == CompareScalar(row[At(text, p).w[1]], ValueOf(At(text, q), row))
        negated == At(text, p + 1) = Kw("NOT")
        in == IF negated THEN p + 2 ELSE p + 1
        list == Values(text, in + 2)
    IN CASE At(text, p + 1) = Kw("BETWEEN") ->
              IF IsValue(At(text, p + 2)) /\ At(text, p + 3) = Kw("AND") /\ IsValue(At(text, p + 4))
              THEN Is(Cmp(p + 2) >= 0 /\ Cmp(p + 4) <= 0, p + 5) ELSE Wrong
         [] At(text, in) = Kw("IN") ->
              IF At(text, in + 1) = Kw("(") /\ list.ok
              THEN Is((\E q \in list.places : Cmp(q) = 0) # negated, list.p) ELSE Wrong
         [] At(text, p + 1).k = "op" ->
              IF IsValue(At(text, p + 2))
              THEN Is(Satisfies(Cmp(p + 2), At(text, p + 1).w[1]), p + 3) ELSE Wrong
         [] OTHER -> Wrong

\* parsePrimary, parseAnd and parseOr; nested[p] is what parseOr finds from p on
\* in parentheses.  v && parsePrimary() and v || parseAnd() do not call the
\* right-hand side when the left one decides: its tokens stay.
ParsePrimary(nested, text, p, row) ==
    IF At(text, p) = Kw("(") THEN
        LET inner == nested[p + 1] IN
        IF inner.ok /\ At(text, inner.p) = Kw(")") THEN Is(inner.v, inner.p + 1) ELSE Wrong
    ELSE IF At(text, p).k # "id" \/ At(text, p).w[1] \notin DOMAIN row THEN Wrong
    ELSE Leaf(text, p, row)

ParseAnd(nested, text, p, row) ==
    LET more[left \in Outcome] ==
            IF ~left.ok \/ At(text, left.p) # Kw("AND") THEN left
            ELSE more[IF left.v THEN ParsePrimary(nested, text, left.p + 1, row)
                      ELSE Is(FALSE, left.p + 1)]
    IN more[ParsePrimary(nested, text, p, row)]

\* Mutant: OR goes on with the right-hand side alone.
ParseOrRight(nested, text, p, row) ==
    LET more[left \in Outcome] ==
            IF ~left.ok \/ At(text, left.p) # Kw("OR") THEN left
            ELSE more[ParseAnd(nested, text, left.p + 1, row)]
    IN more[ParseAnd(nested, text, p, row)]

ParseOr(nested, text, p, row) ==
    LET more[left \in Outcome] ==
            IF ~left.ok \/ At(text, left.p) # Kw("OR") THEN left
            ELSE more[IF left.v THEN Is(TRUE, left.p + 1)
                      ELSE ParseAnd(nested, text, left.p + 1, row)]
    IN more[ParseAnd(nested, text, p, row)]

\* parseOr by the place it starts at: its parentheses nest less deep than the
\* text is long.
Parsed(text, row) ==
    LET nested[d \in 0..Len(text)] ==
            IF d = 0 THEN [p \in 1..Len(text) + 1 |-> Wrong]
            ELSE [p \in 1..Len(text) + 1 |-> ParseOr(nested[d - 1], text, p, row)]
    IN nested[Len(text)]

\* evalCheckExpr: "true", "false", or "error" where it throws.
EvalCheckExpr(text, row) ==
    LET r == Parsed(text, row)[1] IN
    IF ~r.ok \/ r.p # Len(text) + 1 THEN "error" ELSE IF r.v THEN "true" ELSE "false"

----------------------------------------------------------------------------
(* The texts that are kept *)

\* normalizeColumnCheckExpr: what starts like a value is a list; so is what
\* starts with a parenthesis.
NormalizeColumnCheckExpr(text, c) ==
    LET list == \/ At(text, 1).k \in {"str", "num"} \/ At(text, 1) = Kw("(")
                \/ At(text, 1).k = "id" /\ At(text, 2) \in {Comma, End}
    IN IF text # <<>> /\ list THEN <<Id(c), Kw("IN"), Kw("(")>> \o text \o <<Kw(")")>> ELSE text

\* The patterns of normalizeStoredColumnCheckExpr and checkExprToJson.
IsList(text, c) ==
    /\ Len(text) >= 4
    /\ text[1] = Id(c) /\ text[2] = Kw("IN") /\ text[3] = Kw("(") /\ text[Len(text)] = Kw(")")
Body(text) == SubSeq(text, 4, Len(text) - 1)

NormalizeStoredColumnCheckExpr(text, c) == IF IsList(text, c) THEN Body(text) ELSE text

Words(text) == FlattenSeq([p \in DOMAIN text |-> text[p].w])
Quoted(part) == part # <<>> /\ part[1].k = "str" /\ part[Len(part)].k = "str"

\* splitCommaOutsideQuotes.
Parts(text) ==
    LET cuts == Ascending({0, Len(text) + 1} \cup {p \in DOMAIN text : text[p] = Comma})
    IN [k \in 1..Len(cuts) - 1 |-> SubSeq(text, cuts[k] + 1, cuts[k + 1] - 1)]

\* Mutant: a quoted literal keeps its quotes as a part of the text.
ScalarToJsonQuoted(part) ==
    IF Len(part) = 1 /\ part[1].k = "num" THEN part[1]
    ELSE [k |-> "str", w |-> Words(part) \o (IF Quoted(part) THEN <<part[1].w[1]>> ELSE <<>>)]

\* Mutant: a text that begins like a number is written as one.
ScalarToJsonBare(part) ==
    IF part # <<>> /\ part[1].k = "num" THEN part[1] ELSE [k |-> "str", w |-> Words(part)]

\* A quoted text, a number as it is spelt, or else any text at all as a string.
ScalarToJson(part) ==
    IF Len(part) = 1 /\ part[1].k = "num" THEN part[1] ELSE [k |-> "str", w |-> Words(part)]

\* checkExprToJson.
CheckExprToJson(text, c) ==
    LET body == IF IsList(text, c) THEN Body(text) ELSE text
        commas == \E p \in DOMAIN text : Contains(text[p].w, ",")
        enum == (IsList(text, c) \/ commas) /\ \A k \in DOMAIN Parts(body) : Quoted(Parts(body)[k])
        ands == {p \in 4..(Len(text) - 1) : text[p] = Kw("AND")}
        and == CHOOSE p \in ands : \A q \in ands : p <= q
        own == At(text, 1) = Id(c)
    IN IF enum THEN
          [type |-> "enum", values |-> [k \in DOMAIN Parts(body) |-> ScalarToJson(Parts(body)[k])]]
       ELSE IF own /\ At(text, 2) = Kw("BETWEEN") /\ ands # {} THEN
          [type |-> "range", min |-> ScalarToJson(SubSeq(text, 3, and - 1)),
           max |-> ScalarToJson(SubSeq(text, and + 1, Len(text)))]
       ELSE IF own /\ At(text, 2).k = "op" /\ Len(text) > 2 THEN
          [type |-> "comparison", operator |-> text[2], value |-> ScalarToJson(SubSeq(text, 3, Len(text)))]
       ELSE [type |-> "expression", sql |-> text]

\* JsonParser::parse: a catalog with a number that JSON does not have is refused.
ReadsBack(scalar) == scalar.k = "num" => scalar.w[1] \in JsonNumber
Loads(text, c) ==
    LET json == CheckExprToJson(text, c) IN
    CASE json.type = "range" -> ReadsBack(json.min) /\ ReadsBack(json.max)
      [] json.type = "comparison" -> ReadsBack(json.value)
      [] OTHER -> TRUE

\* parseCheckObject.
ParseCheckObject(json, c) ==
    CASE json.type = "enum" ->
            <<Id(c), Kw("IN"), Kw("(")>> \o ListText(json.values) \o <<Kw(")")>>
      [] json.type = "range" -> <<Id(c), Kw("BETWEEN"), json.min, Kw("AND"), json.max>>
      [] json.type = "comparison" -> <<Id(c), json.operator, json.value>>
      [] json.type = "expression" -> json.sql

\* rewriteIdentifierInExpression: quotes inside a literal are not doubled, so a
\* literal that was made of other literals falls back into its tokens.
Lexed(word) ==
    IF word \in StringWord THEN Str(word) ELSE IF word \in NumCell THEN Num(word)
    ELSE IF word \in Names \cup {NewName} THEN Id(word)
    ELSE IF word \in {"=", "#", "<", ">", "<=", ">="} THEN Tok("op", word) ELSE Kw(word)

Rewritten(text, from, to) ==
    FlattenSeq([p \in DOMAIN text |->
        IF text[p] = Id(from) THEN <<Id(to)>>
        ELSE IF text[p].k = "str" /\ Len(text[p].w) > 1 /\ text[p].w[1] \in StringWord
        THEN [m \in DOMAIN text[p].w |-> Lexed(text[p].w[m])]
        ELSE <<text[p]>>])

----------------------------------------------------------------------------
(* CREATE TABLE *)

NoText == <<>>
NoReference == "none"
Plain(item) == [pk |-> FALSE, nn |-> FALSE, uq |-> FALSE, fk |-> NoReference,
                check |-> NoText, enum |-> item.enum]

With(f, x, y) == [z \in DOMAIN f \cup {x} |-> IF z = x THEN y ELSE f[z]]

\* parseOptionalColumnConstraint, on the record of the column read last.  NOT
\* without NULL and DEFAULT are read and have no effect.
ColumnClause(c, item) ==
    CASE item.i = "primary_key" -> [c EXCEPT !.pk = TRUE, !.nn = TRUE]
      [] item.i = "unique" -> [c EXCEPT !.uq = TRUE]
      [] item.i = "not_null" -> [c EXCEPT !.nn = TRUE]
      [] item.i = "null" -> [c EXCEPT !.nn = FALSE]
      [] item.i \in {"not", "default"} -> c
      [] item.i = "references" -> [c EXCEPT !.fk = item.ref]
      [] item.i = "check" -> [c EXCEPT !.check = TextOf(item.e)]

Item == todo[1]
Read == stage = "parse" /\ todo # <<>> /\ todo' = Tail(todo)

\* A column with a name that is already there is an error of the statement.
ReadColumn ==
    /\ Read /\ Item.i = "column"
    /\ IF Item.n \in DOMAIN cols THEN stage' = "failed" /\ UNCHANGED <<cols, last, meant>>
       ELSE /\ cols' = With(cols, Item.n, Plain(Item))
            /\ meant' = [meant EXCEPT !.column = With(@, Item.n, <<>>)]
            /\ last' = Item.n
            /\ UNCHANGED stage
    /\ UNCHANGED <<decl, tableChecks, rows, restarts>>

ReadColumnClause ==
    /\ Read
    /\ Item.i \in {"primary_key", "unique", "not_null", "null", "not", "default", "references", "check"}
    /\ cols' = [cols EXCEPT ![last] = ColumnClause(@, Item)]
    /\ meant' = IF Item.i = "check" THEN [meant EXCEPT !.column = [@ EXCEPT ![last] = Item.e]] ELSE meant
    /\ UNCHANGED <<decl, stage, last, tableChecks, rows, restarts>>

ReadTableCheck ==
    /\ Read /\ Item.i = "CHECK"
    /\ LET known == Contains(tableChecks, TextOf(Item.e)) IN
       /\ tableChecks' = IF known THEN tableChecks ELSE Append(tableChecks, TextOf(Item.e))
       /\ meant' = IF known THEN meant ELSE [meant EXCEPT !.table = Append(@, Item.e)]
    /\ UNCHANGED <<decl, stage, cols, last, rows, restarts>>

ReadPrimaryKey ==
    /\ Read /\ Item.i = "PRIMARY_KEY"
    /\ IF ToSet(Item.c) \subseteq DOMAIN cols
       THEN /\ cols' = [n \in DOMAIN cols |->
                 IF n \in ToSet(Item.c) THEN [cols[n] EXCEPT !.pk = TRUE, !.nn = TRUE] ELSE cols[n]]
            /\ UNCHANGED stage
       ELSE stage' = "failed" /\ UNCHANGED cols
    /\ UNCHANGED <<decl, last, tableChecks, meant, rows, restarts>>

\* Mutant: the referenced columns are not counted.
HeldByOneLocal(item) == Len(item.c) = 1 /\ item.c[1] \in DOMAIN cols

\* A foreign key is kept when it is of one column, read before it.
HeldByOne(item) == Len(item.c) = 1 /\ Len(item.refs) = 1 /\ item.c[1] \in DOMAIN cols

ReadForeignKey ==
    /\ Read /\ Item.i = "FOREIGN_KEY"
    /\ cols' = IF HeldByOne(Item) THEN [cols EXCEPT ![Item.c[1]].fk = Item.refs[1]] ELSE cols
    /\ UNCHANGED <<decl, stage, last, tableChecks, meant, rows, restarts>>

Strings(values) == [k \in DOMAIN values |-> Str(values[k])]
EnumPredicate(n, values) == [p |-> "in", c |-> n, negated |-> FALSE, items |-> Strings(values)]
Paren(part) == [p |-> "paren", of |-> part]

\* buildTableMetadata: the column's constraints, and the text of its CHECK with
\* that of its ENUM type.
Built(n, c) ==
    LET text == IF c.enum = <<>> THEN c.check
                ELSE IF c.check = NoText THEN ListText(Strings(c.enum))
                ELSE <<Kw("(")>> \o c.check \o <<Kw(")"), Kw("AND"), Kw("(")>>
                     \o PrimaryText(EnumPredicate(n, c.enum), <<>>) \o <<Kw(")")>>
    IN [c EXCEPT !.nn = c.nn \/ c.pk, !.check = NormalizeStoredColumnCheckExpr(text, n)]

BuiltMeaning(n, c, e) ==
    LET enum == << <<EnumPredicate(n, c.enum)>> >> IN
    IF c.enum = <<>> THEN e ELSE IF e = <<>> THEN <<enum>>
    ELSE e \o <<enum, << <<Paren(Len(e)), Paren(Len(e) + 1)>> >> >>

Build ==
    /\ stage = "parse" /\ todo = <<>> /\ cols # <<>>
    /\ cols' = [n \in DOMAIN cols |-> Built(n, cols[n])]
    /\ meant' = [meant EXCEPT !.column =
                    [n \in DOMAIN cols |-> BuiltMeaning(n, cols[n], meant.column[n])]]
    /\ stage' = "live"
    /\ UNCHANGED <<todo, decl, last, tableChecks, rows, restarts>>

----------------------------------------------------------------------------
(* The life of the table *)

\* validateRowsAgainstMetadata; the types and foreign keys are Engine's.
ChecksHold(cs, checks, row) ==
    /\ \A n \in DOMAIN cs :
        /\ cs[n].nn => row[n] # Empty
        /\ cs[n].check # NoText
           => EvalCheckExpr(NormalizeColumnCheckExpr(cs[n].check, n), row) = "true"
    /\ \A k \in DOMAIN checks : EvalCheckExpr(checks[k], row) = "true"

KeysHold(cs, rs) ==
    LET pk == {n \in DOMAIN cs : cs[n].pk} IN
    \A r, s \in rs : r # s =>
        /\ pk # {} => \E n \in pk : r[n] # s[n]
        /\ \A n \in DOMAIN cs : cs[n].uq /\ ~(cs[n].pk /\ Cardinality(pk) > 1) /\ r[n] # Empty
              => r[n] # s[n]

Valid(cs, checks, rs) == (\A r \in rs : ChecksHold(cs, checks, r)) /\ KeysHold(cs, rs)

Renaming == DOMAIN cols \ Names # {}
Shaped(row) == [n \in DOMAIN cols |-> IF n = NewName THEN row[CHOOSE m \in Names : m \notin DOMAIN cols]
                                      ELSE row[n]]

\* A statement that fails a constraint leaves the table as it was.
Insert(row) ==
    /\ stage = "live" /\ Cardinality(rows) < MaxRows
    /\ Valid(cols, tableChecks, rows \cup {Shaped(row)})
    /\ rows' = rows \cup {Shaped(row)}
    /\ UNCHANGED <<todo, decl, stage, cols, last, tableChecks, meant, restarts>>

\* An expression after RENAME COLUMN.
RenamedPrimary(p, from, to) ==
    LET New(n) == IF n = from THEN to ELSE n
        NewTok(t) == IF t = Id(from) THEN Id(to) ELSE t
    IN CASE p.p = "cmp" -> [p EXCEPT !.c = New(@), !.v = NewTok(@)]
         [] p.p = "between" -> [p EXCEPT !.c = New(@), !.lo = NewTok(@), !.hi = NewTok(@)]
         [] p.p = "in" -> [p EXCEPT !.c = New(@), !.items = [k \in DOMAIN @ |-> NewTok(@[k])]]
         [] p.p = "paren" -> p
RenamedIn(e, from, to) ==
    [i \in DOMAIN e |-> [k \in DOMAIN e[i] |-> [m \in DOMAIN e[i][k] |->
        RenamedPrimary(e[i][k][m], from, to)]]]

\* Mutant: the rows that are there are not looked at.
AddCheckUnseen(e) ==
    /\ stage = "live" /\ ~Renaming
    /\ ~Contains(tableChecks, TextOf(e))
    /\ tableChecks' = Append(tableChecks, TextOf(e))
    /\ meant' = [meant EXCEPT !.table = Append(@, e)]
    /\ UNCHANGED <<todo, decl, stage, cols, last, rows, restarts>>

\* ALTER TABLE ADD CHECK, over the rows that are there.
AddCheck(e) ==
    /\ stage = "live" /\ ~Renaming
    /\ ~Contains(tableChecks, TextOf(e))
    /\ Valid(cols, Append(tableChecks, TextOf(e)), rows)
    /\ tableChecks' = Append(tableChecks, TextOf(e))
    /\ meant' = [meant EXCEPT !.table = Append(@, e)]
    /\ UNCHANGED <<todo, decl, stage, cols, last, rows, restarts>>

\* ALTER TABLE RENAME COLUMN.
Rename(from) ==
    /\ stage = "live" /\ from \in DOMAIN cols /\ NewName \notin DOMAIN cols
    /\ LET New(n) == IF n = from THEN NewName ELSE n
           Old(n) == IF n = NewName THEN from ELSE n
           names == {New(n) : n \in DOMAIN cols}
           cs == [n \in names |->
                    [cols[Old(n)] EXCEPT !.check = Rewritten(@, from, NewName)]]
           checks == [k \in DOMAIN tableChecks |-> Rewritten(tableChecks[k], from, NewName)]
           rs == {[n \in names |-> r[Old(n)]] : r \in rows}
       IN /\ Valid(cs, checks, rs)
          /\ cols' = cs /\ tableChecks' = checks /\ rows' = rs
          /\ meant' = [column |-> [n \in names |-> RenamedIn(meant.column[Old(n)], from, NewName)],
                       table |-> [k \in DOMAIN meant.table |-> RenamedIn(meant.table[k], from, NewName)]]
    /\ UNCHANGED <<todo, decl, stage, last, restarts>>

\* MetadataCatalog::save, load and normalizeCatalogTypes of a column's CHECK;
\* Restart adds what the last does to UNIQUE in a composite key.
Reloaded(text, n) ==
    IF text = NoText THEN text
    ELSE NormalizeStoredColumnCheckExpr(ParseCheckObject(CheckExprToJson(text, n), n), n)

\* A start ends at a catalog that it cannot parse, and so does every later one.
Restart ==
    /\ stage = "live"
    /\ IF \A n \in DOMAIN cols : Loads(cols[n].check, n)
       THEN /\ LET pk == {n \in DOMAIN cols : cols[n].pk} IN
               cols' = [n \in DOMAIN cols |->
                    [cols[n] EXCEPT !.check = Reloaded(@, n), !.uq = @ /\ ~(n \in pk /\ Cardinality(pk) > 1)]]
            /\ restarts' = TRUE
            /\ UNCHANGED stage
       ELSE stage' = "failed" /\ UNCHANGED <<cols, restarts>>
    /\ UNCHANGED <<todo, decl, last, tableChecks, meant, rows>>

----------------------------------------------------------------------------

Init ==
    /\ decl \in Declarations
    /\ todo = decl
    /\ stage = "parse"
    /\ cols = <<>> /\ last = "none" /\ tableChecks = <<>>
    /\ meant = [column |-> <<>>, table |-> <<>>]
    /\ rows = {} /\ restarts = FALSE

Next ==
    \/ ReadColumn \/ ReadColumnClause \/ ReadTableCheck \/ ReadPrimaryKey \/ ReadForeignKey
    \/ Build
    \/ \E row \in Rows : Insert(row)
    \/ \E e \in LaterChecks : AddCheck(e)
    \/ \E n \in Names : Rename(n)
    \/ Restart

Spec == Init /\ [][Next]_vars

----------------------------------------------------------------------------
(* Properties *)

\* What a part says of a row, by the meaning of its connectives, and whether
\* every operand of it is needed, left to right, to decide it, and of a column of
\* the row; done holds both for the parts before it.
PrimaryTruth(p, row, done) ==
    LET Cmp(v) == CompareScalar(row[p.c], ValueOf(v, row)) IN
    IF p.p = "paren" THEN done[p.of].truth
    ELSE /\ p.c \in DOMAIN row
         /\ CASE p.p = "cmp" -> Satisfies(Cmp(p.v), p.op)
              [] p.p = "between" -> Cmp(p.lo) >= 0 /\ Cmp(p.hi) <= 0
              [] p.p = "in" -> (\E k \in DOMAIN p.items : Cmp(p.items[k]) = 0) # p.negated
PrimaryNeeded(p, row, done) ==
    IF p.p = "paren" THEN done[p.of].needed ELSE p.c \in DOMAIN row

AndTruth(and, row, done) == \A m \in DOMAIN and : PrimaryTruth(and[m], row, done)
AndNeeded(and, row, done) ==
    /\ \A m \in 1..Len(and) - 1 : PrimaryTruth(and[m], row, done)
    /\ \A m \in DOMAIN and : PrimaryNeeded(and[m], row, done)

OrTruth(part, row, done) == \E k \in DOMAIN part : AndTruth(part[k], row, done)
OrNeeded(part, row, done) ==
    /\ \A k \in 1..Len(part) - 1 : ~AndTruth(part[k], row, done)
    /\ \A k \in DOMAIN part : AndNeeded(part[k], row, done)

Meanings(e, row) ==
    LET upTo[i \in 0..Len(e)] ==
            IF i = 0 THEN <<>>
            ELSE Append(upTo[i - 1], [truth |-> OrTruth(e[i], row, upTo[i - 1]),
                                      needed |-> OrNeeded(e[i], row, upTo[i - 1])])
    IN upTo[Len(e)]
Truth(e, row) == Last(Meanings(e, row)).truth
NeedsAll(e, row) == Last(Meanings(e, row)).needed

First(e) == Whole(e)[1][1]
Alone(e) == Len(Whole(e)) = 1 /\ Len(Whole(e)[1]) = 1
Own(e, n) == First(e).p # "paren" /\ First(e).c = n

\* The CHECKs that metadata.json can hold: those that do not begin with their
\* own column, and of those that do, a list, one comparison or range with
\* literals, and what goes on after a list without ending in a parenthesis.
Storable(e, n) ==
    Own(e, n) => CASE First(e).p = "cmp" -> Alone(e) /\ First(e).v.k # "id"
                   [] First(e).p = "between" -> Alone(e) /\ First(e).lo.k # "id" /\ First(e).hi.k # "id"
                   [] First(e).p = "in" -> Alone(e) \/ ~IsList(TextOf(e), n)

\* The CHECKs that come back from the catalog as another text: those that start
\* with a parenthesis are taken for the list of IN; and a list of one column, the
\* first of several conditions, loses the front of it for good.
Misread(e, n) ==
    \/ First(e).p = "paren"
    \/ IsList(TextOf(e), n) /\ ~Alone(e) /\ Len(First(e).items) = 1 /\ First(e).items[1].k = "id"

Keeps(n) == restarts => Storable(meant.column[n], n)
Checked == {n \in DOMAIN cols : meant.column[n] # <<>>}
AnyRow == {Shaped(row) : row \in Rows}

Verdict(e, row) == IF ~NeedsAll(e, row) THEN "error" ELSE IF Truth(e, row) THEN "true" ELSE "false"

\* Through every rename and restart a CHECK gives each row the verdict its
\* declaration gives it, with the errors of the evaluator and no others: it
\* throws when a left-hand side decides before the end of a connective, when a
\* name is no column, and, for a column's CHECK, always when it is misread.  A
\* column CHECK that metadata.json cannot hold keeps this until the first restart.
VerdictIsTheTruth ==
    stage = "live" => \A row \in AnyRow :
        /\ \A n \in Checked : Keeps(n) =>
              EvalCheckExpr(NormalizeColumnCheckExpr(cols[n].check, n), row)
              = IF Misread(meant.column[n], n) THEN "error" ELSE Verdict(meant.column[n], row)
        /\ \A k \in DOMAIN tableChecks :
              EvalCheckExpr(tableChecks[k], row) = Verdict(meant.table[k], row)

\* No sequence of statements and restarts leaves a row in the table that a CHECK
\* it was declared with is false of.
RowsSatisfyTheirChecks ==
    stage = "live" => \A row \in rows :
        /\ \A n \in Checked : Keeps(n) => Truth(meant.column[n], row)
        /\ \A k \in DOMAIN meant.table : Truth(meant.table[k], row)

\* What a CHECK becomes in metadata.json, right or wrong, is final: saving and
\* loading it again gives the same text.
SaveSettles ==
    stage = "live" => \A n \in DOMAIN cols :
        Reloaded(Reloaded(cols[n].check, n), n) = Reloaded(cols[n].check, n)

\* The CHECKs that leave a number in metadata.json that no start reads: those
\* that begin with their own column and hold it alone against such a number, or
\* against a range that begins with one.
Odd(v) == v.k = "num" /\ v.w[1] \notin JsonNumber
Unloadable(e, n) ==
    /\ e # <<>> /\ Own(e, n)
    /\ CASE First(e).p = "cmp" -> Alone(e) /\ Odd(First(e).v)
         [] First(e).p = "between" -> Odd(First(e).lo) \/ (Alone(e) /\ Odd(First(e).hi))
         [] First(e).p = "in" -> FALSE

\* A start is refused exactly when a CHECK was declared that the code itself
\* writes to the catalog and cannot read there, and a catalog that was read once
\* can be read ever after, whatever is inserted, added or renamed in between.
StartsAgain ==
    stage = "live" => \A n \in DOMAIN cols :
        Loads(cols[n].check, n) <=> (restarts \/ ~Unloadable(meant.column[n], n))

\* What the first k items of a declaration say of column n.  A clause belongs to
\* the column before it.
NamedLast(d, before) ==
    IF before = {} THEN "none" ELSE d[CHOOSE q \in before : \A r \in before : r <= q].n
OwnerOf(d, p) == NamedLast(d, {q \in 1..p : d[q].i = "column"})
OfColumn(d, k, n, kinds) == {p \in 1..k : d[p].i \in kinds /\ OwnerOf(d, p) = n}
DeclaredIn(d, k) == {d[q].n : q \in {r \in 1..k : d[r].i = "column"}}
LastOf(s) == {p \in s : \A q \in s : q <= p}

KeyOf(d, k, n) ==
    \/ OfColumn(d, k, n, {"primary_key"}) # {}
    \/ \E p \in 1..k : d[p].i = "PRIMARY_KEY" /\ n \in ToSet(d[p].c)
NotNullOf(d, k, n) ==
    \E p \in LastOf(OfColumn(d, k, n, {"null", "not_null"})) : d[p].i = "not_null"
ReferenceAt(d, p, n) ==
    /\ d[p].i = "FOREIGN_KEY" /\ d[p].c = <<n>>
    /\ Len(d[p].refs) = 1 /\ n \in DeclaredIn(d, p)
ReferencesOf(d, k, n) ==
    OfColumn(d, k, n, {"references"}) \cup {p \in 1..k : ReferenceAt(d, p, n)}
ReferenceOf(d, k, n, fk) ==
    IF ReferencesOf(d, k, n) = {} THEN fk = NoReference
    ELSE \E p \in LastOf(ReferencesOf(d, k, n)) :
           fk = IF d[p].i = "references" THEN d[p].ref ELSE d[p].refs[1]

\* The last clause of its kind decides, a PRIMARY KEY is never nullable whatever
\* follows it, UNIQUE stays, but in a composite key to the first restart only,
\* and a FOREIGN KEY of the table is kept exactly when it is of one
\* column already declared and references one column.
DeclarationKept ==
    stage = "live" /\ ~Renaming =>
        LET Key(n) == KeyOf(decl, Len(decl), n)
        IN \A n \in DOMAIN cols :
            /\ cols[n].pk = Key(n)
            /\ cols[n].uq = /\ OfColumn(decl, Len(decl), n, {"unique"}) # {}
                            /\ restarts /\ Key(n) => \A m \in DOMAIN cols : Key(m) => m = n
            /\ cols[n].nn = (Key(n) \/ NotNullOf(decl, Len(decl), n))
            /\ ReferenceOf(decl, Len(decl), n, cols[n].fk)
=============================================================================
