---------------------------- MODULE Constraints ----------------------------
(***************************************************************************)
(* Table metadata, rows, and the constraint checks the engine runs on      *)
(* them: the pure part of src/src/app/query_engine_app.cpp.  Nothing here  *)
(* has state; Engine gives these operators the catalog and the database.   *)
(*                                                                         *)
(* Data that no property tells apart is abstracted:                        *)
(*   - a cell is the stored string: Empty is "" (the engine's NULL), the   *)
(*     others are members of Value;                                        *)
(*   - INT stands for every type that accepts some strings and stores them *)
(*     as they are (INT, VARCHAR(n), FLOAT, DOUBLE, TIMESTAMP), BOOLEAN is *)
(*     the one type that rewrites what it stores;                          *)
(*   - a CHECK is the columns it names, those it names on the left of a    *)
(*     comparison, BETWEEN or IN, and the value tuples it accepts; a text  *)
(*     whose evaluation throws accepts nothing;                            *)
(*   - a table is a function from slots to rows, a slot being the identity *)
(*     of one vector element, because no statement modelled here depends   *)
(*     on the order of rows; columns are a function from names for the     *)
(*     same reason.                                                        *)
(***************************************************************************)
EXTENDS Naturals, FiniteSets, Sequences

CONSTANTS
    Table,        \* the table names a statement can spell
    Fold,         \* Fold[t]: the lower-case form of the name t
    Column,       \* column names
    Slot,         \* identities of rows in one table
    Value,        \* the non-empty cell values
    Empty,        \* the empty string
    IntForms,     \* the values a column of type INT accepts
    TrueForms,    \* the spellings of true a BOOLEAN accepts
    FalseForms,   \* the spellings of false
    True,         \* the spelling of true that is stored
    False,        \* the spelling of false that is stored
    NoRef         \* no foreign key

ASSUME NamesAssumption ==
    /\ Fold \in [Table -> Table]
    /\ NoRef \notin Table \X Column

ASSUME ValuesAssumption ==
    /\ Empty \notin Value
    /\ IntForms \subseteq Value
    /\ TrueForms \subseteq Value /\ True \in TrueForms
    /\ FalseForms \subseteq Value /\ False \in FalseForms
    /\ Column \cap (Value \cup {Empty}) = {}

Cell == Value \cup {Empty}

StoredType == {"INT", "TEXT", "BOOLEAN"}

Ref == Table \X Column

\* left: the positions in args of the columns named on the left.  accepts: a
\* name on the right that is no column of the row is a text, its own spelling.
\* compact: the text is an IN list spelt the way buildEnumCompactList spells it.
Check ==
    [args : Seq(Column), left : SUBSET Nat,
     accepts : SUBSET Seq(Cell \cup Column), compact : BOOLEAN]

NoCheck == [args |-> <<>>, left |-> {}, accepts |-> {<<>>}, compact |-> FALSE]

ColumnMetadata ==
    [type : StoredType, primaryKey : BOOLEAN, unique : BOOLEAN,
     notNull : BOOLEAN, foreignKey : Ref \cup {NoRef}, check : Check]

\* f maps some of the elements of S, each to an element of R.
Partial(f, S, R) == DOMAIN f \subseteq S /\ f \in [DOMAIN f -> R]

IsTableMetadata(meta) ==
    /\ meta = [columns |-> meta.columns, tableChecks |-> meta.tableChecks]
    /\ Partial(meta.columns, Column, ColumnMetadata)
    /\ meta.tableChecks \subseteq Check

\* A table: the rows its slots hold, each from column names to cells.
IsRows(rows) ==
    /\ DOMAIN rows \subseteq Slot
    /\ rows = [s \in DOMAIN rows |-> rows[s]]
    /\ \A s \in DOMAIN rows : Partial(rows[s], Column, Cell)

\* What a statement can ask for: ENUM is a type only there.
LogicalType ==
    [kind : StoredType, values : {{}}]
        \cup [kind : {"ENUM"}, values : (SUBSET Value) \ {{}}]

ColumnDef ==
    [type : LogicalType, primaryKey : BOOLEAN, unique : BOOLEAN,
     notNull : BOOLEAN, foreignKey : Ref \cup {NoRef}, check : Check]

----------------------------------------------------------------------------
(* Types *)

\* validateTypedValue: the empty string passes every type.
Accepts(type, v) ==
    \/ v = Empty
    \/ type = "TEXT"
    \/ type = "INT" /\ v \in IntForms
    \/ type = "BOOLEAN" /\ v \in TrueForms \cup FalseForms

\* normalizeTypedValue, once the value is accepted.
Canonical(type, v) ==
    IF type = "BOOLEAN" /\ v # Empty
    THEN IF v \in TrueForms THEN True ELSE False
    ELSE v

----------------------------------------------------------------------------
(* CHECK texts *)

EnumCheck(c, values) ==
    [args |-> <<c>>, left |-> {1}, accepts |-> {<<v>> : v \in values}, compact |-> TRUE]

\* "(old) AND (c IN (...))".  A column check that begins with a parenthesis is
\* taken for an IN list by normalizeColumnCheckExpr, and evaluating that list
\* throws: the conjunction accepts no row.
Conjoined(check) == [check EXCEPT !.accepts = {}, !.compact = FALSE]

\* Mutant: an ENUM column is stored as one, not as text with a check.
StoredTypeAsWritten(type) == type.kind

StoredTypeOf(type) == IF type.kind = "ENUM" THEN "TEXT" ELSE type.kind

\* The check a column is stored with when it is declared.
DeclaredCheck(c, def) ==
    IF def.type.kind # "ENUM" THEN def.check
    ELSE IF def.check = NoCheck THEN EnumCheck(c, def.type.values)
    ELSE Conjoined(def.check)

\* The check a column is left with when its type is altered.
RetypedCheck(c, check, type) ==
    IF type.kind # "ENUM" \/ check = EnumCheck(c, type.values) THEN check
    ELSE IF check = NoCheck THEN EnumCheck(c, type.values)
    ELSE Conjoined(check)

\* parseValue: what a name on the right of a comparison stands for.
ValueNamed(name, row) == IF name \in DOMAIN row THEN row[name] ELSE name

\* evalCheckExpr: on the left, a column the row does not have makes it throw.
Passes(check, row) ==
    /\ \A i \in check.left : check.args[i] \in DOMAIN row
    /\ [i \in DOMAIN check.args |-> ValueNamed(check.args[i], row)] \in check.accepts

Mentions(check, c) == \E i \in DOMAIN check.args : check.args[i] = c

\* rewriteIdentifierInExpression; it also respells a list of several values.
RenamedCheck(check, from, to) ==
    [args |-> [i \in DOMAIN check.args |->
                 IF check.args[i] = from THEN to ELSE check.args[i]],
     left |-> check.left,
     accepts |-> check.accepts,
     compact |-> check.compact /\ Cardinality(check.accepts) <= 1]

----------------------------------------------------------------------------
(* validateRowsAgainstMetadata *)

PrimaryKey(meta) ==
    {c \in DOMAIN meta.columns : meta.columns[c].primaryKey}

Composite(meta) == \E c, d \in PrimaryKey(meta) : c # d

\* A UNIQUE column inside a composite key is not checked on its own.
EnforcesUnique(meta, c) ==
    /\ meta.columns[c].unique
    /\ ~(Composite(meta) /\ meta.columns[c].primaryKey)

ColumnAccepts(meta, c, row) ==
    /\ meta.columns[c].notNull => row[c] # Empty
    /\ Accepts(meta.columns[c].type, row[c])
    /\ Passes(meta.columns[c].check, row)

RowAccepted(meta, row) ==
    /\ \A c \in DOMAIN meta.columns :
         c \in DOMAIN row /\ ColumnAccepts(meta, c, row)
    /\ \A c \in PrimaryKey(meta) : row[c] # Empty
    /\ \A check \in meta.tableChecks : Passes(check, row)

\* Two rows of one table, r and s, can stand together.
Compatible(meta, r, s) ==
    /\ \A c \in DOMAIN meta.columns :
         EnforcesUnique(meta, c) /\ r[c] # Empty => r[c] # s[c]
    /\ PrimaryKey(meta) # {} => \E c \in PrimaryKey(meta) : r[c] # s[c]

\* Every constraint of a table but its foreign keys.
OwnConstraints(meta, rows) ==
    /\ \A s \in DOMAIN rows : RowAccepted(meta, rows[s])
    /\ \A s, u \in DOMAIN rows : s # u => Compatible(meta, rows[s], rows[u])

\* One set of buildFkLookup: the values of column c in these rows.
ValuesOf(rows, c) == {rows[s][c] : s \in {u \in DOMAIN rows : c \in DOMAIN rows[u]}}

\* The cells of column c that a foreign key of c to these values must find.
Dangling(rows, c, values) ==
    {s \in DOMAIN rows : rows[s][c] # Empty /\ rows[s][c] \notin values}
=============================================================================
