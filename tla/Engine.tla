------------------------------- MODULE Engine -------------------------------
(***************************************************************************)
(* The statements of src/src/app/query_engine_app.cpp that change the      *)
(* catalog or the database, as they change what is in memory: CREATE       *)
(* TABLE, the ALTER TABLE actions, INSERT, UPDATE and DELETE.  One action  *)
(* is one statement that succeeds; a statement that throws before it       *)
(* changes anything is a step that is not taken.  What happens on disk     *)
(* after the change in memory is the subject of module Durability.         *)
(***************************************************************************)
EXTENDS Constraints

CONSTANTS
    ColumnDefs,   \* the column definitions CREATE TABLE and ADD COLUMN may give
    NewTypes,     \* the types ALTER COLUMN may give
    TableChecks,  \* the CHECKs a table may be given
    Literals,     \* the literals INSERT and UPDATE may write
    MaxColumns,   \* bound: columns, over all tables
    MaxRows,      \* bound: rows, over all tables
    MaxCells,     \* bound: cells one INSERT gives
    MaxSet,       \* bound: assignments of one UPDATE
    MaxAlters     \* bound: ALTER TABLE statements in one behaviour

ASSUME InputsAssumption ==
    /\ ColumnDefs \subseteq ColumnDef
    /\ NewTypes \subseteq LogicalType
    /\ TableChecks \subseteq Check
    /\ Literals \subseteq Cell
    /\ MaxColumns \in Nat
    /\ MaxRows \in Nat /\ MaxCells \in Nat /\ MaxSet \in Nat
    /\ MaxAlters \in Nat

VARIABLES
    catalog,      \* MetadataCatalog::tables_
    tables,       \* Database::tables
    schemas,      \* Database::schemas, the header of each table
    alters        \* ALTER TABLE statements so far (bound only)

vars == <<catalog, tables, schemas, alters>>

TypeOK ==
    /\ DOMAIN catalog \subseteq Table
    /\ catalog = [t \in DOMAIN catalog |-> catalog[t]]
    /\ \A t \in DOMAIN catalog : IsTableMetadata(catalog[t])
    /\ tables = [t \in DOMAIN catalog |-> tables[t]]
    /\ \A t \in DOMAIN catalog : IsRows(tables[t])
    /\ schemas \in [DOMAIN catalog -> SUBSET Column]
    /\ alters \in 0..MaxAlters

\* How much of the bounds is used up.
ColumnsUsed ==
    {x \in Table \X Column : x[1] \in DOMAIN catalog /\ x[2] \in DOMAIN catalog[x[1]].columns}

RowsUsed == {x \in Table \X Slot : x[1] \in DOMAIN tables /\ x[2] \in DOMAIN tables[x[1]]}

\* A fresh data directory: bootstrapDatabase finds no metadata and no CSV.
Init ==
    /\ catalog = <<>>
    /\ tables = <<>>
    /\ schemas = <<>>
    /\ alters = 0

----------------------------------------------------------------------------
(* Names *)

\* Mutant: only a table of the very same spelling is found.
CandidatesAsSpelt(name) == {name} \cap DOMAIN catalog

\* findTableCI: the exact name, or the one table with the same folded name.
Candidates(name) ==
    IF name \in DOMAIN catalog THEN {name}
    ELSE {t \in DOMAIN catalog : Fold[t] = Fold[name]}

Resolves(name) == \E t \in Candidates(name) : Candidates(name) = {t}

CanonicalName(name) == CHOOSE t \in Candidates(name) : TRUE

\* The columns a table has, for a foreign key from a statement about table t
\* whose own columns are then local.
ReferableColumns(name, t, local) ==
    IF name = t THEN local
    ELSE IF Resolves(name) THEN DOMAIN catalog[CanonicalName(name)].columns
    ELSE {}

\* normalizeFkRef of ALTER TABLE and the same code of buildTableMetadata.
ValidRef(ref, t, local) ==
    ref # NoRef => ref[2] \in ReferableColumns(ref[1], t, local)

StoredRef(ref, t) ==
    IF ref = NoRef \/ ref[1] = t THEN ref ELSE <<CanonicalName(ref[1]), ref[2]>>

\* The metadata of a column that is declared by a CREATE or an ADD COLUMN.
StoredColumn(c, def, t) ==
    [type |-> StoredTypeOf(def.type),
     primaryKey |-> def.primaryKey,
     unique |-> def.unique,
     notNull |-> def.notNull \/ def.primaryKey,
     foreignKey |-> StoredRef(def.foreignKey, t),
     check |-> DeclaredCheck(c, def)]

----------------------------------------------------------------------------
(* Validation against the database *)

\* What a foreign key of table t finds in its target while t would hold rows.
Referenced(ref, t, rows) ==
    ValuesOf(IF ref[1] = t THEN rows ELSE tables[ref[1]], ref[2])

ForeignKeysHold(t, meta, rows) ==
    \A c \in DOMAIN meta.columns :
        LET ref == meta.columns[c].foreignKey IN
        ref # NoRef =>
            /\ ref[1] = t \/ ref[1] \in DOMAIN tables
            /\ Dangling(rows, c, Referenced(ref, t, rows)) = {}

\* Mutant: the foreign keys of the rows are not looked at.
ValidWithoutForeignKeys(t, meta, rows) == OwnConstraints(meta, rows)

Valid(t, meta, rows) == OwnConstraints(meta, rows) /\ ForeignKeysHold(t, meta, rows)

\* Mutant: a DELETE does not look for rows that reference what it deletes.
DeleteUnchecked(t, deleted) == TRUE

\* enforceDeleteConstraints: the table's own foreign keys are not looked at,
\* and a value that another row of t still holds counts as deleted.
DeleteAllowed(t, deleted) ==
    \A u \in DOMAIN catalog \ {t} : \A c \in DOMAIN catalog[u].columns :
        LET ref == catalog[u].columns[c].foreignKey IN
        ref # NoRef /\ ref[1] = t /\ ref[2] \in DOMAIN catalog[t].columns =>
            \A s \in DOMAIN tables[u] :
                tables[u][s][c] # Empty =>
                    tables[u][s][c] \notin ValuesOf(deleted, ref[2])

----------------------------------------------------------------------------
(* CREATE TABLE *)

\* A name that differs only in case from a table's is taken; with IF NOT
\* EXISTS the statement is then skipped, which changes nothing.
CreateTable(t, defs, checks) ==
    LET meta == [columns |-> [c \in DOMAIN defs |-> StoredColumn(c, defs[c], t)],
                 tableChecks |-> checks]
    IN  /\ Candidates(t) = {}
        /\ DOMAIN defs # {}
        /\ Cardinality(ColumnsUsed) + Cardinality(DOMAIN defs) <= MaxColumns
        /\ \A c \in DOMAIN defs : ValidRef(defs[c].foreignKey, t, DOMAIN defs)
        /\ catalog' = [u \in DOMAIN catalog \cup {t} |->
                         IF u = t THEN meta ELSE catalog[u]]
        /\ tables' = [u \in DOMAIN tables \cup {t} |->
                        IF u = t THEN <<>> ELSE tables[u]]
        /\ schemas' = [u \in DOMAIN schemas \cup {t} |->
                         IF u = t THEN DOMAIN defs ELSE schemas[u]]
        /\ UNCHANGED alters

----------------------------------------------------------------------------
(* ALTER TABLE *)

\* Mutant: the rows are validated against the metadata the table had.
AlterToByOldMetadata(t, meta, rows, side) ==
    /\ alters < MaxAlters
    /\ Valid(t, catalog[t], rows)
    /\ catalog' = [u \in DOMAIN catalog |-> IF u = t THEN meta ELSE side[u]]
    /\ tables' = [tables EXCEPT ![t] = rows]
    /\ schemas' = [schemas EXCEPT ![t] = DOMAIN meta.columns]
    /\ alters' = alters + 1

\* The common end of executeAlterTable: validate the new rows against the new
\* metadata, then replace the metadata of the other tables (side), of t, its
\* rows and its header.
AlterTo(t, meta, rows, side) ==
    /\ alters < MaxAlters
    /\ Valid(t, meta, rows)
    /\ catalog' = [u \in DOMAIN catalog |-> IF u = t THEN meta ELSE side[u]]
    /\ tables' = [tables EXCEPT ![t] = rows]
    /\ schemas' = [schemas EXCEPT ![t] = DOMAIN meta.columns]
    /\ alters' = alters + 1

AddColumn(t, c, def) ==
    LET meta == catalog[t]
        local == DOMAIN meta.columns
        added == StoredColumn(c, def, t)
    IN  /\ c \notin local
        /\ Cardinality(ColumnsUsed) < MaxColumns
        /\ ValidRef(def.foreignKey, t, local)
        /\ added.notNull => DOMAIN tables[t] = {}
        /\ AlterTo(t,
             [meta EXCEPT !.columns =
                [d \in local \cup {c} |-> IF d = c THEN added ELSE @[d]]],
             [s \in DOMAIN tables[t] |->
                [d \in local \cup {c} |-> IF d = c THEN Empty ELSE tables[t][s][d]]],
             catalog)

\* No column of any table, the dropped one included, may reference it, and no
\* CHECK of the table or of another of its columns may mention it.
DropAllowed(t, c) ==
    LET meta == catalog[t] IN
    /\ DOMAIN meta.columns # {c}
    /\ ~meta.columns[c].primaryKey
    /\ \A u \in DOMAIN catalog : \A d \in DOMAIN catalog[u].columns :
         catalog[u].columns[d].foreignKey # <<t, c>>
    /\ \A check \in meta.tableChecks : ~Mentions(check, c)
    /\ \A d \in DOMAIN meta.columns \ {c} : ~Mentions(meta.columns[d].check, c)

\* Mutant: the rows keep the cells of the dropped column.
DropColumnOfHeader(t, c) ==
    /\ c \in DOMAIN catalog[t].columns
    /\ DropAllowed(t, c)
    /\ AlterTo(t,
         [catalog[t] EXCEPT !.columns = [d \in DOMAIN @ \ {c} |-> @[d]]],
         tables[t], catalog)

DropColumn(t, c) ==
    LET kept == DOMAIN catalog[t].columns \ {c} IN
    /\ c \in DOMAIN catalog[t].columns
    /\ DropAllowed(t, c)
    /\ AlterTo(t,
         [catalog[t] EXCEPT !.columns = [d \in kept |-> @[d]]],
         [s \in DOMAIN tables[t] |-> [d \in kept |-> tables[t][s][d]]],
         catalog)

\* Mutant: foreign keys keep the name the column had.
RepointedNowhere(columns, t, from, to) == columns

\* The metadata of any table once column from of t is called to.
RepointedColumns(columns, t, from, to) ==
    [d \in DOMAIN columns |->
       [columns[d] EXCEPT !.foreignKey = IF @ = <<t, from>> THEN <<t, to>> ELSE @]]

RenamedColumns(columns, t, from, to) ==
    [d \in (DOMAIN columns \ {from}) \cup {to} |->
       LET old == IF d = to THEN from ELSE d IN
       [RepointedColumns(columns, t, from, to)[old]
          EXCEPT !.check = RenamedCheck(@, from, to)]]

RenameColumn(t, from, to) ==
    LET meta == catalog[t]
        names == (DOMAIN meta.columns \ {from}) \cup {to}
    IN  /\ from \in DOMAIN meta.columns
        /\ to \notin DOMAIN meta.columns
        /\ AlterTo(t,
             [columns |-> RenamedColumns(meta.columns, t, from, to),
              tableChecks |-> {RenamedCheck(k, from, to) : k \in meta.tableChecks}],
             [s \in DOMAIN tables[t] |->
                [d \in names |-> tables[t][s][IF d = to THEN from ELSE d]]],
             [u \in DOMAIN catalog |->
                [catalog[u] EXCEPT !.columns = RepointedColumns(@, t, from, to)]])

RetypedColumn(c, column, type) ==
    [column EXCEPT !.type = StoredTypeOf(type), !.check = RetypedCheck(c, @, type)]

AlterColumnType(t, c, type) ==
    LET meta == catalog[t]
        stored == StoredTypeOf(type)
    IN  /\ c \in DOMAIN meta.columns
        /\ \A s \in DOMAIN tables[t] :
             IF type.kind = "ENUM"
             THEN tables[t][s][c] \in type.values \cup {Empty}
             ELSE Accepts(stored, tables[t][s][c])
        /\ AlterTo(t,
             [meta EXCEPT !.columns[c] = RetypedColumn(c, @, type)],
             [s \in DOMAIN tables[t] |->
                [tables[t][s] EXCEPT ![c] = Canonical(stored, @)]],
             catalog)

\* Mutant: the new key columns may stay nullable.
KeyColumnNullable(column, several) ==
    [column EXCEPT !.primaryKey = TRUE, !.unique = IF several THEN FALSE ELSE @]

\* UNIQUE is taken off a column that becomes one of several key columns.
KeyColumn(column, several) ==
    [column EXCEPT !.primaryKey = TRUE, !.notNull = TRUE,
                   !.unique = IF several THEN FALSE ELSE @]

\* Columns become key columns beside those the table already has.
AddPrimaryKey(t, cols) ==
    /\ cols # {} /\ cols \subseteq DOMAIN catalog[t].columns
    /\ AlterTo(t,
         [catalog[t] EXCEPT !.columns =
            [d \in DOMAIN @ |->
               IF d \in cols THEN KeyColumn(@[d], Cardinality(cols) > 1) ELSE @[d]]],
         tables[t], catalog)

AddUnique(t, cols) ==
    /\ cols # {} /\ cols \subseteq DOMAIN catalog[t].columns
    /\ AlterTo(t,
         [catalog[t] EXCEPT !.columns =
            [d \in DOMAIN @ |->
               IF d \in cols THEN [@[d] EXCEPT !.unique = TRUE] ELSE @[d]]],
         tables[t], catalog)

\* The target is looked up in the catalog even when it is t itself.
AddForeignKey(t, c, ref) ==
    /\ c \in DOMAIN catalog[t].columns
    /\ Resolves(ref[1])
    /\ ref[2] \in DOMAIN catalog[CanonicalName(ref[1])].columns
    /\ AlterTo(t,
         [catalog[t] EXCEPT !.columns[c].foreignKey =
            <<CanonicalName(ref[1]), ref[2]>>],
         tables[t], catalog)

AddCheck(t, check) ==
    AlterTo(t, [catalog[t] EXCEPT !.tableChecks = @ \cup {check}], tables[t], catalog)

----------------------------------------------------------------------------
(* INSERT, UPDATE, DELETE *)

ReplaceRows(t, rows) ==
    /\ tables' = [tables EXCEPT ![t] = rows]
    /\ UNCHANGED <<catalog, schemas, alters>>

\* The row an INSERT builds from the values it gives some of the columns.
InsertedRow(meta, given) ==
    [c \in DOMAIN meta.columns |->
       IF c \in DOMAIN given THEN Canonical(meta.columns[c].type, given[c]) ELSE Empty]

\* given[s] is one VALUES list, over the same columns in every row.
Insert(t, given) ==
    LET meta == catalog[t]
        rows == [s \in DOMAIN tables[t] \cup DOMAIN given |->
                   IF s \in DOMAIN given THEN InsertedRow(meta, given[s])
                   ELSE tables[t][s]]
    IN  /\ DOMAIN given # {} /\ DOMAIN given \cap DOMAIN tables[t] = {}
        /\ Cardinality(RowsUsed) + Cardinality(DOMAIN given) <= MaxRows
        /\ \A s \in DOMAIN given : \A c \in DOMAIN given[s] :
             /\ c \in DOMAIN meta.columns
             /\ Accepts(meta.columns[c].type, given[s][c])
        /\ Valid(t, meta, rows)
        /\ ReplaceRows(t, rows)

\* An assignment's right-hand side is a literal or a column of the old row.
Evaluate(operand, row) == IF operand \in DOMAIN row THEN row[operand] ELSE operand

Assigned(meta, assignments, row) ==
    [c \in DOMAIN row |->
       IF c \in DOMAIN assignments
       THEN Canonical(meta.columns[c].type, Evaluate(assignments[c], row))
       ELSE row[c]]

\* The WHERE clause is the set of rows it is true of.  Only the constraints of
\* t itself are validated.
Update(t, where, assignments) ==
    LET meta == catalog[t]
        matched == {s \in DOMAIN tables[t] : tables[t][s] \in where}
        rows == [s \in DOMAIN tables[t] |->
                   IF s \in matched THEN Assigned(meta, assignments, tables[t][s])
                   ELSE tables[t][s]]
    IN  /\ DOMAIN assignments # {}
        /\ \A c \in DOMAIN assignments :
             /\ c \in DOMAIN meta.columns
             /\ assignments[c] \in DOMAIN meta.columns \cup Cell
             /\ \A s \in matched :
                  Accepts(meta.columns[c].type, Evaluate(assignments[c], tables[t][s]))
        /\ matched # {}
        /\ Valid(t, meta, rows)
        /\ ReplaceRows(t, rows)

Delete(t, where) ==
    LET matched == {s \in DOMAIN tables[t] : tables[t][s] \in where} IN
    /\ matched # {}
    /\ DeleteAllowed(t, [s \in matched |-> tables[t][s]])
    /\ ReplaceRows(t, [s \in DOMAIN tables[t] \ matched |-> tables[t][s]])

----------------------------------------------------------------------------

Ddl ==
    \/ \E t \in Table, C \in SUBSET Column, checks \in SUBSET TableChecks :
         \E defs \in [C -> ColumnDefs] : CreateTable(t, defs, checks)
    \/ \E t \in DOMAIN catalog, c \in Column :
         \/ \E def \in ColumnDefs : AddColumn(t, c, def)
         \/ DropColumn(t, c)
         \/ \E to \in Column : RenameColumn(t, c, to)
         \/ \E type \in NewTypes : AlterColumnType(t, c, type)
         \/ \E ref \in Ref : AddForeignKey(t, c, ref)
    \/ \E t \in DOMAIN catalog, cols \in SUBSET Column :
         AddPrimaryKey(t, cols) \/ AddUnique(t, cols)
    \/ \E t \in DOMAIN catalog, check \in TableChecks : AddCheck(t, check)

Dml ==
    \E t \in DOMAIN catalog :
      \/ \E S \in SUBSET Slot, C \in SUBSET Column :
           /\ Cardinality(S) * Cardinality(C) <= MaxCells
           /\ \E given \in [S -> [C -> Literals]] : Insert(t, given)
      \/ \E where \in SUBSET {tables[t][s] : s \in DOMAIN tables[t]} :
           \/ \E C \in SUBSET Column :
                /\ Cardinality(C) <= MaxSet
                /\ \E assignments \in [C -> Column \cup Literals] :
                     Update(t, where, assignments)
           \/ Delete(t, where)

Next == Ddl \/ Dml

Spec == Init /\ [][Next]_vars

----------------------------------------------------------------------------
(* Safety *)

\* The header of a table, the columns of its metadata and the cells of each of
\* its rows are about the same columns, through every ALTER TABLE.
SchemaAgrees ==
    \A t \in DOMAIN catalog :
        /\ schemas[t] = DOMAIN catalog[t].columns
        /\ \A s \in DOMAIN tables[t] : DOMAIN tables[t][s] = schemas[t]

\* Every committed row satisfies the types, NOT NULL, CHECK, UNIQUE and PRIMARY
\* KEY constraints that its table declares now, whenever they were declared.
OwnConstraintsHold ==
    \A t \in DOMAIN catalog : OwnConstraints(catalog[t], tables[t])

\* Every foreign key names a table and a column that exist, under the name the
\* catalog holds them by: DROP COLUMN refuses and RENAME COLUMN follows, in the
\* metadata of other tables too.  Without it the next validation of the
\* referring table throws or finds nothing.
ForeignKeysResolve ==
    \A t \in DOMAIN catalog : \A c \in DOMAIN catalog[t].columns :
        LET ref == catalog[t].columns[c].foreignKey IN
        ref # NoRef =>
            ref[1] \in DOMAIN catalog /\ ref[2] \in DOMAIN catalog[ref[1]].columns

\* No two tables have names that differ only in case, so findTableCI is never
\* ambiguous and no statement is refused for it.
NamesUnambiguous ==
    \A t, u \in DOMAIN catalog : Fold[t] = Fold[u] => t = u

\* A key column stays NOT NULL: no sequence of ALTERs leaves one that is not.
KeysNotNull ==
    \A t \in DOMAIN catalog : \A c \in PrimaryKey(catalog[t]) :
        catalog[t].columns[c].notNull

\* The rows of table t whose foreign key in column c finds no target.
Orphans(t, c) ==
    LET ref == catalog[t].columns[c].foreignKey IN
    IF ref = NoRef THEN {}
    ELSE Dangling(tables[t], c, Referenced(ref, t, tables[t]))

\* FOREIGN KEY (docs/features.md:52): every foreign key value is a value of the
\* column it references.
ReferencesHold ==
    \A t \in DOMAIN catalog : \A c \in DOMAIN catalog[t].columns : Orphans(t, c) = {}

\* Row s of t is left behind by column c's foreign key: the row stays as it is,
\* and of the rows it references one loses the value, deleted from t itself or
\* rewritten in place in another table that keeps its rows and its columns.
LosesTarget(t, c, s) ==
    LET ref == catalog[t].columns[c].foreignKey
        target == tables[ref[1]]
    IN  /\ ref # NoRef /\ catalog'[t].columns[c].foreignKey = ref
        /\ schemas' = schemas
        /\ s \in DOMAIN tables[t] /\ tables'[t][s] = tables[t][s]
        /\ \E r \in DOMAIN target :
             /\ target[r][ref[2]] = tables[t][s][c]
             /\ IF ref[1] = t
                THEN r \notin DOMAIN tables'[t]
                ELSE /\ tables'[t] = tables[t]
                     /\ DOMAIN tables'[ref[1]] = DOMAIN target
                     /\ tables'[ref[1]][r][ref[2]] # target[r][ref[2]]

\* A row becomes an orphan only when UPDATE or ALTER COLUMN TYPE rewrites the
\* value it references, in another table, or DELETE takes that value from the
\* table the row itself is in.  The row is then one that was there before, and
\* its table is not written otherwise: no INSERT, no UPDATE of the referring
\* table, no RENAME and no new FOREIGN KEY leaves a row dangling, and DELETE
\* never orphans a row of another table.
OrphansOnlyByRewrite ==
    [][\A t \in DOMAIN catalog' : \A c \in DOMAIN catalog'[t].columns :
         \A s \in Orphans(t, c)' :
            /\ t \in DOMAIN catalog /\ c \in DOMAIN catalog[t].columns
            /\ s \in Orphans(t, c) \/ LosesTarget(t, c, s)
      ]_vars
=============================================================================
