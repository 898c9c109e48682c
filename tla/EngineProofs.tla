---------------------------- MODULE EngineProofs ----------------------------
(***************************************************************************)
(* What the statements of Engine keep, for every set of names, values and  *)
(* inputs.  Every ALTER TABLE ends in AlterTo and every INSERT, UPDATE and *)
(* DELETE in ReplaceRows, so each invariant has one lemma about either and *)
(* one step per statement that shows what it hands to them.                *)
(*                                                                         *)
(* First the types and the agreement of columns, then the constraints that *)
(* rest on them: names that stay unambiguous, the constraints of a table   *)
(* on its own rows, keys that stay NOT NULL and foreign keys whose target  *)
(* stays in the catalog.                                                   *)
(***************************************************************************)
EXTENDS Engine, TLAPS

Inv == TypeOK /\ SchemaAgrees

----------------------------------------------------------------------------
(* Values *)

\* What a BOOLEAN column stores in place of a cell is a cell.
LEMMA CanonicalIsCell ==
    ASSUME NEW type, NEW v \in Cell
    PROVE  Canonical(type, v) \in Cell
BY ValuesAssumption DEF Canonical, Cell

\* An ENUM's list is a check of its column.
LEMMA EnumCheckIsCheck ==
    ASSUME NEW c \in Column, NEW values \in SUBSET Value
    PROVE  EnumCheck(c, values) \in Check
<1>1. <<c>> \in Seq(Column) /\ \A v \in values : <<v>> \in Seq(Cell \cup Column)
  BY DEF Cell
<1>2. {<<v>> : v \in values} \in SUBSET Seq(Cell \cup Column)
  BY <1>1
<1>3. {1} \in SUBSET Nat
  OBVIOUS
<1> QED BY <1>1, <1>2, <1>3 DEF EnumCheck, Check

LEMMA ConjoinedIsCheck ==
    ASSUME NEW check \in Check PROVE Conjoined(check) \in Check
BY DEF Conjoined, Check

\* Renaming leaves a check a check.
LEMMA RenamedCheckIsCheck ==
    ASSUME NEW check \in Check, NEW from \in Column, NEW to \in Column
    PROVE  RenamedCheck(check, from, to) \in Check
<1> DEFINE args == [i \in DOMAIN check.args |->
                      IF check.args[i] = from THEN to ELSE check.args[i]]
           compact == check.compact /\ Cardinality(check.accepts) <= 1
<1>1. /\ check.args \in Seq(Column) /\ check.left \in SUBSET Nat
      /\ check.accepts \in SUBSET Seq(Cell \cup Column)
  BY DEF Check
<1>2. DOMAIN check.args = 1..Len(check.args) /\ Len(check.args) \in Nat
  BY <1>1
<1>3. args \in Seq(Column)
  BY <1>1, <1>2
<1>4. compact \in BOOLEAN
  OBVIOUS
<1> QED BY <1>1, <1>3, <1>4, Zenon DEF RenamedCheck, Check

LEMMA StoredTypeIsType ==
    ASSUME NEW type \in LogicalType PROVE StoredTypeOf(type) \in StoredType
BY DEF LogicalType, StoredTypeOf, StoredType

LEMMA EnumValues ==
    ASSUME NEW type \in LogicalType, type.kind = "ENUM"
    PROVE  type.values \in SUBSET Value
BY DEF LogicalType, StoredType

LEMMA DeclaredCheckIsCheck ==
    ASSUME NEW c \in Column, NEW def \in ColumnDef
    PROVE  DeclaredCheck(c, def) \in Check
<1>1. def.check \in Check /\ def.type \in LogicalType
  BY DEF ColumnDef
<1> QED BY <1>1, EnumValues, EnumCheckIsCheck, ConjoinedIsCheck DEF DeclaredCheck

LEMMA RetypedCheckIsCheck ==
    ASSUME NEW c \in Column, NEW check \in Check, NEW type \in LogicalType
    PROVE  RetypedCheck(c, check, type) \in Check
BY EnumValues, EnumCheckIsCheck, ConjoinedIsCheck DEF RetypedCheck

----------------------------------------------------------------------------
(* Names *)

\* A name that resolves, does so to a table there is.
LEMMA CanonicalNameIsTable ==
    ASSUME NEW name, Resolves(name)
    PROVE  CanonicalName(name) \in DOMAIN catalog
<1>1. PICK t \in Candidates(name) : Candidates(name) = {t}
  BY DEF Resolves
<1>2. CanonicalName(name) = t
  BY <1>1 DEF CanonicalName
<1>3. t \in DOMAIN catalog
  BY <1>1 DEF Candidates
<1> QED BY <1>2, <1>3

\* A foreign key that is accepted is stored as a reference to a column that the
\* table it names has, or, for one to t itself, that is among its local columns.
LEMMA StoredRefResolves ==
    ASSUME NEW t, NEW local, NEW ref \in Ref, ValidRef(ref, t, local), ref # NoRef
    PROVE  LET stored == StoredRef(ref, t) IN
           \/ stored[1] = t /\ stored[2] \in local /\ stored = ref
           \/ /\ stored = <<CanonicalName(ref[1]), ref[2]>>
              /\ stored[1] \in DOMAIN catalog
              /\ stored[2] \in DOMAIN catalog[stored[1]].columns
<1>1. ref[2] \in ReferableColumns(ref[1], t, local)
  BY DEF ValidRef
<1>2. CASE ref[1] = t
  BY <1>1, <1>2 DEF StoredRef, ReferableColumns
<1>3. CASE ref[1] # t
  <2>1. Resolves(ref[1]) /\ ref[2] \in DOMAIN catalog[CanonicalName(ref[1])].columns
    BY <1>1, <1>3 DEF ReferableColumns
  <2> QED BY <1>3, <2>1, CanonicalNameIsTable DEF StoredRef
<1> QED BY <1>2, <1>3

LEMMA StoredRefIsRef ==
    ASSUME TypeOK, NEW t, NEW local, NEW ref \in Ref \cup {NoRef}, ValidRef(ref, t, local)
    PROVE  StoredRef(ref, t) \in Ref \cup {NoRef}
<1>1. CASE ref = NoRef
  BY <1>1 DEF StoredRef
<1>2. CASE ref # NoRef
  <2>1. ref \in Ref /\ ref[2] \in Column
    BY <1>2 DEF Ref
  <2>2. DOMAIN catalog \subseteq Table
    BY DEF TypeOK
  <2> QED BY <1>2, <2>1, <2>2, StoredRefResolves DEF Ref
<1> QED BY <1>1, <1>2

\* The metadata of a declared column is well typed.
LEMMA StoredColumnIsMetadata ==
    ASSUME TypeOK, NEW t, NEW local, NEW c \in Column, NEW def \in ColumnDef,
           ValidRef(def.foreignKey, t, local)
    PROVE  StoredColumn(c, def, t) \in ColumnMetadata
<1>1. /\ def.type \in LogicalType /\ def.primaryKey \in BOOLEAN
      /\ def.unique \in BOOLEAN /\ def.notNull \in BOOLEAN
      /\ def.foreignKey \in Ref \cup {NoRef}
  BY DEF ColumnDef
<1>2. StoredRef(def.foreignKey, t) \in Ref \cup {NoRef}
  BY <1>1, StoredRefIsRef
<1>3. StoredTypeOf(def.type) \in StoredType /\ DeclaredCheck(c, def) \in Check
  BY <1>1, StoredTypeIsType, DeclaredCheckIsCheck
<1>4. (def.notNull \/ def.primaryKey) \in BOOLEAN
  OBVIOUS
<1> QED BY <1>1, <1>2, <1>3, <1>4, Zenon DEF StoredColumn, ColumnMetadata

----------------------------------------------------------------------------
(* The common ends of the statements *)

\* AlterTo keeps the types and the agreement of header, metadata and rows when
\* it is given metadata and rows about the same columns.
LEMMA AlterToKeepsInv ==
    ASSUME Inv, NEW t \in DOMAIN catalog, NEW meta, NEW rows, NEW side,
           IsTableMetadata(meta), IsRows(rows),
           \A s \in DOMAIN rows : DOMAIN rows[s] = DOMAIN meta.columns,
           \A u \in DOMAIN catalog :
              IsTableMetadata(side[u]) /\ DOMAIN side[u].columns = DOMAIN catalog[u].columns,
           AlterTo(t, meta, rows, side)
    PROVE  Inv'
<1> USE DEF AlterTo
<1>1. /\ catalog' = [u \in DOMAIN catalog |-> IF u = t THEN meta ELSE side[u]]
      /\ DOMAIN catalog' = DOMAIN catalog
      /\ \A u \in DOMAIN catalog : catalog'[u] = IF u = t THEN meta ELSE side[u]
  OBVIOUS
<1>2. /\ DOMAIN tables' = DOMAIN catalog
      /\ \A u \in DOMAIN catalog : tables'[u] = IF u = t THEN rows ELSE tables[u]
      /\ tables' = [u \in DOMAIN catalog |-> tables'[u]]
  BY DEF Inv, TypeOK
<1>3. /\ schemas' \in [DOMAIN catalog -> SUBSET Column]
      /\ \A u \in DOMAIN catalog :
           schemas'[u] = IF u = t THEN DOMAIN meta.columns ELSE schemas[u]
  <2>1. DOMAIN meta.columns \in SUBSET Column
    BY DEF IsTableMetadata, Partial
  <2>2. schemas' = [schemas EXCEPT ![t] = DOMAIN meta.columns]
        /\ schemas \in [DOMAIN catalog -> SUBSET Column]
    BY DEF Inv, TypeOK
  <2> QED BY <2>1, <2>2
<1>4. alters' \in 0..MaxAlters
  BY InputsAssumption DEF Inv, TypeOK
<1>5. TypeOK'
  <2>1. DOMAIN catalog' \subseteq Table /\ catalog' = [u \in DOMAIN catalog' |-> catalog'[u]]
    BY <1>1 DEF Inv, TypeOK
  <2>2. \A u \in DOMAIN catalog' : IsTableMetadata(catalog'[u])
    BY <1>1
  <2>3. \A u \in DOMAIN catalog' : IsRows(tables'[u])
    BY <1>1, <1>2 DEF Inv, TypeOK
  <2> QED BY <1>1, <1>2, <1>3, <1>4, <2>1, <2>2, <2>3 DEF TypeOK
<1>6. SchemaAgrees'
  <2> SUFFICES ASSUME NEW u \in DOMAIN catalog
               PROVE  /\ schemas'[u] = DOMAIN catalog'[u].columns
                      /\ \A s \in DOMAIN tables'[u] : DOMAIN tables'[u][s] = schemas'[u]
    BY <1>1 DEF SchemaAgrees
  <2>1. CASE u = t
    BY <1>1, <1>2, <1>3, <2>1
  <2>2. CASE u # t
    BY <1>1, <1>2, <1>3, <2>2 DEF Inv, SchemaAgrees
  <2> QED BY <2>1, <2>2
<1> QED BY <1>5, <1>6 DEF Inv

\* ReplaceRows does so when it is given rows of the table's columns.
LEMMA ReplaceRowsKeepsInv ==
    ASSUME Inv, NEW t \in DOMAIN catalog, NEW rows, IsRows(rows),
           \A s \in DOMAIN rows : DOMAIN rows[s] = DOMAIN catalog[t].columns,
           ReplaceRows(t, rows)
    PROVE  Inv'
<1>1. catalog' = catalog /\ schemas' = schemas /\ alters' = alters
  BY DEF ReplaceRows
<1>2. /\ DOMAIN tables' = DOMAIN catalog
      /\ \A u \in DOMAIN catalog : tables'[u] = IF u = t THEN rows ELSE tables[u]
      /\ tables' = [u \in DOMAIN catalog |-> tables'[u]]
  BY DEF Inv, TypeOK, ReplaceRows
<1>3. TypeOK'
  BY <1>1, <1>2 DEF Inv, TypeOK
<1>4. SchemaAgrees'
  BY <1>1, <1>2 DEF Inv, SchemaAgrees
<1> QED BY <1>3, <1>4 DEF Inv

----------------------------------------------------------------------------
(* CREATE TABLE and ALTER TABLE *)

LEMMA CreateTableKeepsInv ==
    ASSUME Inv, NEW t \in Table, NEW C \in SUBSET Column,
           NEW checks \in SUBSET TableChecks, NEW defs \in [C -> ColumnDefs],
           CreateTable(t, defs, checks)
    PROVE  Inv'
<1> DEFINE columns == [c \in DOMAIN defs |-> StoredColumn(c, defs[c], t)]
           meta == [columns |-> columns, tableChecks |-> checks]
<1>1. /\ catalog' = [u \in DOMAIN catalog \cup {t} |-> IF u = t THEN meta ELSE catalog[u]]
      /\ tables' = [u \in DOMAIN tables \cup {t} |-> IF u = t THEN <<>> ELSE tables[u]]
      /\ schemas' = [u \in DOMAIN schemas \cup {t} |-> IF u = t THEN DOMAIN defs ELSE schemas[u]]
      /\ alters' = alters
      /\ \A c \in DOMAIN defs : ValidRef(defs[c].foreignKey, t, DOMAIN defs)
  BY DEF CreateTable
<1>2. DOMAIN tables = DOMAIN catalog /\ DOMAIN schemas = DOMAIN catalog
  BY DEF Inv, TypeOK
<1>3. columns \in [C -> ColumnMetadata]
  BY <1>1, StoredColumnIsMetadata, InputsAssumption DEF Inv
<1>4. IsTableMetadata(meta)
  BY <1>3, InputsAssumption DEF IsTableMetadata, Partial
<1>5. DOMAIN << >> = {}
  OBVIOUS
<1>6. IsRows(<< >>)
  BY <1>5 DEF IsRows
<1>7. TypeOK'
  <2>1. DOMAIN catalog' \subseteq Table /\ catalog' = [u \in DOMAIN catalog' |-> catalog'[u]]
    BY <1>1 DEF Inv, TypeOK
  <2>2. \A u \in DOMAIN catalog' : IsTableMetadata(catalog'[u])
    BY <1>1, <1>4 DEF Inv, TypeOK
  <2>3. tables' = [u \in DOMAIN catalog' |-> tables'[u]]
    BY <1>1, <1>2
  <2>4. \A u \in DOMAIN catalog' : IsRows(tables'[u])
    BY <1>1, <1>2, <1>6 DEF Inv, TypeOK
  <2>5. schemas' \in [DOMAIN catalog' -> SUBSET Column]
    BY <1>1, <1>2 DEF Inv, TypeOK
  <2> QED BY <1>1, <2>1, <2>2, <2>3, <2>4, <2>5 DEF Inv, TypeOK
<1>8. SchemaAgrees'
  <2> SUFFICES ASSUME NEW u \in DOMAIN catalog'
               PROVE  /\ schemas'[u] = DOMAIN catalog'[u].columns
                      /\ \A s \in DOMAIN tables'[u] : DOMAIN tables'[u][s] = schemas'[u]
    BY DEF SchemaAgrees
  <2>1. CASE u = t
    BY <1>1, <1>2, <1>5, <2>1
  <2>2. CASE u # t
    BY <1>1, <1>2, <2>2 DEF Inv, SchemaAgrees
  <2> QED BY <2>1, <2>2
<1> QED BY <1>7, <1>8 DEF Inv

\* What TypeOK and SchemaAgrees say of one table and of the catalog as a side
\* argument of AlterTo.
LEMMA TableFacts ==
    ASSUME Inv, NEW t \in DOMAIN catalog
    PROVE  /\ t \in Table /\ t \in DOMAIN tables
           /\ catalog[t] = [columns |-> catalog[t].columns,
                            tableChecks |-> catalog[t].tableChecks]
           /\ DOMAIN catalog[t].columns \subseteq Column
           /\ catalog[t].columns \in [DOMAIN catalog[t].columns -> ColumnMetadata]
           /\ catalog[t].tableChecks \subseteq Check
           /\ DOMAIN tables[t] \subseteq Slot
           /\ \A s \in DOMAIN tables[t] :
                tables[t][s] \in [DOMAIN catalog[t].columns -> Cell]
           /\ \A u \in DOMAIN catalog : IsTableMetadata(catalog[u])
BY DEF Inv, TypeOK, SchemaAgrees, IsTableMetadata, IsRows, Partial

LEMMA AddColumnKeepsInv ==
    ASSUME Inv, NEW t \in DOMAIN catalog, NEW c \in Column, NEW def \in ColumnDefs,
           AddColumn(t, c, def)
    PROVE  Inv'
<1> DEFINE local == DOMAIN catalog[t].columns
           columns == [d \in local \cup {c} |->
                         IF d = c THEN StoredColumn(c, def, t) ELSE catalog[t].columns[d]]
           meta == [columns |-> columns, tableChecks |-> catalog[t].tableChecks]
           rows == [s \in DOMAIN tables[t] |->
                      [d \in local \cup {c} |-> IF d = c THEN Empty ELSE tables[t][s][d]]]
<1>1. ValidRef(def.foreignKey, t, local)
  BY DEF AddColumn
<1>2. StoredColumn(c, def, t) \in ColumnMetadata
  BY <1>1, StoredColumnIsMetadata, InputsAssumption DEF Inv
<1>3. columns \in [local \cup {c} -> ColumnMetadata]
  BY <1>2, TableFacts
<1>4. IsTableMetadata(meta)
  BY <1>3, TableFacts DEF IsTableMetadata, Partial
<1>5. \A s \in DOMAIN rows : rows[s] \in [local \cup {c} -> Cell]
  BY TableFacts DEF Cell
<1>6. IsRows(rows)
  BY <1>5, TableFacts DEF IsRows, Partial
<1>7. AlterTo(t, meta, rows, catalog)
  <2>1. AlterTo(t, [catalog[t] EXCEPT !.columns = columns], rows, catalog)
    BY Zenon DEF AddColumn
  <2>2. [catalog[t] EXCEPT !.columns = columns] = meta
    <3> HIDE DEF columns
    <3> QED BY TableFacts
  <2> QED BY <2>1, <2>2, Zenon
<1>8. \A s \in DOMAIN rows : DOMAIN rows[s] = DOMAIN meta.columns
  OBVIOUS
<1> HIDE DEF meta, rows
<1> QED BY <1>4, <1>6, <1>7, <1>8, TableFacts, AlterToKeepsInv

LEMMA DropColumnKeepsInv ==
    ASSUME Inv, NEW t \in DOMAIN catalog, NEW c \in Column, DropColumn(t, c)
    PROVE  Inv'
<1> DEFINE kept == DOMAIN catalog[t].columns \ {c}
           meta == [columns |-> [d \in kept |-> catalog[t].columns[d]],
                    tableChecks |-> catalog[t].tableChecks]
           rows == [s \in DOMAIN tables[t] |-> [d \in kept |-> tables[t][s][d]]]
<1>1. IsTableMetadata(meta)
  BY TableFacts DEF IsTableMetadata, Partial
<1>2. \A s \in DOMAIN rows : rows[s] \in [kept -> Cell]
  BY TableFacts
<1>3. IsRows(rows)
  BY <1>2, TableFacts DEF IsRows, Partial
<1>4. AlterTo(t, meta, rows, catalog)
  BY TableFacts DEF DropColumn
<1>5. \A s \in DOMAIN rows : DOMAIN rows[s] = DOMAIN meta.columns
  OBVIOUS
<1> HIDE DEF meta, rows
<1> QED BY <1>1, <1>3, <1>4, <1>5, TableFacts, AlterToKeepsInv

\* Repointing foreign keys changes nothing else about the columns of a table.
LEMMA RepointedColumnsTyped ==
    ASSUME NEW columns, Partial(columns, Column, ColumnMetadata),
           NEW t \in Table, NEW from \in Column, NEW to \in Column
    PROVE  RepointedColumns(columns, t, from, to) \in [DOMAIN columns -> ColumnMetadata]
<1> SUFFICES ASSUME NEW d \in DOMAIN columns
             PROVE  [columns[d] EXCEPT !.foreignKey =
                       IF @ = <<t, from>> THEN <<t, to>> ELSE @] \in ColumnMetadata
  BY DEF RepointedColumns
<1>1. columns[d] \in ColumnMetadata
  BY DEF Partial
<1>2. <<t, to>> \in Ref
  BY DEF Ref
<1> QED BY <1>1, <1>2 DEF ColumnMetadata

LEMMA CheckReplaced ==
    ASSUME NEW m \in ColumnMetadata, NEW k \in Check
    PROVE  [m EXCEPT !.check = k] \in ColumnMetadata
BY DEF ColumnMetadata

LEMMA RenameColumnKeepsInv ==
    ASSUME Inv, NEW t \in DOMAIN catalog, NEW from \in Column, NEW to \in Column,
           RenameColumn(t, from, to)
    PROVE  Inv'
<1> DEFINE old == catalog[t].columns
           names == (DOMAIN old \ {from}) \cup {to}
           columns == RenamedColumns(old, t, from, to)
           checks == {RenamedCheck(k, from, to) : k \in catalog[t].tableChecks}
           meta == [columns |-> columns, tableChecks |-> checks]
           rows == [s \in DOMAIN tables[t] |->
                      [d \in names |-> tables[t][s][IF d = to THEN from ELSE d]]]
           side == [u \in DOMAIN catalog |->
                      [catalog[u] EXCEPT !.columns = RepointedColumns(@, t, from, to)]]
<1>1. from \in DOMAIN old /\ to \notin DOMAIN old /\ t \in Table
  BY TableFacts DEF RenameColumn
<1>2. columns \in [names -> ColumnMetadata]
  <2> SUFFICES ASSUME NEW d \in names,
                      NEW e \in DOMAIN old, e = IF d = to THEN from ELSE d
               PROVE  [RepointedColumns(old, t, from, to)[e]
                         EXCEPT !.check = RenamedCheck(@, from, to)] \in ColumnMetadata
    BY <1>1 DEF RenamedColumns
  <2>1. RepointedColumns(old, t, from, to)[e] \in ColumnMetadata
    BY <1>1, TableFacts, RepointedColumnsTyped DEF Partial
  <2>2. RepointedColumns(old, t, from, to)[e].check \in Check
    BY <2>1 DEF ColumnMetadata
  <2>3. RenamedCheck(RepointedColumns(old, t, from, to)[e].check, from, to) \in Check
    BY <2>2, RenamedCheckIsCheck
  <2> DEFINE m == RepointedColumns(old, t, from, to)[e]
             k == RenamedCheck(m.check, from, to)
  <2>4. [m EXCEPT !.check = k] \in ColumnMetadata
    <3> HIDE DEF m, k
    <3> QED BY <2>1, <2>3, CheckReplaced DEF m, k
  <2> QED BY <2>4
<1>3. checks \subseteq Check
  BY TableFacts, RenamedCheckIsCheck
<1>4. names \subseteq Column
  BY TableFacts
<1>5. IsTableMetadata(meta)
  <2> HIDE DEF columns, checks, names
  <2> QED BY <1>2, <1>3, <1>4 DEF IsTableMetadata, Partial
<1>6. \A s \in DOMAIN rows : rows[s] \in [names -> Cell]
  BY <1>1, TableFacts
<1>7. IsRows(rows)
  BY <1>4, <1>6, TableFacts DEF IsRows, Partial
<1>8. ASSUME NEW u \in DOMAIN catalog
      PROVE  IsTableMetadata(side[u]) /\ DOMAIN side[u].columns = DOMAIN catalog[u].columns
  <2> DEFINE repointed == RepointedColumns(catalog[u].columns, t, from, to)
  <2>1. repointed \in [DOMAIN catalog[u].columns -> ColumnMetadata]
    BY <1>1, TableFacts, RepointedColumnsTyped DEF IsTableMetadata
  <2>2. side[u] = [columns |-> repointed, tableChecks |-> catalog[u].tableChecks]
    BY TableFacts
  <2> HIDE DEF repointed, side
  <2> QED BY <2>1, <2>2, TableFacts DEF IsTableMetadata, Partial
<1>9. AlterTo(t, meta, rows, side)
  BY DEF RenameColumn
<1>10. \A s \in DOMAIN rows : DOMAIN rows[s] = DOMAIN meta.columns
  <2>1. DOMAIN columns = names
    BY <1>2
  <2> HIDE DEF columns, checks
  <2> QED BY <2>1
<1> HIDE DEF meta, rows, side
<1> QED BY <1>5, <1>7, <1>8, <1>9, <1>10, TableFacts, AlterToKeepsInv

\* The constraints an ALTER TABLE adds or changes on existing columns leave
\* the columns themselves and the rows' cells what they are.
LEMMA SameColumnsKeepInv ==
    ASSUME Inv, NEW t \in DOMAIN catalog, NEW columns, NEW checks, NEW rows,
           columns \in [DOMAIN catalog[t].columns -> ColumnMetadata], checks \subseteq Check,
           rows \in [DOMAIN tables[t] -> [DOMAIN catalog[t].columns -> Cell]],
           AlterTo(t, [columns |-> columns, tableChecks |-> checks], rows, catalog)
    PROVE  Inv'
<1> DEFINE meta == [columns |-> columns, tableChecks |-> checks]
<1>1. IsTableMetadata(meta)
  BY TableFacts DEF IsTableMetadata, Partial
<1>2. IsRows(rows)
  BY TableFacts DEF IsRows, Partial
<1>3. \A s \in DOMAIN rows : DOMAIN rows[s] = DOMAIN meta.columns
  OBVIOUS
<1> HIDE DEF meta
<1> QED BY <1>1, <1>2, <1>3, TableFacts, AlterToKeepsInv DEF meta

\* The rows of a table, as the argument the lemma above takes.
LEMMA RowsAsTheyAre ==
    ASSUME Inv, NEW t \in DOMAIN catalog
    PROVE  tables[t] \in [DOMAIN tables[t] -> [DOMAIN catalog[t].columns -> Cell]]
<1>1. tables[t] = [s \in DOMAIN tables[t] |-> tables[t][s]]
  BY DEF Inv, TypeOK, IsRows
<1> QED BY <1>1, TableFacts

\* Updates two levels down the metadata of a table, one level at a time.
LEMMA ForeignKeyReplaced ==
    ASSUME NEW C, NEW old \in [C -> ColumnMetadata], NEW checks, NEW c \in C, NEW x
    PROVE  [[columns |-> old, tableChecks |-> checks] EXCEPT !.columns[c].foreignKey = x]
             = [columns |-> [old EXCEPT ![c] = [old[c] EXCEPT !.foreignKey = x]],
                tableChecks |-> checks]
OBVIOUS

LEMMA ColumnReplaced ==
    ASSUME NEW C, NEW old \in [C -> ColumnMetadata], NEW checks, NEW c \in C, NEW x
    PROVE  [[columns |-> old, tableChecks |-> checks] EXCEPT !.columns[c] = x]
             = [columns |-> [old EXCEPT ![c] = x], tableChecks |-> checks]
OBVIOUS

LEMMA AlterColumnTypeKeepsInv ==
    ASSUME Inv, NEW t \in DOMAIN catalog, NEW c \in Column, NEW type \in NewTypes,
           AlterColumnType(t, c, type)
    PROVE  Inv'
<1> DEFINE old == catalog[t].columns
           stored == StoredTypeOf(type)
           check == RetypedCheck(c, old[c].check, type)
           new == RetypedColumn(c, old[c], type)
           columns == [old EXCEPT ![c] = new]
           rows == [s \in DOMAIN tables[t] |->
                      [tables[t][s] EXCEPT ![c] = Canonical(stored, @)]]
<1>1. c \in DOMAIN old /\ type \in LogicalType
  BY InputsAssumption DEF AlterColumnType
<1>2. old \in [DOMAIN old -> ColumnMetadata] /\ old[c] \in ColumnMetadata
  BY <1>1, TableFacts
<1>3. stored \in StoredType /\ check \in Check
  <2>1. old[c].check \in Check
    BY <1>2 DEF ColumnMetadata
  <2> QED BY <1>1, <2>1, StoredTypeIsType, RetypedCheckIsCheck
<1>4. new \in ColumnMetadata
  <2>1. new = [old[c] EXCEPT !.type = stored, !.check = check]
    BY Zenon DEF RetypedColumn
  <2> HIDE DEF stored, check, new
  <2> QED BY <1>2, <1>3, <2>1 DEF ColumnMetadata
<1>5. columns \in [DOMAIN old -> ColumnMetadata]
  <2> HIDE DEF new
  <2> QED BY <1>1, <1>2, <1>4
<1>6. rows \in [DOMAIN tables[t] -> [DOMAIN old -> Cell]]
  <2> SUFFICES ASSUME NEW s \in DOMAIN tables[t]
               PROVE  [tables[t][s] EXCEPT ![c] = Canonical(stored, @)] \in [DOMAIN old -> Cell]
    OBVIOUS
  <2>1. tables[t][s] \in [DOMAIN old -> Cell]
    BY TableFacts
  <2>2. Canonical(stored, tables[t][s][c]) \in Cell
    BY <1>1, <2>1, CanonicalIsCell
  <2> HIDE DEF stored
  <2> QED BY <2>1, <2>2
<1>7. AlterTo(t, [columns |-> columns, tableChecks |-> catalog[t].tableChecks], rows, catalog)
  <2> DEFINE meta == [columns |-> old, tableChecks |-> catalog[t].tableChecks]
  <2>1. AlterTo(t, [catalog[t] EXCEPT !.columns[c] = new], rows, catalog)
    BY Zenon DEF AlterColumnType
  <2>2. catalog[t] = meta
    BY TableFacts
  <2>3. [meta EXCEPT !.columns[c] = new]
          = [columns |-> [old EXCEPT ![c] = new], tableChecks |-> catalog[t].tableChecks]
    <3> HIDE DEF new, old
    <3> QED BY <1>1, <1>2, ColumnReplaced
  <2>4. [catalog[t] EXCEPT !.columns[c] = new] = [meta EXCEPT !.columns[c] = new]
    BY <2>2, Zenon
  <2> QED BY <2>1, <2>3, <2>4, Zenon
<1> HIDE DEF columns, rows
<1> QED BY <1>5, <1>6, <1>7, TableFacts, SameColumnsKeepInv

LEMMA AddPrimaryKeyKeepsInv ==
    ASSUME Inv, NEW t \in DOMAIN catalog, NEW cols \in SUBSET Column, AddPrimaryKey(t, cols)
    PROVE  Inv'
<1> DEFINE old == catalog[t].columns
           several == Cardinality(cols) > 1
           columns == [d \in DOMAIN old |->
                         IF d \in cols THEN KeyColumn(old[d], several) ELSE old[d]]
<1>1. \A d \in DOMAIN old : old[d] \in ColumnMetadata
  BY TableFacts
<1>2. \A d \in DOMAIN old : KeyColumn(old[d], several) \in ColumnMetadata
  <2> HIDE DEF several
  <2> QED BY <1>1 DEF ColumnMetadata, KeyColumn
<1>3. columns \in [DOMAIN old -> ColumnMetadata]
  BY <1>1, <1>2
<1>4. AlterTo(t, [columns |-> columns, tableChecks |-> catalog[t].tableChecks],
              tables[t], catalog)
  <2>1. AlterTo(t, [catalog[t] EXCEPT !.columns = columns], tables[t], catalog)
    BY Zenon DEF AddPrimaryKey
  <2>2. [catalog[t] EXCEPT !.columns = columns]
          = [columns |-> columns, tableChecks |-> catalog[t].tableChecks]
    <3> HIDE DEF columns
    <3> QED BY TableFacts
  <2> QED BY <2>1, <2>2, Zenon
<1> HIDE DEF columns
<1> QED BY <1>3, <1>4, TableFacts, RowsAsTheyAre, SameColumnsKeepInv

LEMMA AddUniqueKeepsInv ==
    ASSUME Inv, NEW t \in DOMAIN catalog, NEW cols \in SUBSET Column, AddUnique(t, cols)
    PROVE  Inv'
<1> DEFINE old == catalog[t].columns
           columns == [d \in DOMAIN old |->
                         IF d \in cols THEN [old[d] EXCEPT !.unique = TRUE] ELSE old[d]]
<1>1. \A d \in DOMAIN old : old[d] \in ColumnMetadata
  BY TableFacts
<1>2. \A d \in DOMAIN old : [old[d] EXCEPT !.unique = TRUE] \in ColumnMetadata
  BY <1>1 DEF ColumnMetadata
<1>3. columns \in [DOMAIN old -> ColumnMetadata]
  BY <1>1, <1>2
<1>4. AlterTo(t, [columns |-> columns, tableChecks |-> catalog[t].tableChecks],
              tables[t], catalog)
  <2>1. AlterTo(t, [catalog[t] EXCEPT !.columns = columns], tables[t], catalog)
    BY Zenon DEF AddUnique
  <2>2. [catalog[t] EXCEPT !.columns = columns]
          = [columns |-> columns, tableChecks |-> catalog[t].tableChecks]
    <3> HIDE DEF columns
    <3> QED BY TableFacts
  <2> QED BY <2>1, <2>2, Zenon
<1> HIDE DEF columns
<1> QED BY <1>3, <1>4, TableFacts, RowsAsTheyAre, SameColumnsKeepInv

LEMMA AddForeignKeyKeepsInv ==
    ASSUME Inv, NEW t \in DOMAIN catalog, NEW c \in Column, NEW ref \in Ref,
           AddForeignKey(t, c, ref)
    PROVE  Inv'
<1> DEFINE old == catalog[t].columns
           target == <<CanonicalName(ref[1]), ref[2]>>
           columns == [old EXCEPT ![c] = [old[c] EXCEPT !.foreignKey = target]]
<1>1. c \in DOMAIN old /\ Resolves(ref[1])
  BY DEF AddForeignKey
<1>2. target \in Ref
  <2>1. CanonicalName(ref[1]) \in DOMAIN catalog
    BY <1>1, CanonicalNameIsTable
  <2>2. CanonicalName(ref[1]) \in Table
    BY <2>1 DEF Inv, TypeOK
  <2> QED BY <2>2 DEF Ref
<1>3. old \in [DOMAIN old -> ColumnMetadata] /\ old[c] \in ColumnMetadata
  BY <1>1, TableFacts
<1>4. [old[c] EXCEPT !.foreignKey = target] \in ColumnMetadata
  <2> HIDE DEF target
  <2> QED BY <1>2, <1>3 DEF ColumnMetadata
<1>5. columns \in [DOMAIN old -> ColumnMetadata]
  BY <1>1, <1>3, <1>4
<1>6. AlterTo(t, [columns |-> columns, tableChecks |-> catalog[t].tableChecks],
              tables[t], catalog)
  <2>1. AlterTo(t, [catalog[t] EXCEPT !.columns[c].foreignKey = target], tables[t], catalog)
    BY Zenon DEF AddForeignKey
  <2> DEFINE meta == [columns |-> old, tableChecks |-> catalog[t].tableChecks]
  <2>2. catalog[t] = meta
    BY TableFacts
  <2>3. [meta EXCEPT !.columns[c].foreignKey = target]
          = [columns |-> columns, tableChecks |-> catalog[t].tableChecks]
    <3> HIDE DEF target, old
    <3> QED BY <1>1, <1>3, ForeignKeyReplaced
  <2>4. [catalog[t] EXCEPT !.columns[c].foreignKey = target]
          = [meta EXCEPT !.columns[c].foreignKey = target]
    BY <2>2, Zenon
  <2> QED BY <2>1, <2>3, <2>4, Zenon
<1> HIDE DEF columns
<1> QED BY <1>5, <1>6, TableFacts, RowsAsTheyAre, SameColumnsKeepInv

LEMMA AddCheckKeepsInv ==
    ASSUME Inv, NEW t \in DOMAIN catalog, NEW check \in TableChecks, AddCheck(t, check)
    PROVE  Inv'
<1> DEFINE checks == catalog[t].tableChecks \cup {check}
<1>1. checks \subseteq Check
  BY TableFacts, InputsAssumption
<1>2. AlterTo(t, [columns |-> catalog[t].columns, tableChecks |-> checks],
              tables[t], catalog)
  <2>1. AlterTo(t, [catalog[t] EXCEPT !.tableChecks = checks], tables[t], catalog)
    BY Zenon DEF AddCheck
  <2>2. [catalog[t] EXCEPT !.tableChecks = checks]
          = [columns |-> catalog[t].columns, tableChecks |-> checks]
    <3> HIDE DEF checks
    <3> QED BY TableFacts
  <2> QED BY <2>1, <2>2, Zenon
<1> HIDE DEF checks
<1> QED BY <1>1, <1>2, TableFacts, RowsAsTheyAre, SameColumnsKeepInv

----------------------------------------------------------------------------
(* INSERT, UPDATE, DELETE *)

LEMMA InsertKeepsInv ==
    ASSUME Inv, NEW t \in DOMAIN catalog, NEW S \in SUBSET Slot, NEW C \in SUBSET Column,
           NEW given \in [S -> [C -> Literals]], Insert(t, given)
    PROVE  Inv'
<1> DEFINE columns == catalog[t].columns
           rows == [s \in DOMAIN tables[t] \cup DOMAIN given |->
                      IF s \in DOMAIN given THEN InsertedRow(catalog[t], given[s])
                      ELSE tables[t][s]]
<1>1. ASSUME NEW s \in S PROVE InsertedRow(catalog[t], given[s]) \in [DOMAIN columns -> Cell]
  <2> SUFFICES ASSUME NEW c \in DOMAIN columns
               PROVE  (IF c \in DOMAIN given[s] THEN Canonical(columns[c].type, given[s][c])
                       ELSE Empty) \in Cell
    BY DEF InsertedRow
  <2>1. c \in DOMAIN given[s] => given[s][c] \in Cell
    BY InputsAssumption
  <2> QED BY <2>1, CanonicalIsCell DEF Cell
<1>2. \A s \in DOMAIN rows : rows[s] \in [DOMAIN columns -> Cell]
  BY <1>1, TableFacts
<1>3. IsRows(rows)
  BY <1>2, TableFacts DEF IsRows, Partial
<1>4. ReplaceRows(t, rows)
  BY Zenon DEF Insert
<1> HIDE DEF rows
<1> QED BY <1>2, <1>3, <1>4, ReplaceRowsKeepsInv

LEMMA UpdateKeepsInv ==
    ASSUME Inv, NEW t \in DOMAIN catalog, NEW where, NEW assignments,
           Update(t, where, assignments)
    PROVE  Inv'
<1> DEFINE columns == catalog[t].columns
           matched == {s \in DOMAIN tables[t] : tables[t][s] \in where}
           rows == [s \in DOMAIN tables[t] |->
                      IF s \in matched THEN Assigned(catalog[t], assignments, tables[t][s])
                      ELSE tables[t][s]]
<1>1. \A c \in DOMAIN assignments : assignments[c] \in DOMAIN columns \cup Cell
  BY DEF Update
<1>2. ASSUME NEW s \in DOMAIN tables[t]
      PROVE  Assigned(catalog[t], assignments, tables[t][s]) \in [DOMAIN columns -> Cell]
  <2>1. tables[t][s] \in [DOMAIN columns -> Cell]
    BY TableFacts
  <2>2. \A c \in DOMAIN assignments : Evaluate(assignments[c], tables[t][s]) \in Cell
    BY <1>1, <2>1 DEF Evaluate
  <2> SUFFICES ASSUME NEW c \in DOMAIN columns
               PROVE  (IF c \in DOMAIN assignments
                       THEN Canonical(columns[c].type, Evaluate(assignments[c], tables[t][s]))
                       ELSE tables[t][s][c]) \in Cell
    BY <2>1 DEF Assigned
  <2> QED BY <2>1, <2>2, CanonicalIsCell
<1>3. \A s \in DOMAIN rows : rows[s] \in [DOMAIN columns -> Cell]
  BY <1>2, TableFacts
<1>4. IsRows(rows)
  BY <1>3, TableFacts DEF IsRows, Partial
<1>5. ReplaceRows(t, rows)
  BY Zenon DEF Update
<1> HIDE DEF rows
<1> QED BY <1>3, <1>4, <1>5, ReplaceRowsKeepsInv

LEMMA DeleteKeepsInv ==
    ASSUME Inv, NEW t \in DOMAIN catalog, NEW where, Delete(t, where)
    PROVE  Inv'
<1> DEFINE kept == DOMAIN tables[t] \ {s \in DOMAIN tables[t] : tables[t][s] \in where}
           rows == [s \in kept |-> tables[t][s]]
<1>1. \A s \in DOMAIN rows : rows[s] \in [DOMAIN catalog[t].columns -> Cell]
  BY TableFacts
<1>2. IsRows(rows)
  BY <1>1, TableFacts DEF IsRows, Partial
<1>3. ReplaceRows(t, rows)
  BY Zenon DEF Delete
<1> HIDE DEF rows
<1> QED BY <1>1, <1>2, <1>3, ReplaceRowsKeepsInv

----------------------------------------------------------------------------
(* Types and agreement *)

\* The empty database is typed.
LEMMA InitInv == Init => Inv
<1> SUFFICES ASSUME Init PROVE Inv
  OBVIOUS
<1>1. DOMAIN catalog = {} /\ DOMAIN tables = {} /\ DOMAIN schemas = {}
  BY DEF Init
<1>2. catalog = [t \in DOMAIN catalog |-> catalog[t]]
  BY DEF Init
<1>3. tables = [t \in DOMAIN catalog |-> tables[t]]
  BY DEF Init
<1>4. schemas \in [DOMAIN catalog -> SUBSET Column]
  BY DEF Init
<1>5. alters \in 0..MaxAlters
  BY InputsAssumption DEF Init
<1> QED BY <1>1, <1>2, <1>3, <1>4, <1>5 DEF Inv, TypeOK, SchemaAgrees

\* Every statement keeps the database typed and header, metadata and rows in
\* agreement.
LEMMA NextInv == Inv /\ [Next]_vars => Inv'
<1> SUFFICES ASSUME Inv, [Next]_vars PROVE Inv'
  OBVIOUS
<1>1. CASE Ddl
  <2>1. ASSUME NEW t \in Table, NEW C \in SUBSET Column, NEW checks \in SUBSET TableChecks,
               NEW defs \in [C -> ColumnDefs], CreateTable(t, defs, checks)
        PROVE  Inv'
    BY <2>1, CreateTableKeepsInv
  <2>2. ASSUME NEW t \in DOMAIN catalog, NEW c \in Column,
               \/ \E def \in ColumnDefs : AddColumn(t, c, def)
               \/ DropColumn(t, c)
               \/ \E to \in Column : RenameColumn(t, c, to)
               \/ \E type \in NewTypes : AlterColumnType(t, c, type)
               \/ \E ref \in Ref : AddForeignKey(t, c, ref)
        PROVE  Inv'
    BY <2>2, AddColumnKeepsInv, DropColumnKeepsInv, RenameColumnKeepsInv,
       AlterColumnTypeKeepsInv, AddForeignKeyKeepsInv
  <2>3. ASSUME NEW t \in DOMAIN catalog, NEW cols \in SUBSET Column,
               AddPrimaryKey(t, cols) \/ AddUnique(t, cols)
        PROVE  Inv'
    BY <2>3, AddPrimaryKeyKeepsInv, AddUniqueKeepsInv
  <2>4. ASSUME NEW t \in DOMAIN catalog, NEW check \in TableChecks, AddCheck(t, check)
        PROVE  Inv'
    BY <2>4, AddCheckKeepsInv
  <2> QED BY <1>1, <2>1, <2>2, <2>3, <2>4, Zenon DEF Ddl
<1>2. CASE Dml
  <2>1. ASSUME NEW t \in DOMAIN catalog, NEW S \in SUBSET Slot, NEW C \in SUBSET Column,
               NEW given \in [S -> [C -> Literals]], Insert(t, given)
        PROVE  Inv'
    BY <2>1, InsertKeepsInv
  <2>2. ASSUME NEW t \in DOMAIN catalog, NEW where, NEW assignments,
               Update(t, where, assignments)
        PROVE  Inv'
    BY <2>2, UpdateKeepsInv
  <2>3. ASSUME NEW t \in DOMAIN catalog, NEW where, Delete(t, where)
        PROVE  Inv'
    BY <2>3, DeleteKeepsInv
  <2> QED BY <1>2, <2>1, <2>2, <2>3, Zenon DEF Dml
<1>3. CASE UNCHANGED vars
  BY <1>3 DEF vars, Inv, TypeOK, SchemaAgrees
<1> QED BY <1>1, <1>2, <1>3 DEF Next

\* Every reachable database is well typed.
THEOREM EngineTypes == Spec => []TypeOK
<1>1. Inv => TypeOK
  BY DEF Inv
<1> QED BY <1>1, InitInv, NextInv, PTL DEF Spec

\* Header, metadata and rows are about the same columns after any sequence of
\* statements (executeAlterTable, executeInsert, executeUpdate).
THEOREM SchemasStayInAgreement == Spec => []SchemaAgrees
<1>1. Inv => SchemaAgrees
  BY DEF Inv
<1> QED BY <1>1, InitInv, NextInv, PTL DEF Spec

----------------------------------------------------------------------------
(* What the common ends do to the catalog and the rows *)

\* AlterTo gives t its new metadata and rows, which were validated, and the
\* other tables the side metadata.
LEMMA AlterToEffect ==
    ASSUME Inv, NEW t \in DOMAIN catalog, NEW meta, NEW rows, NEW side,
           AlterTo(t, meta, rows, side)
    PROVE  /\ DOMAIN catalog' = DOMAIN catalog
           /\ catalog'[t] = meta /\ tables'[t] = rows /\ OwnConstraints(meta, rows)
           /\ \A u \in DOMAIN catalog \ {t} : catalog'[u] = side[u] /\ tables'[u] = tables[u]
BY DEF AlterTo, Valid, Inv, TypeOK

\* CREATE TABLE adds an empty table under a name no table answers to.
LEMMA CreateTableEffect ==
    ASSUME Inv, NEW t \in Table, NEW defs, NEW checks, CreateTable(t, defs, checks)
    PROVE  /\ DOMAIN catalog' = DOMAIN catalog \cup {t} /\ t \notin DOMAIN catalog
           /\ \A u \in DOMAIN catalog : Fold[u] # Fold[t]
           /\ catalog'[t].columns = [c \in DOMAIN defs |-> StoredColumn(c, defs[c], t)]
           /\ DOMAIN tables'[t] = {}
           /\ \A u \in DOMAIN catalog : catalog'[u] = catalog[u] /\ tables'[u] = tables[u]
<1>1. DOMAIN tables = DOMAIN catalog
  BY DEF Inv, TypeOK
<1>2. Candidates(t) = {}
  BY DEF CreateTable
<1>3. t \notin DOMAIN catalog /\ \A u \in DOMAIN catalog : Fold[u] # Fold[t]
  BY <1>2 DEF Candidates
<1>4. DOMAIN << >> = {}
  OBVIOUS
<1> QED BY <1>1, <1>3, <1>4 DEF CreateTable

\* Each ALTER TABLE, by the columns it leaves t with.  All but RENAME COLUMN
\* leave the metadata of other tables alone.
Alters(t, columns) ==
    \E rows, checks : AlterTo(t, [columns |-> columns, tableChecks |-> checks], rows, catalog)

LEMMA AddColumnAlters ==
    ASSUME Inv, NEW t \in DOMAIN catalog, NEW c \in Column, NEW def, AddColumn(t, c, def)
    PROVE  Alters(t, [d \in DOMAIN catalog[t].columns \cup {c} |->
                        IF d = c THEN StoredColumn(c, def, t) ELSE catalog[t].columns[d]])
<1> DEFINE local == DOMAIN catalog[t].columns
           columns == [d \in local \cup {c} |->
                         IF d = c THEN StoredColumn(c, def, t) ELSE catalog[t].columns[d]]
           rows == [s \in DOMAIN tables[t] |->
                      [d \in local \cup {c} |-> IF d = c THEN Empty ELSE tables[t][s][d]]]
<1>1. AlterTo(t, [catalog[t] EXCEPT !.columns = columns], rows, catalog)
  BY Zenon DEF AddColumn
<1>2. [catalog[t] EXCEPT !.columns = columns]
        = [columns |-> columns, tableChecks |-> catalog[t].tableChecks]
  <2> HIDE DEF columns
  <2> QED BY TableFacts
<1>3. AlterTo(t, [columns |-> columns, tableChecks |-> catalog[t].tableChecks], rows, catalog)
  BY <1>1, <1>2, Zenon
<1> QED BY <1>3, Zenon DEF Alters

LEMMA DropColumnAlters ==
    ASSUME Inv, NEW t \in DOMAIN catalog, NEW c \in Column, DropColumn(t, c)
    PROVE  Alters(t, [d \in DOMAIN catalog[t].columns \ {c} |-> catalog[t].columns[d]])
<1> DEFINE kept == DOMAIN catalog[t].columns \ {c}
           columns == [d \in kept |-> catalog[t].columns[d]]
           rows == [s \in DOMAIN tables[t] |-> [d \in kept |-> tables[t][s][d]]]
<1>1. AlterTo(t, [catalog[t] EXCEPT !.columns = columns], rows, catalog)
  BY Zenon DEF DropColumn
<1>2. [catalog[t] EXCEPT !.columns = columns]
        = [columns |-> columns, tableChecks |-> catalog[t].tableChecks]
  <2> HIDE DEF columns
  <2> QED BY TableFacts
<1>3. AlterTo(t, [columns |-> columns, tableChecks |-> catalog[t].tableChecks], rows, catalog)
  BY <1>1, <1>2, Zenon
<1> QED BY <1>3, Zenon DEF Alters

\* The ALTERs that change metadata of columns that stay.
LEMMA AlterColumnTypeAlters ==
    ASSUME Inv, NEW t \in DOMAIN catalog, NEW c \in Column, NEW type,
           AlterColumnType(t, c, type)
    PROVE  c \in DOMAIN catalog[t].columns
           /\ Alters(t, [catalog[t].columns EXCEPT
                           ![c] = RetypedColumn(c, catalog[t].columns[c], type)])
<1> DEFINE old == catalog[t].columns
           new == RetypedColumn(c, old[c], type)
           meta == [columns |-> old, tableChecks |-> catalog[t].tableChecks]
           rows == [s \in DOMAIN tables[t] |->
                      [tables[t][s] EXCEPT ![c] = Canonical(StoredTypeOf(type), @)]]
<1>1. c \in DOMAIN old /\ AlterTo(t, [catalog[t] EXCEPT !.columns[c] = new], rows, catalog)
  BY Zenon DEF AlterColumnType
<1>2. catalog[t] = meta /\ old \in [DOMAIN old -> ColumnMetadata]
  BY TableFacts
<1>3. [meta EXCEPT !.columns[c] = new]
        = [columns |-> [old EXCEPT ![c] = new], tableChecks |-> catalog[t].tableChecks]
  <2> HIDE DEF new, old
  <2> QED BY <1>1, <1>2, ColumnReplaced
<1>4. [catalog[t] EXCEPT !.columns[c] = new] = [meta EXCEPT !.columns[c] = new]
  BY <1>2, Zenon
<1>5. AlterTo(t, [columns |-> [old EXCEPT ![c] = new], tableChecks |-> catalog[t].tableChecks],
              rows, catalog)
  BY <1>1, <1>3, <1>4, Zenon
<1> QED BY <1>1, <1>5, Zenon DEF Alters

LEMMA AddPrimaryKeyAlters ==
    ASSUME Inv, NEW t \in DOMAIN catalog, NEW cols, AddPrimaryKey(t, cols)
    PROVE  Alters(t, [d \in DOMAIN catalog[t].columns |->
                        IF d \in cols
                        THEN KeyColumn(catalog[t].columns[d], Cardinality(cols) > 1)
                        ELSE catalog[t].columns[d]])
<1> DEFINE old == catalog[t].columns
           columns == [d \in DOMAIN old |->
                         IF d \in cols THEN KeyColumn(old[d], Cardinality(cols) > 1)
                         ELSE old[d]]
<1>1. AlterTo(t, [catalog[t] EXCEPT !.columns = columns], tables[t], catalog)
  BY Zenon DEF AddPrimaryKey
<1>2. [catalog[t] EXCEPT !.columns = columns]
        = [columns |-> columns, tableChecks |-> catalog[t].tableChecks]
  <2> HIDE DEF columns
  <2> QED BY TableFacts
<1>3. AlterTo(t, [columns |-> columns, tableChecks |-> catalog[t].tableChecks],
              tables[t], catalog)
  BY <1>1, <1>2, Zenon
<1> QED BY <1>3, Zenon DEF Alters

LEMMA AddUniqueAlters ==
    ASSUME Inv, NEW t \in DOMAIN catalog, NEW cols, AddUnique(t, cols)
    PROVE  Alters(t, [d \in DOMAIN catalog[t].columns |->
                        IF d \in cols THEN [catalog[t].columns[d] EXCEPT !.unique = TRUE]
                        ELSE catalog[t].columns[d]])
<1> DEFINE old == catalog[t].columns
           columns == [d \in DOMAIN old |->
                         IF d \in cols THEN [old[d] EXCEPT !.unique = TRUE] ELSE old[d]]
<1>1. AlterTo(t, [catalog[t] EXCEPT !.columns = columns], tables[t], catalog)
  BY Zenon DEF AddUnique
<1>2. [catalog[t] EXCEPT !.columns = columns]
        = [columns |-> columns, tableChecks |-> catalog[t].tableChecks]
  <2> HIDE DEF columns
  <2> QED BY TableFacts
<1>3. AlterTo(t, [columns |-> columns, tableChecks |-> catalog[t].tableChecks],
              tables[t], catalog)
  BY <1>1, <1>2, Zenon
<1> QED BY <1>3, Zenon DEF Alters

LEMMA AddForeignKeyAlters ==
    ASSUME Inv, NEW t \in DOMAIN catalog, NEW c, NEW ref, AddForeignKey(t, c, ref)
    PROVE  LET target == <<CanonicalName(ref[1]), ref[2]>> IN
           /\ c \in DOMAIN catalog[t].columns
           /\ target[1] \in DOMAIN catalog
           /\ target[2] \in DOMAIN catalog[target[1]].columns
           /\ Alters(t, [catalog[t].columns EXCEPT
                           ![c] = [catalog[t].columns[c] EXCEPT !.foreignKey = target]])
<1> DEFINE old == catalog[t].columns
           target == <<CanonicalName(ref[1]), ref[2]>>
           meta == [columns |-> old, tableChecks |-> catalog[t].tableChecks]
           columns == [old EXCEPT ![c] = [old[c] EXCEPT !.foreignKey = target]]
<1>1. /\ c \in DOMAIN old /\ Resolves(ref[1])
      /\ ref[2] \in DOMAIN catalog[CanonicalName(ref[1])].columns
      /\ AlterTo(t, [catalog[t] EXCEPT !.columns[c].foreignKey = target], tables[t], catalog)
  BY Zenon DEF AddForeignKey
<1>2. catalog[t] = meta /\ old \in [DOMAIN old -> ColumnMetadata]
  BY TableFacts
<1>3. [meta EXCEPT !.columns[c].foreignKey = target]
        = [columns |-> columns, tableChecks |-> catalog[t].tableChecks]
  <2> HIDE DEF target, old
  <2> QED BY <1>1, <1>2, ForeignKeyReplaced
<1>4. [catalog[t] EXCEPT !.columns[c].foreignKey = target]
        = [meta EXCEPT !.columns[c].foreignKey = target]
  BY <1>2, Zenon
<1>5. AlterTo(t, [columns |-> columns, tableChecks |-> catalog[t].tableChecks],
              tables[t], catalog)
  BY <1>1, <1>3, <1>4, Zenon
<1>6. target[1] = CanonicalName(ref[1]) /\ target[2] = ref[2]
  OBVIOUS
<1>7. Alters(t, columns)
  BY <1>5, Zenon DEF Alters
<1> HIDE DEF columns
<1> QED BY <1>1, <1>6, <1>7, CanonicalNameIsTable DEF columns

LEMMA AddCheckAlters ==
    ASSUME Inv, NEW t \in DOMAIN catalog, NEW check, AddCheck(t, check)
    PROVE  Alters(t, catalog[t].columns)
<1> DEFINE checks == catalog[t].tableChecks \cup {check}
<1>1. AlterTo(t, [catalog[t] EXCEPT !.tableChecks = checks], tables[t], catalog)
  BY Zenon DEF AddCheck
<1>2. [catalog[t] EXCEPT !.tableChecks = checks]
        = [columns |-> catalog[t].columns, tableChecks |-> checks]
  <2> HIDE DEF checks
  <2> QED BY TableFacts
<1>3. AlterTo(t, [columns |-> catalog[t].columns, tableChecks |-> checks], tables[t], catalog)
  BY <1>1, <1>2, Zenon
<1> QED BY <1>3, Zenon DEF Alters

\* RENAME COLUMN, and the metadata it leaves the other tables with.
Repointed(t, from, to) ==
    [u \in DOMAIN catalog |->
       [catalog[u] EXCEPT !.columns = RepointedColumns(@, t, from, to)]]

LEMMA RenameColumnAlters ==
    ASSUME Inv, NEW t \in DOMAIN catalog, NEW from, NEW to, RenameColumn(t, from, to)
    PROVE  /\ from \in DOMAIN catalog[t].columns /\ to \notin DOMAIN catalog[t].columns
           /\ \E rows, checks :
                AlterTo(t, [columns |-> RenamedColumns(catalog[t].columns, t, from, to),
                            tableChecks |-> checks],
                        rows, Repointed(t, from, to))
<1> DEFINE names == (DOMAIN catalog[t].columns \ {from}) \cup {to}
           rows == [s \in DOMAIN tables[t] |->
                      [d \in names |-> tables[t][s][IF d = to THEN from ELSE d]]]
           checks == {RenamedCheck(k, from, to) : k \in catalog[t].tableChecks}
<1>1. AlterTo(t, [columns |-> RenamedColumns(catalog[t].columns, t, from, to),
                  tableChecks |-> checks],
              rows, Repointed(t, from, to))
  BY Zenon DEF RenameColumn, Repointed
<1>2. from \in DOMAIN catalog[t].columns /\ to \notin DOMAIN catalog[t].columns
  BY Zenon DEF RenameColumn
<1> QED BY <1>1, <1>2, Zenon

\* A row that is validated again under metadata that differs in foreign keys
\* only is judged as it was.
LEMMA RepointedKeepsOwnConstraints ==
    ASSUME Inv, NEW t, NEW from, NEW to, NEW u \in DOMAIN catalog,
           OwnConstraints(catalog[u], tables[u])
    PROVE  OwnConstraints(Repointed(t, from, to)[u], tables[u])
<1> DEFINE old == catalog[u].columns
           new == RepointedColumns(old, t, from, to)
           meta == [columns |-> new, tableChecks |-> catalog[u].tableChecks]
<1>1. catalog[u] = [columns |-> old, tableChecks |-> catalog[u].tableChecks]
      /\ old \in [DOMAIN old -> ColumnMetadata]
  BY TableFacts
<1>2. Repointed(t, from, to)[u] = meta
  <2>1. Repointed(t, from, to)[u] = [catalog[u] EXCEPT !.columns = new]
    BY Zenon DEF Repointed
  <2> HIDE DEF new, old
  <2> QED BY <1>1, <2>1
<1>3. DOMAIN new = DOMAIN old
  BY DEF RepointedColumns
<1>4. \A c \in DOMAIN old :
        /\ new[c].type = old[c].type /\ new[c].primaryKey = old[c].primaryKey
        /\ new[c].unique = old[c].unique /\ new[c].notNull = old[c].notNull
        /\ new[c].check = old[c].check
  BY <1>1 DEF RepointedColumns, ColumnMetadata
<1> HIDE DEF new, old
<1>5. PrimaryKey(meta) = PrimaryKey(catalog[u])
  BY <1>1, <1>3, <1>4 DEF PrimaryKey, old
<1>6. \A r : RowAccepted(catalog[u], r) => RowAccepted(meta, r)
  BY <1>1, <1>3, <1>4, <1>5 DEF RowAccepted, ColumnAccepts, old
<1>7. \A c \in DOMAIN old : EnforcesUnique(meta, c) = EnforcesUnique(catalog[u], c)
  BY <1>1, <1>3, <1>4, <1>5 DEF EnforcesUnique, Composite, old
<1>8. \A r, s : Compatible(catalog[u], r, s) => Compatible(meta, r, s)
  BY <1>1, <1>3, <1>5, <1>7 DEF Compatible, old
<1> QED BY <1>2, <1>6, <1>8 DEF OwnConstraints

----------------------------------------------------------------------------
(* The statements, by what they do *)

\* INSERT, UPDATE and DELETE give one table rows that its constraints accept,
\* or some of the rows it has.
RowsReplaced(t) ==
    \E rows :
        /\ ReplaceRows(t, rows)
        /\ \/ OwnConstraints(catalog[t], rows)
           \/ /\ DOMAIN rows \subseteq DOMAIN tables[t]
              /\ \A s \in DOMAIN rows : rows[s] = tables[t][s]

LEMMA DmlReplacesRows ==
    ASSUME Dml PROVE \E t \in DOMAIN catalog : RowsReplaced(t)
<1>1. ASSUME NEW t \in DOMAIN catalog, NEW given, Insert(t, given)
      PROVE  RowsReplaced(t)
  <2> DEFINE rows == [s \in DOMAIN tables[t] \cup DOMAIN given |->
                        IF s \in DOMAIN given THEN InsertedRow(catalog[t], given[s])
                        ELSE tables[t][s]]
  <2>1. Valid(t, catalog[t], rows) /\ ReplaceRows(t, rows)
    BY <1>1, Zenon DEF Insert
  <2> HIDE DEF rows
  <2> QED BY <2>1, Zenon DEF RowsReplaced, Valid
<1>2. ASSUME NEW t \in DOMAIN catalog, NEW where, NEW assignments,
             Update(t, where, assignments)
      PROVE  RowsReplaced(t)
  <2> DEFINE matched == {s \in DOMAIN tables[t] : tables[t][s] \in where}
             rows == [s \in DOMAIN tables[t] |->
                        IF s \in matched THEN Assigned(catalog[t], assignments, tables[t][s])
                        ELSE tables[t][s]]
  <2>1. Valid(t, catalog[t], rows) /\ ReplaceRows(t, rows)
    BY <1>2, Zenon DEF Update
  <2> HIDE DEF rows
  <2> QED BY <2>1, Zenon DEF RowsReplaced, Valid
<1>3. ASSUME NEW t \in DOMAIN catalog, NEW where, Delete(t, where)
      PROVE  RowsReplaced(t)
  <2> DEFINE kept == DOMAIN tables[t] \ {s \in DOMAIN tables[t] : tables[t][s] \in where}
             rows == [s \in kept |-> tables[t][s]]
  <2>1. ReplaceRows(t, rows)
    BY <1>3, Zenon DEF Delete
  <2>2. DOMAIN rows \subseteq DOMAIN tables[t] /\ \A s \in DOMAIN rows : rows[s] = tables[t][s]
    OBVIOUS
  <2> HIDE DEF rows
  <2> QED BY <2>1, <2>2, Zenon DEF RowsReplaced
<1> QED BY <1>1, <1>2, <1>3, Zenon DEF Dml

\* The ALTERs that add, drop or change columns of t and leave alone the
\* metadata of every other table.
AltersAlone(t) ==
    \/ \E c \in Column :
         \/ \E def \in ColumnDefs : AddColumn(t, c, def)
         \/ DropColumn(t, c)
         \/ \E type \in NewTypes : AlterColumnType(t, c, type)
         \/ \E ref \in Ref : AddForeignKey(t, c, ref)
    \/ \E cols \in SUBSET Column : AddPrimaryKey(t, cols) \/ AddUnique(t, cols)
    \/ \E check \in TableChecks : AddCheck(t, check)

LEMMA AltersAloneAlters ==
    ASSUME Inv, NEW t \in DOMAIN catalog, AltersAlone(t)
    PROVE  \E columns : Alters(t, columns)
BY AddColumnAlters, DropColumnAlters, AlterColumnTypeAlters, AddForeignKeyAlters,
   AddPrimaryKeyAlters, AddUniqueAlters, AddCheckAlters, Zenon DEF AltersAlone

\* What an ALTER TABLE by itself leaves behind.
LEMMA AltersEffect ==
    ASSUME Inv, NEW t \in DOMAIN catalog, NEW columns, Alters(t, columns)
    PROVE  /\ DOMAIN catalog' = DOMAIN catalog
           /\ catalog'[t].columns = columns /\ OwnConstraints(catalog'[t], tables'[t])
           /\ \A u \in DOMAIN catalog \ {t} : catalog'[u] = catalog[u] /\ tables'[u] = tables[u]
<1>1. PICK rows, checks :
        AlterTo(t, [columns |-> columns, tableChecks |-> checks], rows, catalog)
  BY Zenon DEF Alters
<1> DEFINE meta == [columns |-> columns, tableChecks |-> checks]
<1>2. meta.columns = columns
  OBVIOUS
<1> HIDE DEF meta
<1>3. AlterTo(t, meta, rows, catalog)
  BY <1>1 DEF meta
<1> QED BY <1>2, <1>3, AlterToEffect

\* What a RENAME COLUMN leaves behind.
LEMMA RenameEffect ==
    ASSUME Inv, NEW t \in DOMAIN catalog, NEW from, NEW to, RenameColumn(t, from, to)
    PROVE  /\ DOMAIN catalog' = DOMAIN catalog
           /\ from \in DOMAIN catalog[t].columns /\ to \notin DOMAIN catalog[t].columns
           /\ catalog'[t].columns = RenamedColumns(catalog[t].columns, t, from, to)
           /\ OwnConstraints(catalog'[t], tables'[t])
           /\ \A u \in DOMAIN catalog \ {t} :
                catalog'[u] = Repointed(t, from, to)[u] /\ tables'[u] = tables[u]
<1> DEFINE columns == RenamedColumns(catalog[t].columns, t, from, to)
<1>1. PICK rows, checks : AlterTo(t, [columns |-> columns, tableChecks |-> checks],
                                  rows, Repointed(t, from, to))
  BY RenameColumnAlters, Zenon
<1>2. from \in DOMAIN catalog[t].columns /\ to \notin DOMAIN catalog[t].columns
  BY RenameColumnAlters, Zenon
<1> DEFINE meta == [columns |-> columns, tableChecks |-> checks]
<1>3. meta.columns = columns
  OBVIOUS
<1> HIDE DEF meta, columns
<1>4. AlterTo(t, meta, rows, Repointed(t, from, to))
  BY <1>1 DEF meta
<1> QED BY <1>2, <1>3, <1>4, AlterToEffect DEF columns

\* Every step is one of these.
LEMMA Steps ==
    ASSUME Inv, [Next]_vars
    PROVE  \/ \E t \in Table, C \in SUBSET Column, checks \in SUBSET TableChecks :
                \E defs \in [C -> ColumnDefs] : CreateTable(t, defs, checks)
           \/ \E t \in DOMAIN catalog : AltersAlone(t)
           \/ \E t \in DOMAIN catalog, from \in Column, to \in Column :
                RenameColumn(t, from, to)
           \/ \E t \in DOMAIN catalog : RowsReplaced(t)
           \/ UNCHANGED vars
<1>1. Ddl => \/ \E t \in Table, C \in SUBSET Column, checks \in SUBSET TableChecks :
                  \E defs \in [C -> ColumnDefs] : CreateTable(t, defs, checks)
             \/ \E t \in DOMAIN catalog : AltersAlone(t)
             \/ \E t \in DOMAIN catalog, from \in Column, to \in Column :
                  RenameColumn(t, from, to)
  BY Zenon DEF Ddl, AltersAlone
<1>2. Dml => \E t \in DOMAIN catalog : RowsReplaced(t)
  BY DmlReplacesRows, Zenon
<1> QED BY <1>1, <1>2, Zenon DEF Next

----------------------------------------------------------------------------
(* Names *)

LEMMA NamesStep == Inv /\ NamesUnambiguous /\ [Next]_vars => NamesUnambiguous'
<1> SUFFICES ASSUME Inv, NamesUnambiguous, [Next]_vars PROVE NamesUnambiguous'
  OBVIOUS
<1>1. ASSUME NEW t \in Table, NEW defs, NEW checks, CreateTable(t, defs, checks)
      PROVE  NamesUnambiguous'
  <2>1. DOMAIN catalog' = DOMAIN catalog \cup {t}
        /\ \A u \in DOMAIN catalog : Fold[u] # Fold[t]
    BY <1>1, CreateTableEffect, Zenon
  <2> QED BY <2>1 DEF NamesUnambiguous
<1>2. DOMAIN catalog' = DOMAIN catalog => NamesUnambiguous'
  BY DEF NamesUnambiguous
<1>3. ASSUME NEW t \in DOMAIN catalog, AltersAlone(t)
      PROVE  DOMAIN catalog' = DOMAIN catalog
  BY <1>3, AltersAloneAlters, AltersEffect
<1>4. ASSUME NEW t \in DOMAIN catalog, NEW from, NEW to, RenameColumn(t, from, to)
      PROVE  DOMAIN catalog' = DOMAIN catalog
  BY <1>4, RenameEffect
<1>5. ASSUME NEW t \in DOMAIN catalog, RowsReplaced(t)
      PROVE  DOMAIN catalog' = DOMAIN catalog
  BY <1>5 DEF RowsReplaced, ReplaceRows
<1>6. UNCHANGED vars => DOMAIN catalog' = DOMAIN catalog
  BY DEF vars
<1> QED BY <1>1, <1>2, <1>3, <1>4, <1>5, <1>6, Steps

\* Table names that differ only in case never both exist (findTableCI and the
\* existence check of executeCreateTable).
THEOREM NamesStayUnambiguous == Spec => []NamesUnambiguous
<1>1. Init => NamesUnambiguous
  <2>1. Init => DOMAIN catalog = {}
    BY DEF Init
  <2> QED BY <2>1 DEF NamesUnambiguous
<1> QED BY <1>1, InitInv, NextInv, NamesStep, PTL DEF Spec

----------------------------------------------------------------------------
(* The constraints of a table on its own rows *)

\* Rows that are some of the rows there were satisfy what those satisfied.
LEMMA FewerRows ==
    ASSUME NEW meta, NEW old, NEW rows, OwnConstraints(meta, old),
           DOMAIN rows \subseteq DOMAIN old, \A s \in DOMAIN rows : rows[s] = old[s]
    PROVE  OwnConstraints(meta, rows)
BY DEF OwnConstraints

LEMMA OwnConstraintsStep ==
    Inv /\ OwnConstraintsHold /\ [Next]_vars => OwnConstraintsHold'
<1> SUFFICES ASSUME Inv, OwnConstraintsHold, [Next]_vars PROVE OwnConstraintsHold'
  OBVIOUS
<1>1. ASSUME NEW t \in Table, NEW defs, NEW checks, CreateTable(t, defs, checks)
      PROVE  OwnConstraintsHold'
  <2>1. /\ DOMAIN catalog' = DOMAIN catalog \cup {t} /\ DOMAIN tables'[t] = {}
        /\ \A u \in DOMAIN catalog : catalog'[u] = catalog[u] /\ tables'[u] = tables[u]
    BY <1>1, CreateTableEffect, Zenon
  <2>2. OwnConstraints(catalog'[t], tables'[t])
    BY <2>1 DEF OwnConstraints
  <2> QED BY <2>1, <2>2 DEF OwnConstraintsHold
<1>2. ASSUME NEW t \in DOMAIN catalog, AltersAlone(t)
      PROVE  OwnConstraintsHold'
  BY <1>2, AltersAloneAlters, AltersEffect DEF OwnConstraintsHold
<1>3. ASSUME NEW t \in DOMAIN catalog, NEW from, NEW to, RenameColumn(t, from, to)
      PROVE  OwnConstraintsHold'
  BY <1>3, RenameEffect, RepointedKeepsOwnConstraints DEF OwnConstraintsHold
<1>4. ASSUME NEW t \in DOMAIN catalog, RowsReplaced(t)
      PROVE  OwnConstraintsHold'
  <2>1. PICK rows :
          /\ ReplaceRows(t, rows)
          /\ \/ OwnConstraints(catalog[t], rows)
             \/ /\ DOMAIN rows \subseteq DOMAIN tables[t]
                /\ \A s \in DOMAIN rows : rows[s] = tables[t][s]
    BY <1>4 DEF RowsReplaced
  <2>2. OwnConstraints(catalog[t], rows)
    BY <2>1, FewerRows DEF OwnConstraintsHold
  <2>3. /\ catalog' = catalog /\ tables'[t] = rows
        /\ \A u \in DOMAIN catalog \ {t} : tables'[u] = tables[u]
    BY <2>1 DEF ReplaceRows, Inv, TypeOK
  <2> QED BY <2>2, <2>3 DEF OwnConstraintsHold
<1>5. UNCHANGED vars => OwnConstraintsHold'
  BY DEF vars, OwnConstraintsHold
<1> QED BY <1>1, <1>2, <1>3, <1>4, <1>5, Steps

\* No sequence of statements leaves a row that violates a type, NOT NULL,
\* CHECK, UNIQUE or PRIMARY KEY of its table (validateTableState before every
\* commit).
THEOREM OwnConstraintsStayTrue == Spec => []OwnConstraintsHold
<1>1. Init => OwnConstraintsHold
  <2>1. Init => DOMAIN catalog = {}
    BY DEF Init
  <2> QED BY <2>1 DEF OwnConstraintsHold
<1> QED BY <1>1, InitInv, NextInv, OwnConstraintsStep, PTL DEF Spec

----------------------------------------------------------------------------
(* Keys *)

KeyColumnsNotNull(columns) ==
    \A c \in DOMAIN columns : columns[c].primaryKey => columns[c].notNull

LEMMA AltersKeepKeys ==
    ASSUME Inv, NEW t \in DOMAIN catalog, AltersAlone(t),
           KeyColumnsNotNull(catalog[t].columns)
    PROVE  KeyColumnsNotNull(catalog'[t].columns)
<1> DEFINE old == catalog[t].columns
<1>1. old \in [DOMAIN old -> ColumnMetadata] /\ KeyColumnsNotNull(old)
  BY TableFacts
<1> HIDE DEF old
<1>2. ASSUME NEW c \in Column, NEW def \in ColumnDefs, AddColumn(t, c, def)
      PROVE  KeyColumnsNotNull(catalog'[t].columns)
  <2> DEFINE new == [d \in DOMAIN old \cup {c} |->
                       IF d = c THEN StoredColumn(c, def, t) ELSE old[d]]
  <2>1. catalog'[t].columns = new
    BY <1>2, AddColumnAlters, AltersEffect DEF old
  <2>2. StoredColumn(c, def, t).primaryKey => StoredColumn(c, def, t).notNull
    BY DEF StoredColumn
  <2>3. KeyColumnsNotNull(new)
    BY <1>1, <2>2 DEF KeyColumnsNotNull
  <2> QED BY <2>1, <2>3
<1>3. ASSUME NEW c \in Column, DropColumn(t, c)
      PROVE  KeyColumnsNotNull(catalog'[t].columns)
  <2>1. catalog'[t].columns = [d \in DOMAIN old \ {c} |-> old[d]]
    BY <1>3, DropColumnAlters, AltersEffect DEF old
  <2> QED BY <1>1, <2>1 DEF KeyColumnsNotNull
<1>4. ASSUME NEW c \in Column, NEW type \in NewTypes, AlterColumnType(t, c, type)
      PROVE  KeyColumnsNotNull(catalog'[t].columns)
  <2>1. c \in DOMAIN old
        /\ catalog'[t].columns = [old EXCEPT ![c] = RetypedColumn(c, old[c], type)]
    BY <1>4, AlterColumnTypeAlters, AltersEffect DEF old
  <2>2. RetypedColumn(c, old[c], type).primaryKey = old[c].primaryKey
        /\ RetypedColumn(c, old[c], type).notNull = old[c].notNull
    BY <1>1, <2>1 DEF RetypedColumn, ColumnMetadata
  <2> QED BY <1>1, <2>1, <2>2 DEF KeyColumnsNotNull
<1>5. ASSUME NEW c \in Column, NEW ref \in Ref, AddForeignKey(t, c, ref)
      PROVE  KeyColumnsNotNull(catalog'[t].columns)
  <2> DEFINE target == <<CanonicalName(ref[1]), ref[2]>>
             new == [old[c] EXCEPT !.foreignKey = target]
  <2>1. c \in DOMAIN old /\ catalog'[t].columns = [old EXCEPT ![c] = new]
    BY <1>5, AddForeignKeyAlters, AltersEffect, ZenonT(60) DEF old
  <2>2. new.primaryKey = old[c].primaryKey /\ new.notNull = old[c].notNull
    <3> HIDE DEF target
    <3> QED BY <1>1, <2>1 DEF ColumnMetadata
  <2> HIDE DEF new
  <2> QED BY <1>1, <2>1, <2>2 DEF KeyColumnsNotNull
<1>6. ASSUME NEW cols \in SUBSET Column, AddPrimaryKey(t, cols)
      PROVE  KeyColumnsNotNull(catalog'[t].columns)
  <2>1. catalog'[t].columns
          = [d \in DOMAIN old |->
               IF d \in cols THEN KeyColumn(old[d], Cardinality(cols) > 1) ELSE old[d]]
    BY <1>6, AddPrimaryKeyAlters, AltersEffect DEF old
  <2>2. \A d \in DOMAIN old : KeyColumn(old[d], Cardinality(cols) > 1).notNull
    BY <1>1 DEF KeyColumn, ColumnMetadata
  <2> QED BY <1>1, <2>1, <2>2 DEF KeyColumnsNotNull
<1>7. ASSUME NEW cols \in SUBSET Column, AddUnique(t, cols)
      PROVE  KeyColumnsNotNull(catalog'[t].columns)
  <2> DEFINE new(d) == [old[d] EXCEPT !.unique = TRUE]
  <2>1. catalog'[t].columns
          = [d \in DOMAIN old |-> IF d \in cols THEN new(d) ELSE old[d]]
    BY <1>7, AddUniqueAlters, AltersEffect DEF old
  <2>2. \A d \in DOMAIN old : new(d).primaryKey = old[d].primaryKey
                              /\ new(d).notNull = old[d].notNull
    BY <1>1 DEF ColumnMetadata
  <2> HIDE DEF new
  <2> QED BY <1>1, <2>1, <2>2 DEF KeyColumnsNotNull
<1>8. ASSUME NEW check, AddCheck(t, check)
      PROVE  KeyColumnsNotNull(catalog'[t].columns)
  BY <1>1, <1>8, AddCheckAlters, AltersEffect DEF old
<1> QED BY <1>2, <1>3, <1>4, <1>5, <1>6, <1>7, <1>8, Zenon DEF AltersAlone

LEMMA KeysAreColumnsNotNull ==
    KeysNotNull <=> \A t \in DOMAIN catalog : KeyColumnsNotNull(catalog[t].columns)
BY DEF KeysNotNull, PrimaryKey, KeyColumnsNotNull

LEMMA KeysStep == Inv /\ KeysNotNull /\ [Next]_vars => KeysNotNull'
<1> SUFFICES ASSUME Inv, KeysNotNull, [Next]_vars PROVE KeysNotNull'
  OBVIOUS
<1>1. \A t \in DOMAIN catalog : KeyColumnsNotNull(catalog[t].columns)
  BY KeysAreColumnsNotNull
<1>2. SUFFICES \A t \in DOMAIN catalog' : KeyColumnsNotNull(catalog'[t].columns)
  BY DEF KeysNotNull, PrimaryKey, KeyColumnsNotNull
<1>3. ASSUME NEW t \in Table, NEW defs, NEW checks, CreateTable(t, defs, checks),
             NEW u \in DOMAIN catalog'
      PROVE  KeyColumnsNotNull(catalog'[u].columns)
  <2>1. /\ DOMAIN catalog' = DOMAIN catalog \cup {t}
        /\ catalog'[t].columns = [c \in DOMAIN defs |-> StoredColumn(c, defs[c], t)]
        /\ \A v \in DOMAIN catalog : catalog'[v] = catalog[v]
    BY <1>3, CreateTableEffect
  <2>2. \A c \in DOMAIN defs : StoredColumn(c, defs[c], t).primaryKey
                                 => StoredColumn(c, defs[c], t).notNull
    BY DEF StoredColumn
  <2>3. KeyColumnsNotNull(catalog'[t].columns)
    BY <2>1, <2>2 DEF KeyColumnsNotNull
  <2> QED BY <1>1, <2>1, <2>3
<1>4. ASSUME NEW t \in DOMAIN catalog, AltersAlone(t), NEW u \in DOMAIN catalog'
      PROVE  KeyColumnsNotNull(catalog'[u].columns)
  <2>1. DOMAIN catalog' = DOMAIN catalog
        /\ \A v \in DOMAIN catalog \ {t} : catalog'[v] = catalog[v]
    BY <1>4, AltersAloneAlters, AltersEffect
  <2> QED BY <1>1, <1>4, <2>1, AltersKeepKeys
<1>5. ASSUME NEW t \in DOMAIN catalog, NEW from \in Column, NEW to \in Column,
             RenameColumn(t, from, to), NEW u \in DOMAIN catalog'
      PROVE  KeyColumnsNotNull(catalog'[u].columns)
  <2> DEFINE old == catalog[u].columns
             repointed == RepointedColumns(old, t, from, to)
  <2>1. /\ u \in DOMAIN catalog /\ from \in DOMAIN catalog[t].columns
        /\ u = t => catalog'[u].columns = RenamedColumns(old, t, from, to)
        /\ u # t => catalog'[u] = Repointed(t, from, to)[u]
    BY <1>5, RenameEffect
  <2>2. old \in [DOMAIN old -> ColumnMetadata]
    BY <2>1, TableFacts
  <2>3. /\ DOMAIN repointed = DOMAIN old
        /\ \A d \in DOMAIN old : /\ repointed[d].primaryKey = old[d].primaryKey
                                 /\ repointed[d].notNull = old[d].notNull
                                 /\ repointed[d] \in ColumnMetadata
    <3>1. t \in Table /\ Partial(old, Column, ColumnMetadata)
      BY <2>1, TableFacts DEF Partial
    <3>2. repointed \in [DOMAIN old -> ColumnMetadata]
      BY <3>1, RepointedColumnsTyped
    <3>3. \A d \in DOMAIN old : /\ repointed[d].primaryKey = old[d].primaryKey
                                /\ repointed[d].notNull = old[d].notNull
      BY <2>2 DEF RepointedColumns, ColumnMetadata
    <3> HIDE DEF repointed, old
    <3> QED BY <3>2, <3>3
  <2>4. KeyColumnsNotNull(repointed)
    <3> HIDE DEF repointed, old
    <3> QED BY <1>1, <2>1, <2>3 DEF KeyColumnsNotNull, old
  <2>5. CASE u # t
    <3>1. catalog'[u].columns = repointed
      BY <2>1, <2>5, TableFacts DEF Repointed
    <3> QED BY <2>4, <3>1
  <2>6. CASE u = t
    <3> DEFINE source(d) == IF d = to THEN from ELSE d
               new(d) == [repointed[source(d)] EXCEPT !.check = RenamedCheck(@, from, to)]
    <3>1. catalog'[u].columns = [d \in (DOMAIN old \ {from}) \cup {to} |-> new(d)]
      BY <2>1, <2>6 DEF RenamedColumns
    <3>2. \A d \in (DOMAIN old \ {from}) \cup {to} :
            source(d) \in DOMAIN old
            /\ new(d).primaryKey = repointed[source(d)].primaryKey
            /\ new(d).notNull = repointed[source(d)].notNull
      <4> HIDE DEF repointed, old
      <4> QED BY <2>1, <2>3, <2>6 DEF ColumnMetadata, old
    <3> HIDE DEF repointed, old, source, new
    <3> QED BY <2>3, <2>4, <3>1, <3>2 DEF KeyColumnsNotNull
  <2> QED BY <2>5, <2>6
<1>6. ASSUME NEW t \in DOMAIN catalog, RowsReplaced(t)
      PROVE  catalog' = catalog
  BY <1>6 DEF RowsReplaced, ReplaceRows
<1>7. UNCHANGED vars => catalog' = catalog
  BY DEF vars
<1> QED BY <1>1, <1>3, <1>4, <1>5, <1>6, <1>7, Steps

\* A primary key column is NOT NULL after any sequence of ALTERs
\* (buildTableMetadata, ADD COLUMN and ADD PRIMARY KEY set both).
THEOREM KeysStayNotNull == Spec => []KeysNotNull
<1>1. Init => KeysNotNull
  <2>1. Init => DOMAIN catalog = {}
    BY DEF Init
  <2> QED BY <2>1 DEF KeysNotNull
<1> QED BY <1>1, InitInv, NextInv, KeysStep, PTL DEF Spec

----------------------------------------------------------------------------
(* The targets of foreign keys *)

\* The column a reference names is there, and will be after the step.
Exists(ref) ==
    ref # NoRef => ref[1] \in DOMAIN catalog /\ ref[2] \in DOMAIN catalog[ref[1]].columns

Remains(ref) ==
    ref # NoRef => ref[1] \in DOMAIN catalog' /\ ref[2] \in DOMAIN catalog'[ref[1]].columns

\* An ALTER by itself keeps the references resolved whose column it keeps.
LEMMA AltersKeepReferences ==
    ASSUME Inv, ForeignKeysResolve, NEW t \in DOMAIN catalog, NEW columns, Alters(t, columns),
           DOMAIN catalog[t].columns \subseteq DOMAIN columns,
           \A c \in DOMAIN columns : Exists(columns[c].foreignKey)
    PROVE  ForeignKeysResolve'
<1>1. /\ DOMAIN catalog' = DOMAIN catalog /\ catalog'[t].columns = columns
      /\ \A u \in DOMAIN catalog \ {t} : catalog'[u] = catalog[u]
  BY AltersEffect
<1>2. ASSUME NEW u \in DOMAIN catalog', NEW c \in DOMAIN catalog'[u].columns
      PROVE  Exists(catalog'[u].columns[c].foreignKey)
  BY <1>1, <1>2 DEF ForeignKeysResolve, Exists
<1>3. \A u \in DOMAIN catalog : DOMAIN catalog[u].columns \subseteq DOMAIN catalog'[u].columns
  BY <1>1
<1> QED BY <1>1, <1>2, <1>3 DEF ForeignKeysResolve, Exists

LEMMA AltersAloneKeepReferences ==
    ASSUME Inv, ForeignKeysResolve, NEW t \in DOMAIN catalog, AltersAlone(t)
    PROVE  ForeignKeysResolve'
<1> DEFINE old == catalog[t].columns
<1>1. old \in [DOMAIN old -> ColumnMetadata]
      /\ \A c \in DOMAIN old : Exists(old[c].foreignKey)
  BY TableFacts DEF ForeignKeysResolve, Exists
<1> HIDE DEF old
<1>2. ASSUME NEW c \in Column, NEW def \in ColumnDefs, AddColumn(t, c, def)
      PROVE  ForeignKeysResolve'
  <2> DEFINE added == StoredColumn(c, def, t)
             new == [d \in DOMAIN old \cup {c} |-> IF d = c THEN added ELSE old[d]]
  <2>1. Alters(t, new)
    BY <1>2, AddColumnAlters DEF old
  <2>2. ValidRef(def.foreignKey, t, DOMAIN old) /\ def.foreignKey \in Ref \cup {NoRef}
    BY <1>2, InputsAssumption DEF AddColumn, ColumnDef, old
  <2>3. Exists(StoredRef(def.foreignKey, t))
    <3>1. CASE def.foreignKey = NoRef
      BY <3>1 DEF StoredRef, Exists
    <3>2. CASE def.foreignKey # NoRef
      BY <2>2, <3>2, StoredRefResolves DEF Exists, old
    <3> QED BY <3>1, <3>2
  <2>4. Exists(added.foreignKey)
    BY <2>3 DEF StoredColumn
  <2>5. DOMAIN old \subseteq DOMAIN new /\ \A d \in DOMAIN new : Exists(new[d].foreignKey)
    <3> HIDE DEF added
    <3> QED BY <1>1, <2>4
  <2> HIDE DEF new
  <2> QED BY <2>1, <2>5, AltersKeepReferences DEF old
<1>3. ASSUME NEW c \in Column, DropColumn(t, c)
      PROVE  ForeignKeysResolve'
  <2>1. /\ DOMAIN catalog' = DOMAIN catalog
        /\ catalog'[t].columns = [d \in DOMAIN old \ {c} |-> old[d]]
        /\ \A u \in DOMAIN catalog \ {t} : catalog'[u] = catalog[u]
    BY <1>3, DropColumnAlters, AltersEffect DEF old
  <2>2. \A u \in DOMAIN catalog : \A d \in DOMAIN catalog[u].columns :
          catalog[u].columns[d].foreignKey # <<t, c>>
    BY <1>3 DEF DropColumn, DropAllowed
  <2>3. ASSUME NEW u \in DOMAIN catalog', NEW d \in DOMAIN catalog'[u].columns
        PROVE  Remains(catalog'[u].columns[d].foreignKey)
    <3> DEFINE ref == catalog[u].columns[d].foreignKey
    <3>1. /\ u \in DOMAIN catalog /\ d \in DOMAIN catalog[u].columns
          /\ catalog'[u].columns[d].foreignKey = ref
      BY <2>1 DEF old
    <3>2. ref \in Ref \cup {NoRef}
      BY <3>1, TableFacts DEF ColumnMetadata
    <3>3. ref # NoRef => ref = <<ref[1], ref[2]>>
      BY <3>2 DEF Ref
    <3>4. ref # <<t, c>> /\ Exists(ref)
      BY <2>2, <3>1 DEF ForeignKeysResolve, Exists
    <3> HIDE DEF ref
    <3> QED BY <2>1, <3>1, <3>3, <3>4 DEF Exists, Remains, old
  <2> QED BY <2>3 DEF ForeignKeysResolve, Remains
<1>4. ASSUME NEW c \in Column, NEW type \in NewTypes, AlterColumnType(t, c, type)
      PROVE  ForeignKeysResolve'
  <2> DEFINE new == [old EXCEPT ![c] = RetypedColumn(c, old[c], type)]
  <2>1. c \in DOMAIN old /\ Alters(t, new)
    BY <1>4, AlterColumnTypeAlters DEF old
  <2>2. RetypedColumn(c, old[c], type).foreignKey = old[c].foreignKey
    BY <1>1, <2>1 DEF RetypedColumn, ColumnMetadata
  <2>3. DOMAIN old \subseteq DOMAIN new /\ \A d \in DOMAIN new : Exists(new[d].foreignKey)
    BY <1>1, <2>1, <2>2
  <2> HIDE DEF new
  <2> QED BY <2>1, <2>3, AltersKeepReferences DEF old
<1>5. ASSUME NEW c \in Column, NEW ref \in Ref, AddForeignKey(t, c, ref)
      PROVE  ForeignKeysResolve'
  <2> DEFINE target == <<CanonicalName(ref[1]), ref[2]>>
             column == [old[c] EXCEPT !.foreignKey = target]
             new == [old EXCEPT ![c] = column]
  <2>1. /\ c \in DOMAIN old /\ Alters(t, new)
        /\ target[1] \in DOMAIN catalog /\ target[2] \in DOMAIN catalog[target[1]].columns
    BY <1>5, AddForeignKeyAlters DEF old
  <2>2. column.foreignKey = target
    <3> HIDE DEF target
    <3> QED BY <1>1, <2>1 DEF ColumnMetadata
  <2>3. Exists(column.foreignKey)
    BY <2>1, <2>2 DEF Exists
  <2>4. DOMAIN old \subseteq DOMAIN new /\ \A d \in DOMAIN new : Exists(new[d].foreignKey)
    <3> HIDE DEF column
    <3> QED BY <1>1, <2>1, <2>3
  <2> HIDE DEF new
  <2> QED BY <2>1, <2>4, AltersKeepReferences DEF old
<1>6. ASSUME NEW cols \in SUBSET Column, AddPrimaryKey(t, cols)
      PROVE  ForeignKeysResolve'
  <2> DEFINE key(d) == KeyColumn(old[d], Cardinality(cols) > 1)
             new == [d \in DOMAIN old |-> IF d \in cols THEN key(d) ELSE old[d]]
  <2>1. Alters(t, new)
    BY <1>6, AddPrimaryKeyAlters DEF old
  <2>2. \A d \in DOMAIN old : key(d).foreignKey = old[d].foreignKey
    BY <1>1 DEF KeyColumn, ColumnMetadata
  <2>3. DOMAIN old \subseteq DOMAIN new /\ \A d \in DOMAIN new : Exists(new[d].foreignKey)
    <3> HIDE DEF key
    <3> QED BY <1>1, <2>2
  <2> HIDE DEF new
  <2> QED BY <2>1, <2>3, AltersKeepReferences DEF old
<1>7. ASSUME NEW cols \in SUBSET Column, AddUnique(t, cols)
      PROVE  ForeignKeysResolve'
  <2> DEFINE key(d) == [old[d] EXCEPT !.unique = TRUE]
             new == [d \in DOMAIN old |-> IF d \in cols THEN key(d) ELSE old[d]]
  <2>1. Alters(t, new)
    BY <1>7, AddUniqueAlters DEF old
  <2>2. \A d \in DOMAIN old : key(d).foreignKey = old[d].foreignKey
    BY <1>1 DEF ColumnMetadata
  <2>3. DOMAIN old \subseteq DOMAIN new /\ \A d \in DOMAIN new : Exists(new[d].foreignKey)
    <3> HIDE DEF key
    <3> QED BY <1>1, <2>2
  <2> HIDE DEF new
  <2> QED BY <2>1, <2>3, AltersKeepReferences DEF old
<1>8. ASSUME NEW check, AddCheck(t, check)
      PROVE  ForeignKeysResolve'
  BY <1>1, <1>8, AddCheckAlters, AltersKeepReferences DEF old
<1> QED BY <1>2, <1>3, <1>4, <1>5, <1>6, <1>7, <1>8, Zenon DEF AltersAlone

\* RENAME COLUMN repoints every reference to the renamed column, its own
\* table's and the others'.
LEMMA RenameKeepsReferences ==
    ASSUME Inv, ForeignKeysResolve, NEW t \in DOMAIN catalog, NEW from \in Column,
           NEW to \in Column, RenameColumn(t, from, to)
    PROVE  ForeignKeysResolve'
<1> DEFINE old == catalog[t].columns
           names == (DOMAIN old \ {from}) \cup {to}
           Repoint(ref) == IF ref = <<t, from>> THEN <<t, to>> ELSE ref
<1>1. /\ DOMAIN catalog' = DOMAIN catalog
      /\ from \in DOMAIN old /\ to \notin DOMAIN old
      /\ catalog'[t].columns = RenamedColumns(old, t, from, to)
      /\ \A u \in DOMAIN catalog \ {t} : catalog'[u] = Repointed(t, from, to)[u]
  BY RenameEffect
<1>2. ASSUME NEW u \in DOMAIN catalog, NEW d \in DOMAIN catalog[u].columns
      PROVE  RepointedColumns(catalog[u].columns, t, from, to)[d].foreignKey
               = Repoint(catalog[u].columns[d].foreignKey)
             /\ RepointedColumns(catalog[u].columns, t, from, to)[d] \in ColumnMetadata
  <2>1. catalog[u].columns[d] \in ColumnMetadata /\ t \in Table
        /\ Partial(catalog[u].columns, Column, ColumnMetadata)
    BY TableFacts DEF Partial
  <2>2. RepointedColumns(catalog[u].columns, t, from, to)[d].foreignKey
          = Repoint(catalog[u].columns[d].foreignKey)
    BY <2>1 DEF RepointedColumns, ColumnMetadata
  <2>3. RepointedColumns(catalog[u].columns, t, from, to)
          \in [DOMAIN catalog[u].columns -> ColumnMetadata]
    BY <2>1, RepointedColumnsTyped
  <2> HIDE DEF Repoint
  <2> QED BY <2>2, <2>3
<1>3. ASSUME NEW u \in DOMAIN catalog, u # t
      PROVE  DOMAIN catalog'[u].columns = DOMAIN catalog[u].columns
             /\ \A d \in DOMAIN catalog[u].columns :
                  catalog'[u].columns[d].foreignKey = Repoint(catalog[u].columns[d].foreignKey)
  <2>1. catalog'[u].columns = RepointedColumns(catalog[u].columns, t, from, to)
    BY <1>1, <1>3, TableFacts DEF Repointed
  <2>2. DOMAIN catalog'[u].columns = DOMAIN catalog[u].columns
    BY <2>1 DEF RepointedColumns
  <2> HIDE DEF Repoint
  <2> QED BY <1>2, <2>1, <2>2
<1>4. DOMAIN catalog'[t].columns = names
      /\ \A d \in names : \E e \in DOMAIN old :
           catalog'[t].columns[d].foreignKey = Repoint(old[e].foreignKey)
  <2> DEFINE repointed == RepointedColumns(old, t, from, to)
             source(d) == IF d = to THEN from ELSE d
             new(d) == [repointed[source(d)] EXCEPT !.check = RenamedCheck(@, from, to)]
  <2>1. catalog'[t].columns = [d \in names |-> new(d)]
    BY <1>1 DEF RenamedColumns
  <2>2. ASSUME NEW d \in names
        PROVE  source(d) \in DOMAIN old
               /\ new(d).foreignKey = Repoint(old[source(d)].foreignKey)
    <3>1. source(d) \in DOMAIN old
      BY <1>1
    <3>2. repointed[source(d)] \in ColumnMetadata
          /\ repointed[source(d)].foreignKey = Repoint(old[source(d)].foreignKey)
      BY <1>2, <3>1
    <3> HIDE DEF repointed, old, Repoint, source
    <3> QED BY <3>1, <3>2 DEF ColumnMetadata
  <2> HIDE DEF repointed, old, Repoint, source, new, names
  <2> QED BY <2>1, <2>2
<1>5. ASSUME NEW ref \in Ref \cup {NoRef}, Exists(ref)
      PROVE  Remains(Repoint(ref))
  <2>1. CASE ref = <<t, from>>
    BY <1>1, <1>4, <2>1 DEF Remains
  <2>2. CASE ref # <<t, from>>
    <3>1. ref # NoRef => ref = <<ref[1], ref[2]>>
      BY DEF Ref
    <3>2. Repoint(ref) = ref
      BY <2>2
    <3> HIDE DEF Repoint
    <3> QED BY <1>1, <1>3, <1>4, <1>5, <2>2, <3>1, <3>2 DEF Exists, Remains
  <2> QED BY <2>1, <2>2
<1>6. ASSUME NEW u \in DOMAIN catalog', NEW d \in DOMAIN catalog'[u].columns
      PROVE  Remains(catalog'[u].columns[d].foreignKey)
  <2> HIDE DEF Repoint
  <2>1. \E e \in DOMAIN catalog[u].columns :
          catalog'[u].columns[d].foreignKey = Repoint(catalog[u].columns[e].foreignKey)
    BY <1>1, <1>3, <1>4
  <2>2. \A e \in DOMAIN catalog[u].columns :
          LET ref == catalog[u].columns[e].foreignKey IN
          ref \in Ref \cup {NoRef} /\ Exists(ref)
    BY <1>1, TableFacts DEF ForeignKeysResolve, Exists, ColumnMetadata
  <2> QED BY <1>5, <2>1, <2>2
<1> QED BY <1>6 DEF ForeignKeysResolve, Remains

LEMMA CreateKeepsReferences ==
    ASSUME Inv, ForeignKeysResolve, NEW t \in Table, NEW C \in SUBSET Column,
           NEW defs \in [C -> ColumnDefs], NEW checks, CreateTable(t, defs, checks)
    PROVE  ForeignKeysResolve'
<1>1. /\ DOMAIN catalog' = DOMAIN catalog \cup {t} /\ t \notin DOMAIN catalog
      /\ catalog'[t].columns = [c \in DOMAIN defs |-> StoredColumn(c, defs[c], t)]
      /\ \A u \in DOMAIN catalog : catalog'[u] = catalog[u]
  BY CreateTableEffect
<1>2. DOMAIN catalog'[t].columns = C
  BY <1>1
<1>3. \A ref : Exists(ref) => Remains(ref)
  BY <1>1 DEF Exists, Remains
<1>4. ASSUME NEW c \in C
      PROVE  Remains(catalog'[t].columns[c].foreignKey)
  <2> DEFINE ref == defs[c].foreignKey
  <2>1. ValidRef(ref, t, C) /\ ref \in Ref \cup {NoRef}
    BY InputsAssumption DEF CreateTable, ColumnDef
  <2>2. catalog'[t].columns[c].foreignKey = StoredRef(ref, t)
    BY <1>1 DEF StoredColumn
  <2> HIDE DEF ref
  <2>3. CASE ref = NoRef
    BY <2>2, <2>3 DEF StoredRef, Remains
  <2>4. CASE ref # NoRef
    BY <1>1, <1>2, <1>3, <2>1, <2>2, <2>4, StoredRefResolves DEF Exists, Remains
  <2> QED BY <2>3, <2>4
<1>5. ASSUME NEW u \in DOMAIN catalog', NEW d \in DOMAIN catalog'[u].columns
      PROVE  Remains(catalog'[u].columns[d].foreignKey)
  <2>1. CASE u = t
    BY <1>2, <1>4, <2>1
  <2>2. CASE u # t
    BY <1>1, <1>3, <2>2 DEF ForeignKeysResolve, Exists
  <2> QED BY <2>1, <2>2
<1> QED BY <1>5 DEF ForeignKeysResolve, Remains

LEMMA ReferencesStep == Inv /\ ForeignKeysResolve /\ [Next]_vars => ForeignKeysResolve'
<1> SUFFICES ASSUME Inv, ForeignKeysResolve, [Next]_vars PROVE ForeignKeysResolve'
  OBVIOUS
<1>1. ASSUME catalog' = catalog PROVE ForeignKeysResolve'
  BY <1>1 DEF ForeignKeysResolve
<1>2. ASSUME NEW t \in DOMAIN catalog, RowsReplaced(t)
      PROVE  catalog' = catalog
  BY <1>2 DEF RowsReplaced, ReplaceRows
<1>3. UNCHANGED vars => catalog' = catalog
  BY DEF vars
<1> QED BY <1>1, <1>2, <1>3, Steps, CreateKeepsReferences, AltersAloneKeepReferences,
           RenameKeepsReferences

\* The target of every foreign key stays in the catalog under the name the key
\* holds (the reference checks of DROP COLUMN, the repointing of RENAME COLUMN
\* and the normalisation of the rest).
THEOREM ForeignKeysStayResolved == Spec => []ForeignKeysResolve
<1>1. Init => ForeignKeysResolve
  <2>1. Init => DOMAIN catalog = {}
    BY DEF Init
  <2> QED BY <2>1 DEF ForeignKeysResolve
<1> QED BY <1>1, InitInv, NextInv, ReferencesStep, PTL DEF Spec

----------------------------------------------------------------------------
(* Orphans: rows whose foreign key finds no target *)

\* The foreign key of column c of table t, and the values it reaches.
RefOf(t, c) == catalog[t].columns[c].foreignKey

Reached(t, c) == Referenced(RefOf(t, c), t, tables[t])

\* The rows AlterTo leaves t with were validated: none of them is an orphan.
LEMMA AlterToLeavesNoOrphan ==
    ASSUME Inv, NEW t \in DOMAIN catalog, NEW meta, NEW rows, NEW side,
           AlterTo(t, meta, rows, side), NEW c \in DOMAIN catalog'[t].columns
    PROVE  Orphans(t, c)' = {}
<1>1. /\ catalog'[t] = meta /\ tables'[t] = rows
      /\ \A u \in DOMAIN catalog \ {t} : tables'[u] = tables[u]
  BY AlterToEffect
<1>2. DOMAIN tables = DOMAIN catalog
  BY DEF Inv, TypeOK
<1>3. ForeignKeysHold(t, meta, rows)
  BY DEF AlterTo, Valid
<1> QED BY <1>1, <1>2, <1>3 DEF ForeignKeysHold, Orphans, Referenced

\* So were the rows INSERT and UPDATE give to t.
LEMMA ReplacedRowsLeaveNoOrphan ==
    ASSUME Inv, NEW t \in DOMAIN catalog, NEW rows, Valid(t, catalog[t], rows),
           ReplaceRows(t, rows), NEW c \in DOMAIN catalog[t].columns
    PROVE  Orphans(t, c)' = {}
<1>1. /\ catalog' = catalog /\ tables'[t] = rows
      /\ \A u \in DOMAIN catalog \ {t} : tables'[u] = tables[u]
  BY DEF ReplaceRows, Inv, TypeOK
<1>2. DOMAIN tables = DOMAIN catalog
  BY DEF Inv, TypeOK
<1>3. ForeignKeysHold(t, catalog[t], rows)
  BY DEF Valid
<1> QED BY <1>1, <1>2, <1>3 DEF ForeignKeysHold, Orphans, Referenced

\* A table whose rows stay gets no new orphan in a column whose foreign key
\* still reaches every value it reached.
LEMMA ReachedValuesKeepOrphansAway ==
    ASSUME NEW u, NEW d, tables'[u] = tables[u],
           RefOf(u, d)' # NoRef => RefOf(u, d) # NoRef /\ Reached(u, d) \subseteq Reached(u, d)'
    PROVE  Orphans(u, d)' \subseteq Orphans(u, d)
BY DEF Orphans, Dangling, RefOf, Reached

\* The header of t stays and so do the slots of its rows.
SameShape(t) == schemas' = schemas /\ DOMAIN tables'[t] = DOMAIN tables[t]

LEMMA SameColumnsSameShape ==
    ASSUME Inv, NEW t \in DOMAIN catalog, NEW columns, NEW checks, NEW rows, NEW side,
           DOMAIN columns = DOMAIN catalog[t].columns, DOMAIN rows = DOMAIN tables[t],
           AlterTo(t, [columns |-> columns, tableChecks |-> checks], rows, side)
    PROVE  SameShape(t)
<1> DEFINE meta == [columns |-> columns, tableChecks |-> checks]
<1>1. DOMAIN meta.columns = schemas[t]
  BY DEF Inv, SchemaAgrees
<1>2. schemas' = [schemas EXCEPT ![t] = DOMAIN meta.columns] /\ tables'[t] = rows
  <2> HIDE DEF meta
  <2>1. AlterTo(t, meta, rows, side)
    BY DEF meta
  <2>2. schemas' = [schemas EXCEPT ![t] = DOMAIN meta.columns]
    BY <2>1, Zenon DEF AlterTo
  <2>3. tables'[t] = rows
    BY <2>1, AlterToEffect
  <2> QED BY <2>2, <2>3
<1>3. schemas \in [DOMAIN catalog -> SUBSET Column]
  BY DEF Inv, TypeOK
<1> HIDE DEF meta
<1> QED BY <1>1, <1>2, <1>3 DEF SameShape

\* The values of column c are in column d of the rows after the step.
ValuesMove(t, c, d) == ValuesOf(tables[t], c) \subseteq ValuesOf(tables'[t], d)

\* Rows that keep the cells of column c, in column d.
LEMMA KeptCellsKeepValues ==
    ASSUME NEW t, NEW c, NEW d, DOMAIN tables[t] \subseteq DOMAIN tables'[t],
           \A s \in DOMAIN tables[t] :
              d \in DOMAIN tables'[t][s] /\ tables'[t][s][d] = tables[t][s][c]
    PROVE  ValuesMove(t, c, d)
BY DEF ValuesMove, ValuesOf

\* What an ALTER by itself does to the values other tables may reference.
LEMMA AltersAloneKeepValues ==
    ASSUME Inv, NEW t \in DOMAIN catalog, AltersAlone(t)
    PROVE  /\ \E meta, rows : AlterTo(t, meta, rows, catalog)
           /\ \/ SameShape(t)
              \/ \A d \in DOMAIN catalog[t].columns :
                    \/ ValuesMove(t, d, d)
                    \/ \A u \in DOMAIN catalog : \A e \in DOMAIN catalog[u].columns :
                         RefOf(u, e) # <<t, d>>
<1> DEFINE old == catalog[t].columns
           checks == catalog[t].tableChecks
           Goal == /\ \E meta, rows : AlterTo(t, meta, rows, catalog)
                   /\ \/ SameShape(t)
                      \/ \A d \in DOMAIN catalog[t].columns :
                            \/ ValuesMove(t, d, d)
                            \/ \A u \in DOMAIN catalog : \A e \in DOMAIN catalog[u].columns :
                                 RefOf(u, e) # <<t, d>>
<1>1. /\ catalog[t] = [columns |-> old, tableChecks |-> checks]
      /\ old \in [DOMAIN old -> ColumnMetadata]
      /\ \A s \in DOMAIN tables[t] : DOMAIN tables[t][s] = DOMAIN old
  BY TableFacts
<1> HIDE DEF old, checks
<1>2. ASSUME NEW c \in Column, NEW def \in ColumnDefs, AddColumn(t, c, def)
      PROVE  Goal
  <2> DEFINE rows == [s \in DOMAIN tables[t] |->
                       [d \in DOMAIN old \cup {c} |-> IF d = c THEN Empty ELSE tables[t][s][d]]]
  <2>1. c \notin DOMAIN old /\ \E meta : AlterTo(t, meta, rows, catalog)
    BY <1>2, Zenon DEF AddColumn, old
  <2>2. tables'[t] = rows
    <3> HIDE DEF rows
    <3> QED BY <2>1, AlterToEffect
  <2>3. ASSUME NEW d \in DOMAIN old PROVE ValuesMove(t, d, d)
    BY <2>1, <2>2, KeptCellsKeepValues
  <2> HIDE DEF rows
  <2> QED BY <2>1, <2>3 DEF old
<1>3. ASSUME NEW c \in Column, DropColumn(t, c)
      PROVE  Goal
  <2> DEFINE kept == DOMAIN old \ {c}
             rows == [s \in DOMAIN tables[t] |-> [d \in kept |-> tables[t][s][d]]]
  <2>1. \E meta : AlterTo(t, meta, rows, catalog)
    BY <1>3, Zenon DEF DropColumn, old
  <2>2. tables'[t] = rows
    <3> HIDE DEF rows
    <3> QED BY <2>1, AlterToEffect
  <2>3. ASSUME NEW d \in DOMAIN old, d # c PROVE ValuesMove(t, d, d)
    BY <2>2, <2>3, KeptCellsKeepValues
  <2>4. \A u \in DOMAIN catalog : \A e \in DOMAIN catalog[u].columns : RefOf(u, e) # <<t, c>>
    BY <1>3 DEF DropColumn, DropAllowed, RefOf
  <2> HIDE DEF rows
  <2> QED BY <2>1, <2>3, <2>4 DEF old
<1>4. ASSUME NEW columns, NEW newChecks, NEW rows, DOMAIN columns = DOMAIN old,
             DOMAIN rows = DOMAIN tables[t],
             AlterTo(t, [columns |-> columns, tableChecks |-> newChecks], rows, catalog)
      PROVE  Goal
  BY <1>4, SameColumnsSameShape, Zenon DEF old
<1>5. ASSUME NEW c \in Column, NEW type \in NewTypes, AlterColumnType(t, c, type)
      PROVE  Goal
  <2> DEFINE new == RetypedColumn(c, old[c], type)
             rows == [s \in DOMAIN tables[t] |->
                        [tables[t][s] EXCEPT ![c] = Canonical(StoredTypeOf(type), @)]]
  <2>1. c \in DOMAIN old /\ AlterTo(t, [catalog[t] EXCEPT !.columns[c] = new], rows, catalog)
    BY <1>5, Zenon DEF AlterColumnType, old
  <2>2. [catalog[t] EXCEPT !.columns[c] = new]
          = [columns |-> [old EXCEPT ![c] = new], tableChecks |-> checks]
    <3> HIDE DEF new
    <3> QED BY <1>1, <2>1, ColumnReplaced
  <2>3. DOMAIN [old EXCEPT ![c] = new] = DOMAIN old /\ DOMAIN rows = DOMAIN tables[t]
    OBVIOUS
  <2> HIDE DEF new, rows, Goal
  <2> QED BY <1>4, <2>1, <2>2, <2>3
<1>6. ASSUME NEW c \in Column, NEW ref \in Ref, AddForeignKey(t, c, ref)
      PROVE  Goal
  <2> DEFINE target == <<CanonicalName(ref[1]), ref[2]>>
             new == [old EXCEPT ![c] = [old[c] EXCEPT !.foreignKey = target]]
  <2>1. c \in DOMAIN old
        /\ AlterTo(t, [catalog[t] EXCEPT !.columns[c].foreignKey = target], tables[t], catalog)
    BY <1>6, Zenon DEF AddForeignKey, old
  <2>2. [catalog[t] EXCEPT !.columns[c].foreignKey = target]
          = [columns |-> new, tableChecks |-> checks]
    <3> HIDE DEF target
    <3> QED BY <1>1, <2>1, ForeignKeyReplaced
  <2>3. DOMAIN new = DOMAIN old
    OBVIOUS
  <2> HIDE DEF new, Goal
  <2> QED BY <1>4, <2>1, <2>2, <2>3
<1>7. ASSUME NEW columns, DOMAIN columns = DOMAIN old,
             AlterTo(t, [catalog[t] EXCEPT !.columns = columns], tables[t], catalog)
      PROVE  Goal
  <2>1. [catalog[t] EXCEPT !.columns = columns] = [columns |-> columns, tableChecks |-> checks]
    BY <1>1
  <2> HIDE DEF Goal
  <2> QED BY <1>4, <1>7, <2>1
<1>8. ASSUME NEW cols \in SUBSET Column, AddPrimaryKey(t, cols) \/ AddUnique(t, cols)
      PROVE  Goal
  <2> DEFINE key == [d \in DOMAIN old |->
                       IF d \in cols THEN KeyColumn(old[d], Cardinality(cols) > 1) ELSE old[d]]
             unique == [d \in DOMAIN old |->
                          IF d \in cols THEN [old[d] EXCEPT !.unique = TRUE] ELSE old[d]]
  <2>1. AddPrimaryKey(t, cols)
          => AlterTo(t, [catalog[t] EXCEPT !.columns = key], tables[t], catalog)
    BY Zenon DEF AddPrimaryKey, old
  <2>2. AddUnique(t, cols)
          => AlterTo(t, [catalog[t] EXCEPT !.columns = unique], tables[t], catalog)
    BY Zenon DEF AddUnique, old
  <2>3. DOMAIN key = DOMAIN old /\ DOMAIN unique = DOMAIN old
    OBVIOUS
  <2> HIDE DEF key, unique, Goal
  <2> QED BY <1>7, <1>8, <2>1, <2>2, <2>3
<1>9. ASSUME NEW check, AddCheck(t, check)
      PROVE  Goal
  <2> DEFINE added == checks \cup {check}
  <2>1. AlterTo(t, [catalog[t] EXCEPT !.tableChecks = added], tables[t], catalog)
    BY <1>9, Zenon DEF AddCheck, checks
  <2>2. [catalog[t] EXCEPT !.tableChecks = added] = [columns |-> old, tableChecks |-> added]
    <3> HIDE DEF added
    <3> QED BY <1>1
  <2> HIDE DEF Goal
  <2> QED BY <1>4, <2>1, <2>2
<1> HIDE DEF Goal
<1>10. Goal
  BY <1>2, <1>3, <1>5, <1>6, <1>8, <1>9, Zenon DEF AltersAlone
<1> QED BY <1>10 DEF Goal

\* What OrphansOnlyByRewrite says of one column of a table that was there.
Spared(u, d) == \A s \in Orphans(u, d)' : s \in Orphans(u, d) \/ LosesTarget(u, d, s)

\* A table that keeps its metadata and rows, while only table t changes.
LEMMA OtherTableSpared ==
    ASSUME Inv, Inv', ForeignKeysResolve, NEW t, NEW u \in DOMAIN catalog \ {t},
           NEW d \in DOMAIN catalog[u].columns,
           catalog'[u].columns[d] = catalog[u].columns[d],
           \A w \in DOMAIN catalog \ {t} : tables'[w] = tables[w],
           RefOf(u, d) # NoRef /\ RefOf(u, d)[1] = t =>
              SameShape(t) \/ ValuesMove(t, RefOf(u, d)[2], RefOf(u, d)[2])
    PROVE  Spared(u, d)
<1> DEFINE ref == RefOf(u, d)
           w == ref[1]
<1>1. /\ RefOf(u, d)' = ref /\ ref \in Ref \cup {NoRef} /\ tables'[u] = tables[u]
      /\ ref # NoRef => w \in DOMAIN catalog /\ ref[2] \in DOMAIN catalog[w].columns
  BY TableFacts DEF RefOf, ColumnMetadata, ForeignKeysResolve
<1> SUFFICES ASSUME NEW s \in Orphans(u, d)', s \notin Orphans(u, d)
             PROVE  LosesTarget(u, d, s)
  BY DEF Spared
<1>2. ref # NoRef
  BY <1>1 DEF Orphans, RefOf
<1>3. ~(Reached(u, d) \subseteq Reached(u, d)')
  BY <1>1, <1>2, ReachedValuesKeepOrphansAway
<1>4. w = t /\ ~ValuesMove(t, ref[2], ref[2])
  BY <1>1, <1>2, <1>3 DEF Reached, Referenced, ValuesMove
<1>5. SameShape(t)
  BY <1>2, <1>4
<1>6. /\ s \in DOMAIN tables[u] /\ tables[u][s][d] \in ValuesOf(tables[t], ref[2])
      /\ tables[u][s][d] \notin ValuesOf(tables'[t], ref[2])
  BY <1>1, <1>2, <1>4 DEF Orphans, Dangling, RefOf, Referenced
<1>7. PICK r \in DOMAIN tables[t] : tables[t][r][ref[2]] = tables[u][s][d]
  BY <1>6 DEF ValuesOf
<1>8. r \in DOMAIN tables'[t] /\ ref[2] \in DOMAIN tables'[t][r]
  <2>1. schemas'[t] = schemas[t] /\ schemas[t] = DOMAIN catalog[t].columns
    BY <1>1, <1>2, <1>4, <1>5 DEF SameShape, Inv, SchemaAgrees
  <2>2. t \in DOMAIN catalog'
    BY <1>1, <1>2, <1>4, <1>5 DEF SameShape, Inv, TypeOK
  <2>3. r \in DOMAIN tables'[t]
    BY <1>5 DEF SameShape
  <2>4. DOMAIN tables'[t][r] = schemas'[t]
    BY <2>2, <2>3 DEF Inv, SchemaAgrees
  <2> QED BY <1>1, <1>2, <1>4, <2>1, <2>3, <2>4
<1>9. tables'[t][r][ref[2]] # tables[t][r][ref[2]]
  BY <1>6, <1>7, <1>8 DEF ValuesOf
<1> QED BY <1>1, <1>2, <1>4, <1>5, <1>6, <1>7, <1>9 DEF LosesTarget, RefOf, SameShape

LEMMA CreateSpares ==
    ASSUME Inv, Inv', ForeignKeysResolve, NEW t \in Table, NEW defs, NEW checks,
           CreateTable(t, defs, checks),
           NEW u \in DOMAIN catalog, NEW d \in DOMAIN catalog[u].columns
    PROVE  Spared(u, d)
<1>1. /\ t \notin DOMAIN catalog
      /\ \A w \in DOMAIN catalog : catalog'[w] = catalog[w] /\ tables'[w] = tables[w]
  BY CreateTableEffect
<1>2. RefOf(u, d) # NoRef => RefOf(u, d)[1] # t
  BY <1>1 DEF ForeignKeysResolve, RefOf
<1>3. u \in DOMAIN catalog \ {t} /\ catalog'[u].columns[d] = catalog[u].columns[d]
  BY <1>1
<1> QED BY <1>1, <1>2, <1>3, OtherTableSpared

LEMMA AlterSpares ==
    ASSUME Inv, Inv', ForeignKeysResolve, NEW t \in DOMAIN catalog, AltersAlone(t),
           NEW u \in DOMAIN catalog, NEW d \in DOMAIN catalog[u].columns,
           d \in DOMAIN catalog'[u].columns
    PROVE  Spared(u, d)
<1>1. /\ \E meta, rows : AlterTo(t, meta, rows, catalog)
      /\ \/ SameShape(t)
         \/ \A c \in DOMAIN catalog[t].columns :
               \/ ValuesMove(t, c, c)
               \/ \A v \in DOMAIN catalog : \A e \in DOMAIN catalog[v].columns :
                    RefOf(v, e) # <<t, c>>
  BY AltersAloneKeepValues
<1>2. CASE u = t
  BY <1>1, <1>2, AlterToLeavesNoOrphan DEF Spared
<1>3. CASE u # t
  <2>1. \A w \in DOMAIN catalog \ {t} : catalog'[w] = catalog[w] /\ tables'[w] = tables[w]
    BY <1>1, AlterToEffect
  <2>2. RefOf(u, d) # NoRef /\ RefOf(u, d)[1] = t =>
          RefOf(u, d)[2] \in DOMAIN catalog[t].columns /\ RefOf(u, d) = <<t, RefOf(u, d)[2]>>
    <3>1. RefOf(u, d) \in Ref \cup {NoRef}
      BY TableFacts DEF RefOf, ColumnMetadata
    <3>2. RefOf(u, d) # NoRef => RefOf(u, d)[2] \in DOMAIN catalog[RefOf(u, d)[1]].columns
      BY DEF RefOf, ForeignKeysResolve
    <3> QED BY <3>1, <3>2 DEF Ref
  <2> QED BY <1>1, <1>3, <2>1, <2>2, OtherTableSpared
<1> QED BY <1>2, <1>3

\* RENAME COLUMN takes the values of from to to and leaves the others.
LEMMA RenameMovesValues ==
    ASSUME Inv, NEW t \in DOMAIN catalog, NEW from, NEW to, RenameColumn(t, from, to)
    PROVE  /\ ValuesMove(t, from, to)
           /\ \A d \in DOMAIN catalog[t].columns \ {from} : ValuesMove(t, d, d)
<1> DEFINE names == (DOMAIN catalog[t].columns \ {from}) \cup {to}
           rows == [s \in DOMAIN tables[t] |->
                      [d \in names |-> tables[t][s][IF d = to THEN from ELSE d]]]
<1>1. \E meta, side : AlterTo(t, meta, rows, side)
  BY Zenon DEF RenameColumn
<1>2. to \notin DOMAIN catalog[t].columns
  BY Zenon DEF RenameColumn
<1>3. tables'[t] = rows
  <2> HIDE DEF rows
  <2> QED BY <1>1, AlterToEffect
<1>4. ValuesMove(t, from, to)
  <2>1. \A s \in DOMAIN tables[t] : to \in DOMAIN rows[s] /\ rows[s][to] = tables[t][s][from]
    OBVIOUS
  <2>2. DOMAIN rows = DOMAIN tables[t]
    OBVIOUS
  <2> HIDE DEF rows
  <2>3. DOMAIN tables[t] \subseteq DOMAIN tables'[t]
        /\ \A s \in DOMAIN tables[t] :
             to \in DOMAIN tables'[t][s] /\ tables'[t][s][to] = tables[t][s][from]
    BY <1>3, <2>1, <2>2
  <2> QED BY <2>3, KeptCellsKeepValues
<1>5. ASSUME NEW d \in DOMAIN catalog[t].columns \ {from} PROVE ValuesMove(t, d, d)
  BY <1>2, <1>3, KeptCellsKeepValues
<1> QED BY <1>4, <1>5

LEMMA RenameSpares ==
    ASSUME Inv, ForeignKeysResolve, NEW t \in DOMAIN catalog, NEW from \in Column,
           NEW to \in Column, RenameColumn(t, from, to),
           NEW u \in DOMAIN catalog, NEW d \in DOMAIN catalog[u].columns,
           d \in DOMAIN catalog'[u].columns
    PROVE  Spared(u, d)
<1>1. CASE u = t
  <2>1. \E meta, rows, side : AlterTo(t, meta, rows, side)
    BY RenameColumnAlters, Zenon
  <2> QED BY <1>1, <2>1, AlterToLeavesNoOrphan DEF Spared
<1>2. CASE u # t
  <2> DEFINE ref == RefOf(u, d)
  <2>1. /\ \A w \in DOMAIN catalog \ {t} : tables'[w] = tables[w]
        /\ catalog'[u].columns = RepointedColumns(catalog[u].columns, t, from, to)
    <3>1. \A w \in DOMAIN catalog \ {t} : catalog'[w] = Repointed(t, from, to)[w]
                                          /\ tables'[w] = tables[w]
      BY RenameEffect
    <3>2. Repointed(t, from, to)[u].columns = RepointedColumns(catalog[u].columns, t, from, to)
      BY TableFacts DEF Repointed
    <3> QED BY <1>2, <3>1, <3>2
  <2>2. RefOf(u, d)' = IF ref = <<t, from>> THEN <<t, to>> ELSE ref
    BY <2>1, TableFacts DEF RepointedColumns, RefOf, ColumnMetadata
  <2>3. /\ ref \in Ref \cup {NoRef}
        /\ ref # NoRef => ref[1] \in DOMAIN catalog /\ ref[2] \in DOMAIN catalog[ref[1]].columns
    BY TableFacts DEF RefOf, ColumnMetadata, ForeignKeysResolve
  <2>4. /\ ValuesMove(t, from, to)
        /\ \A c \in DOMAIN catalog[t].columns \ {from} : ValuesMove(t, c, c)
    BY RenameMovesValues
  <2>5. t \in Table /\ <<t, from>> # NoRef
    BY TableFacts, NamesAssumption
  <2> SUFFICES ASSUME RefOf(u, d)' # NoRef
               PROVE  Orphans(u, d)' \subseteq Orphans(u, d)
    BY DEF Spared, Orphans, RefOf
  <2> HIDE DEF ref
  <2>6. CASE ref = <<t, from>>
    <3>1. Reached(u, d) \subseteq Reached(u, d)'
      BY <1>2, <2>2, <2>4, <2>6 DEF Reached, Referenced, ValuesMove, ref
    <3> QED BY <1>2, <2>1, <2>5, <2>6, <3>1, ReachedValuesKeepOrphansAway DEF ref
  <2>7. CASE ref # <<t, from>> /\ ref[1] = t
    <3>1. ref # NoRef
      BY <2>2, <2>7
    <3>2. ref[2] \in DOMAIN catalog[t].columns \ {from}
      BY <2>3, <2>7, <3>1 DEF Ref
    <3>3. Reached(u, d) \subseteq Reached(u, d)'
      BY <1>2, <2>2, <2>4, <2>7, <3>2 DEF Reached, Referenced, ValuesMove, ref
    <3> QED BY <1>2, <2>1, <3>1, <3>3, ReachedValuesKeepOrphansAway DEF ref
  <2>8. CASE ref # <<t, from>> /\ ref[1] # t
    <3>1. ref # NoRef /\ RefOf(u, d)' = ref
      BY <2>2, <2>8
    <3>2. Reached(u, d)' = Reached(u, d)
      BY <1>2, <2>1, <2>3, <2>8, <3>1 DEF Reached, Referenced, ref
    <3> QED BY <1>2, <2>1, <3>1, <3>2, ReachedValuesKeepOrphansAway DEF ref
  <2> QED BY <2>6, <2>7, <2>8
<1> QED BY <1>1, <1>2

LEMMA InsertSpares ==
    ASSUME Inv, Inv', ForeignKeysResolve, NEW t \in DOMAIN catalog, NEW given, Insert(t, given),
           NEW u \in DOMAIN catalog, NEW d \in DOMAIN catalog[u].columns
    PROVE  Spared(u, d)
<1> DEFINE rows == [s \in DOMAIN tables[t] \cup DOMAIN given |->
                      IF s \in DOMAIN given THEN InsertedRow(catalog[t], given[s])
                      ELSE tables[t][s]]
<1>1. Valid(t, catalog[t], rows) /\ ReplaceRows(t, rows)
  BY Zenon DEF Insert
<1>2. DOMAIN given \cap DOMAIN tables[t] = {}
  BY Zenon DEF Insert
<1>3. \A s \in DOMAIN tables[t] : s \in DOMAIN rows /\ rows[s] = tables[t][s]
  BY <1>2
<1> HIDE DEF rows
<1>4. /\ catalog' = catalog /\ tables'[t] = rows
      /\ \A w \in DOMAIN catalog \ {t} : tables'[w] = tables[w]
  BY <1>1 DEF ReplaceRows, Inv, TypeOK
<1>5. CASE u = t
  BY <1>1, <1>5, ReplacedRowsLeaveNoOrphan DEF Spared
<1>6. CASE u # t
  <2>1. ASSUME NEW c \in DOMAIN catalog[t].columns PROVE ValuesMove(t, c, c)
    BY <1>3, <1>4, TableFacts, KeptCellsKeepValues
  <2>2. RefOf(u, d) # NoRef /\ RefOf(u, d)[1] = t
          => RefOf(u, d)[2] \in DOMAIN catalog[t].columns
    BY DEF RefOf, ForeignKeysResolve
  <2> QED BY <1>4, <1>6, <2>1, <2>2, OtherTableSpared
<1> QED BY <1>5, <1>6

LEMMA UpdateSpares ==
    ASSUME Inv, Inv', ForeignKeysResolve, NEW t \in DOMAIN catalog, NEW where, NEW assignments,
           Update(t, where, assignments),
           NEW u \in DOMAIN catalog, NEW d \in DOMAIN catalog[u].columns
    PROVE  Spared(u, d)
<1> DEFINE matched == {s \in DOMAIN tables[t] : tables[t][s] \in where}
           rows == [s \in DOMAIN tables[t] |->
                      IF s \in matched THEN Assigned(catalog[t], assignments, tables[t][s])
                      ELSE tables[t][s]]
<1>1. Valid(t, catalog[t], rows) /\ ReplaceRows(t, rows)
  BY Zenon DEF Update
<1>2. DOMAIN rows = DOMAIN tables[t]
  OBVIOUS
<1> HIDE DEF rows
<1>3. /\ catalog' = catalog /\ tables'[t] = rows /\ schemas' = schemas
      /\ \A w \in DOMAIN catalog \ {t} : tables'[w] = tables[w]
  BY <1>1 DEF ReplaceRows, Inv, TypeOK
<1>4. CASE u = t
  BY <1>1, <1>4, ReplacedRowsLeaveNoOrphan DEF Spared
<1>5. CASE u # t
  BY <1>2, <1>3, <1>5, OtherTableSpared DEF SameShape
<1> QED BY <1>4, <1>5

\* DELETE takes no value that a row of another table references.
LEMMA DeleteSpares ==
    ASSUME Inv, ForeignKeysResolve, NEW t \in DOMAIN catalog, NEW where, Delete(t, where),
           NEW u \in DOMAIN catalog, NEW d \in DOMAIN catalog[u].columns
    PROVE  Spared(u, d)
<1> DEFINE matched == {s \in DOMAIN tables[t] : tables[t][s] \in where}
           deleted == [s \in matched |-> tables[t][s]]
           kept == DOMAIN tables[t] \ matched
           rows == [s \in kept |-> tables[t][s]]
           ref == RefOf(u, d)
<1>1. DeleteAllowed(t, deleted) /\ ReplaceRows(t, rows)
  BY Zenon DEF Delete
<1>2. /\ DOMAIN rows \subseteq DOMAIN tables[t] /\ \A s \in DOMAIN rows : rows[s] = tables[t][s]
      /\ DOMAIN deleted \cup DOMAIN rows = DOMAIN tables[t]
      /\ \A s \in DOMAIN deleted : deleted[s] = tables[t][s]
  OBVIOUS
<1> HIDE DEF matched, deleted, kept, rows
<1>3. /\ catalog' = catalog /\ tables'[t] = rows /\ schemas' = schemas
      /\ \A w \in DOMAIN catalog \ {t} : tables'[w] = tables[w]
      /\ DOMAIN tables = DOMAIN catalog
  BY <1>1 DEF ReplaceRows, Inv, TypeOK
<1>4. /\ RefOf(u, d)' = ref
      /\ ref # NoRef => ref[1] \in DOMAIN catalog /\ ref[2] \in DOMAIN catalog[ref[1]].columns
  BY <1>3 DEF RefOf, ForeignKeysResolve
<1> SUFFICES ASSUME ref # NoRef, NEW s \in Orphans(u, d)', s \notin Orphans(u, d)
             PROVE  LosesTarget(u, d, s)
  BY <1>4 DEF Spared, Orphans, RefOf
<1>5. Orphans(u, d)' = Dangling(tables'[u], d, Reached(u, d)')
      /\ Orphans(u, d) = Dangling(tables[u], d, Reached(u, d))
  BY <1>4 DEF Orphans, RefOf, Reached
<1>6. s \in DOMAIN tables[u] /\ tables'[u][s] = tables[u][s]
  <2>1. CASE u = t
    BY <1>2, <1>3, <1>5, <2>1 DEF Dangling
  <2>2. CASE u # t
    BY <1>3, <1>5, <2>2 DEF Dangling
  <2> QED BY <2>1, <2>2
<1>7. /\ tables[u][s][d] # Empty
      /\ tables[u][s][d] \in Reached(u, d) /\ tables[u][s][d] \notin Reached(u, d)'
  BY <1>5, <1>6 DEF Dangling
<1>8. CASE ref[1] # t
  <2>1. Reached(u, d)' = Reached(u, d)
    <3>1. CASE ref[1] = u
      BY <1>3, <1>4, <1>8, <3>1 DEF Reached, Referenced
    <3>2. CASE ref[1] # u
      BY <1>3, <1>4, <1>8, <3>2 DEF Reached, Referenced
    <3> QED BY <3>1, <3>2
  <2> QED BY <1>7, <2>1
<1>9. CASE ref[1] = t
  <2>1. Reached(u, d) = ValuesOf(tables[t], ref[2]) /\ Reached(u, d)' = ValuesOf(rows, ref[2])
    BY <1>3, <1>4, <1>9 DEF Reached, Referenced
  <2>2. PICK r \in DOMAIN tables[t] : /\ ref[2] \in DOMAIN tables[t][r]
                                      /\ tables[t][r][ref[2]] = tables[u][s][d]
    BY <1>7, <2>1 DEF ValuesOf
  <2>3. r \notin DOMAIN rows
    BY <1>2, <1>7, <2>1, <2>2 DEF ValuesOf
  <2>4. CASE u = t
    BY <1>3, <1>4, <1>6, <1>9, <2>2, <2>3, <2>4 DEF LosesTarget, RefOf
  <2>5. CASE u # t
    <3>1. tables[u][s][d] \notin ValuesOf(deleted, ref[2])
      BY <1>1, <1>4, <1>6, <1>7, <1>9, <2>5 DEF DeleteAllowed, RefOf
    <3>2. tables[u][s][d] \in ValuesOf(deleted, ref[2])
      BY <1>2, <2>2, <2>3 DEF ValuesOf
    <3> QED BY <3>1, <3>2
  <2> QED BY <2>4, <2>5
<1> QED BY <1>8, <1>9

\* A table or a column that was not there before has no orphan: a new table has
\* no rows, a new column a table whose rows were validated.
LEMMA NewColumnsLeaveNoOrphan ==
    ASSUME Inv, Next, NEW t \in DOMAIN catalog', NEW c \in DOMAIN catalog'[t].columns,
           t \notin DOMAIN catalog \/ c \notin DOMAIN catalog[t].columns
    PROVE  Orphans(t, c)' = {}
<1>1. ASSUME NEW u \in Table, NEW defs, NEW checks, CreateTable(u, defs, checks)
      PROVE  Orphans(t, c)' = {}
  <2>1. /\ \A w \in DOMAIN catalog : catalog'[w] = catalog[w]
        /\ DOMAIN catalog' = DOMAIN catalog \cup {u} /\ DOMAIN tables'[u] = {}
    BY <1>1, CreateTableEffect
  <2>2. DOMAIN tables'[t] = {}
    BY <2>1
  <2> QED BY <2>2 DEF Orphans, Dangling
<1>2. ASSUME NEW u \in DOMAIN catalog, NEW meta, NEW rows, NEW side,
             AlterTo(u, meta, rows, side),
             \A w \in DOMAIN catalog \ {u} : DOMAIN side[w].columns = DOMAIN catalog[w].columns
      PROVE  Orphans(t, c)' = {}
  <2>1. /\ DOMAIN catalog' = DOMAIN catalog
        /\ \A w \in DOMAIN catalog \ {u} : catalog'[w] = side[w]
    BY <1>2, AlterToEffect
  <2>2. t = u
    BY <1>2, <2>1
  <2> QED BY <1>2, <2>2, AlterToLeavesNoOrphan
<1>3. CASE Ddl
  <2>1. ASSUME NEW u \in DOMAIN catalog, AltersAlone(u) PROVE Orphans(t, c)' = {}
    BY <1>2, <2>1, AltersAloneKeepValues, Zenon
  <2>2. ASSUME NEW u \in DOMAIN catalog, NEW from \in Column, NEW to \in Column,
               RenameColumn(u, from, to)
        PROVE  Orphans(t, c)' = {}
    <3>1. \A w \in DOMAIN catalog : DOMAIN Repointed(u, from, to)[w].columns = DOMAIN catalog[w].columns
      BY TableFacts DEF Repointed, RepointedColumns
    <3>2. \E meta, rows : AlterTo(u, meta, rows, Repointed(u, from, to))
      BY <2>2, RenameColumnAlters, Zenon
    <3> QED BY <1>2, <3>1, <3>2, Zenon
  <2> QED BY <1>1, <1>3, <2>1, <2>2, Zenon DEF Ddl, AltersAlone
<1>4. CASE Dml
  <2>1. catalog' = catalog
    BY <1>4, DmlReplacesRows, Zenon DEF RowsReplaced, ReplaceRows
  <2> QED BY <2>1
<1> QED BY <1>3, <1>4 DEF Next

\* A row becomes an orphan only when the value it references is rewritten in
\* another table, or deleted from its own (enforceDeleteConstraints,
\* validateTableState, RENAME COLUMN and DROP COLUMN).
THEOREM OrphansNeedARewrite == Spec => OrphansOnlyByRewrite
<1> DEFINE Step ==
      \A t \in DOMAIN catalog' : \A c \in DOMAIN catalog'[t].columns :
        \A s \in Orphans(t, c)' :
           /\ t \in DOMAIN catalog /\ c \in DOMAIN catalog[t].columns
           /\ s \in Orphans(t, c) \/ LosesTarget(t, c, s)
<1>1. Inv /\ Inv' /\ ForeignKeysResolve /\ [Next]_vars => [Step]_vars
  <2> SUFFICES ASSUME Inv, Inv', ForeignKeysResolve, Next,
                      NEW t \in DOMAIN catalog', NEW c \in DOMAIN catalog'[t].columns,
                      Orphans(t, c)' # {}
               PROVE  /\ t \in DOMAIN catalog /\ c \in DOMAIN catalog[t].columns
                      /\ Spared(t, c)
    BY DEF Spared
  <2>1. t \in DOMAIN catalog /\ c \in DOMAIN catalog[t].columns
    BY NewColumnsLeaveNoOrphan
  <2>2. CASE Ddl
    BY <2>1, <2>2, CreateSpares, AlterSpares, RenameSpares, Zenon DEF Ddl, AltersAlone
  <2>3. CASE Dml
    BY <2>1, <2>3, InsertSpares, UpdateSpares, DeleteSpares, Zenon DEF Dml
  <2> QED BY <2>1, <2>2, <2>3 DEF Next
<1> QED BY <1>1, InitInv, NextInv, ForeignKeysStayResolved, PTL DEF Spec, OrphansOnlyByRewrite
=============================================================================
