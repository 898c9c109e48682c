----------------------------- MODULE TableStore -----------------------------
(***************************************************************************)
(* The in-memory tables of src/src/storage/table.cpp with their versions   *)
(* and their hash index cache, the statements that rewrite a table, and    *)
(* the two ways PlanOptimizer::chooseAccessPaths lets a query with one     *)
(* pushed equality read it: a scan of every row, or a lookup in an index   *)
(* that getOrBuildHashIndex builds once and keeps until the table changes. *)
(*                                                                         *)
(* A bucket is a set of row ids: the code appends ids in ascending order   *)
(* and both access paths visit rows in that order.                         *)
(***************************************************************************)
EXTENDS Naturals, Sequences

CONSTANTS
    Table, Column,
    Cell,             \* stored strings
    Empty,            \* the empty string, the key of a row without the column
    Number,           \* Number[v]: the number v spells, or NotNumber
    NotNumber,
    IndexThreshold,   \* rows from which an index is used (256 in the code)
    MaxRows,          \* bound: rows of one table
    MaxWrites         \* bound: writes to one table

ASSUME StoreAssumption ==
    /\ Empty \in Cell
    /\ IndexThreshold \in Nat
    /\ MaxRows \in Nat /\ MaxWrites \in Nat

VARIABLES
    rows,             \* Database::tables
    schema,           \* Database::schemas
    version,          \* Database::tableVersions_, 0 where there is none
    cache,            \* Database::hashIndexCache_
    answer            \* whether the last query threw, and the rows it read

vars == <<rows, schema, version, cache, answer>>

\* compareValues with "=": two numbers compare as numbers.
Equal(v, w) ==
    IF Number[v] # NotNumber /\ Number[w] # NotNumber THEN Number[v] = Number[w]
    ELSE v = w

----------------------------------------------------------------------------
(* The index *)

\* A default-constructed HashIndexEntry, which is also what an erased one is
\* to the next lookup.
NoEntry == [version |-> 0, buckets |-> <<>>]

Key(row, c) == IF c \in DOMAIN row THEN row[c] ELSE Empty

\* Mutant: a key's bucket holds the last row only.
BucketsOfLastRow(table, c) ==
    [k \in {Key(table[i], c) : i \in DOMAIN table} |->
       {i \in DOMAIN table : /\ Key(table[i], c) = k
                             /\ \A j \in DOMAIN table : Key(table[j], c) = k => j <= i}]

\* The buckets built from the rows of a table.
Buckets(table, c) ==
    [k \in {Key(table[i], c) : i \in DOMAIN table} |->
       {i \in DOMAIN table : Key(table[i], c) = k}]

Reusable(entry, t) == entry.version = version[t] /\ entry.buckets # <<>>

\* The entry getOrBuildHashIndex leaves in the cache and answers from.
Lookup(t, c) ==
    IF Reusable(cache[t][c], t) THEN cache[t][c]
    ELSE [version |-> version[t], buckets |-> Buckets(rows[t], c)]

----------------------------------------------------------------------------
(* Queries *)

UsesIndex(t) == Len(rows[t]) >= IndexThreshold

Answered(ids) == [failed |-> FALSE, ids |-> ids]

Failed == [failed |-> TRUE, ids |-> {}]

\* IndexScanExecutor: ids past the end of the table are skipped.
IndexAnswer(t, c, v) ==
    LET buckets == Lookup(t, c).buckets IN
    Answered(IF v \in DOMAIN buckets THEN buckets[v] \cap DOMAIN rows[t] ELSE {})

\* SeqScanExecutor: a column the first row does not have makes it throw.
ScanAnswer(t, c, v) ==
    IF rows[t] # <<>> /\ c \notin schema[t] THEN Failed
    ELSE Answered({i \in DOMAIN rows[t] : Equal(rows[t][i][c], v)})

IndexScan(t, c, v) ==
    /\ UsesIndex(t)
    /\ answer' = IndexAnswer(t, c, v)
    /\ cache' = [cache EXCEPT ![t][c] = Lookup(t, c)]
    /\ UNCHANGED <<rows, schema, version>>

SeqScan(t, c, v) ==
    /\ ~UsesIndex(t)
    /\ answer' = ScanAnswer(t, c, v)
    /\ UNCHANGED <<rows, schema, version, cache>>

----------------------------------------------------------------------------
(* Writes *)

\* Mutant: neither the version nor the cache learns of the write.
MarkNothing(t) == UNCHANGED <<version, cache>>

\* markTableMutated.
Mark(t) ==
    /\ version' = [version EXCEPT ![t] = @ + 1]
    /\ cache' = [cache EXCEPT ![t] = [c \in Column |-> NoEntry]]

\* Every statement ends by giving the table its new rows, then marking it.
Store(t, columns, table) ==
    /\ version[t] < MaxWrites
    /\ rows' = [u \in DOMAIN rows \cup {t} |-> IF u = t THEN table ELSE rows[u]]
    /\ schema' = [u \in DOMAIN schema \cup {t} |-> IF u = t THEN columns ELSE schema[u]]
    /\ Mark(t)
    /\ UNCHANGED answer

\* CREATE TABLE, and a load of the table's file when the program starts: the
\* table comes into being with the rows the file holds.
Load(t, columns, table) ==
    /\ t \notin DOMAIN rows
    /\ Len(table) <= MaxRows
    /\ Store(t, columns, table)

Insert(t, added) ==
    /\ t \in DOMAIN rows
    /\ added # <<>>
    /\ Len(rows[t]) + Len(added) <= MaxRows
    /\ Store(t, schema[t], rows[t] \o added)

\* Some rows get the value v in column c.
Update(t, matched, c, v) ==
    /\ t \in DOMAIN rows
    /\ matched # {}
    /\ c \in schema[t]
    /\ Store(t, schema[t],
         [i \in DOMAIN rows[t] |->
            IF i \in matched THEN [rows[t][i] EXCEPT ![c] = v] ELSE rows[t][i]])

\* Mutant: DELETE does not mark the table.
DeleteUnmarked(t, keep) ==
    /\ t \in DOMAIN rows
    /\ Len(keep) < Len(rows[t])
    /\ \A i, j \in DOMAIN keep : i < j => keep[i] < keep[j]
    /\ rows' = [rows EXCEPT ![t] = [i \in DOMAIN keep |-> rows[t][keep[i]]]]
    /\ UNCHANGED <<schema, version, cache, answer>>

\* keep lists the ids of the rows that stay, in order: they close up, so the
\* id of a row is not the id it had.
Delete(t, keep) ==
    /\ t \in DOMAIN rows
    /\ Len(keep) < Len(rows[t])
    /\ \A i, j \in DOMAIN keep : i < j => keep[i] < keep[j]
    /\ Store(t, schema[t], [i \in DOMAIN keep |-> rows[t][keep[i]]])

\* Mutant: the header changes and the rows keep their cells.
AlterHeader(t, origin) ==
    /\ t \in DOMAIN rows
    /\ DOMAIN origin # {}
    /\ Store(t, DOMAIN origin, rows[t])

\* ALTER TABLE: origin[c] is the old column whose cells the new column c gets,
\* a column the table does not have for the empty cells of an added one.
Alter(t, origin) ==
    /\ t \in DOMAIN rows
    /\ DOMAIN origin # {}
    /\ Store(t, DOMAIN origin,
         [i \in DOMAIN rows[t] |->
            [c \in DOMAIN origin |-> Key(rows[t][i], origin[c])]])

----------------------------------------------------------------------------

IsEntry(entry) ==
    /\ entry = [version |-> entry.version, buckets |-> entry.buckets]
    /\ entry.version \in Nat
    /\ DOMAIN entry.buckets \subseteq Cell
    /\ entry.buckets \in [DOMAIN entry.buckets -> SUBSET Nat]

TypeOK ==
    /\ DOMAIN rows \subseteq Table
    /\ schema \in [DOMAIN rows -> SUBSET Column]
    /\ rows = [t \in DOMAIN rows |-> rows[t]]
    /\ \A t \in DOMAIN rows : rows[t] \in Seq([schema[t] -> Cell])
    /\ version \in [Table -> Nat]
    /\ cache = [t \in Table |-> [c \in Column |-> cache[t][c]]]
    /\ \A t \in Table, c \in Column : IsEntry(cache[t][c])
    /\ answer \in [failed : BOOLEAN, ids : SUBSET Nat]

Init ==
    /\ rows = <<>>
    /\ schema = <<>>
    /\ version = [t \in Table |-> 0]
    /\ cache = [t \in Table |-> [c \in Column |-> NoEntry]]
    /\ answer = Answered({})

\* The tables of at most n rows with these columns.
TablesOf(columns, n) == UNION {[1..k -> [columns -> Cell]] : k \in 0..n}

Read ==
    \E t \in DOMAIN rows, c \in Column, v \in Cell :
        IndexScan(t, c, v) \/ SeqScan(t, c, v)

Write ==
    \/ \E t \in Table, C \in SUBSET Column \ {{}} :
         \E table \in TablesOf(C, MaxRows) : Load(t, C, table)
    \/ \E t \in DOMAIN rows :
         \/ \E added \in TablesOf(schema[t], MaxRows) : Insert(t, added)
         \/ \E matched \in SUBSET DOMAIN rows[t], c \in Column, v \in Cell :
              Update(t, matched, c, v)
         \/ \E k \in 0..Len(rows[t]) : \E keep \in [1..k -> DOMAIN rows[t]] :
              Delete(t, keep)
         \/ \E C \in SUBSET Column : \E origin \in [C -> Column] : Alter(t, origin)

Next == Read \/ Write

Spec == Init /\ [][Next]_vars

----------------------------------------------------------------------------
(* Safety *)

\* A cache entry that the next lookup would answer from describes the rows the
\* table has now: no write leaves an index of the rows before it behind.
CacheCoherent ==
    \A t \in DOMAIN rows, c \in Column :
        Reusable(cache[t][c], t) => cache[t][c].buckets = Buckets(rows[t], c)

\* The two access paths give a query the same rows, except for a literal that
\* some cell of the column equals under another spelling and for a column the
\* table does not have: so a table that grows past the threshold keeps the
\* answers it gave.
PathsAgree ==
    \A t \in DOMAIN rows : \A c \in schema[t], v \in Cell :
        (\A i \in DOMAIN rows[t] : Equal(rows[t][i][c], v) => rows[t][i][c] = v)
            => IndexAnswer(t, c, v) = ScanAnswer(t, c, v)

\* Versions, cache and access paths are invisible but for what IndexedTable
\* leaves open.
Abstract == INSTANCE IndexedTable WITH
    Equal <- Equal, rows <- rows, schema <- schema, answer <- answer

ImplementsIndexedTable == Abstract!Spec
=============================================================================
