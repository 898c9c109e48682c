# Simple query processor: specifications

TLA+ modules about the SQL engine in this repository, the TLC runs that check
them on small instances, and theorems about them that the TLA+ proof system
checks for every instance. Paths below are relative to the repository, and
QEA stands for `src/app/query_engine_app.cpp`.

## 1. The system

One process, one thread. `main.cpp` starts `QueryEngineApp`, which reads the
data directory (`bootstrapDatabase`) and then executes one statement at a time,
from a script or from the command line. There is no concurrency; what makes the
program hard is *sequences*: statements that change the rules earlier rows were
checked against, caches that outlive a statement, and files that are rewritten
one after the other in a process that may end at any point.

| component | code | state | operations | correct when |
|---|---|---|---|---|
| statements (DDL, DML) | QEA 1302-2075 | catalog, rows, headers | CREATE TABLE, ALTER TABLE (ADD/DROP/RENAME/ALTER COLUMN, ADD PRIMARY KEY/UNIQUE/FOREIGN KEY/CHECK), INSERT, UPDATE, DELETE | committed rows satisfy the constraints the catalog declares now; foreign keys name what exists; a statement that throws changed nothing in memory |
| constraint validation | QEA 954-1125, `data_type.cpp` | none | `validateRowsAgainstMetadata`, `enforceDeleteConstraints`, `normalizeTypedValue` | it accepts exactly the rows the metadata allows |
| CHECK evaluator | QEA 166-388 | token position | `evalCheckExpr`, normalisation, identifier rewriting | it agrees with the text; a stored text means what was declared |
| in-memory store | `storage/table.cpp` | tables, headers, versions, hash indexes | `markTableMutated`, `getOrBuildHashIndex` | an index never describes rows that are gone |
| access paths | `seq_scan_executor`, `index_scan_executor`, `optimizer.cpp` 786-914 | cursor | open, next, close | both give a query the same rows |
| CSV files | `storage/csv_loader.cpp` | one file per table | `saveTable`, `parseFile` | what is saved reads back |
| metadata file | `storage/metadata_catalog.cpp` | `metadata.json` | `load`, `save` | it describes the catalog and agrees with the table files |
| bootstrap | QEA 1141-1298 | - | load, legacy import, recreate missing files, save | it ends, and it destroys nothing |
| lexer, parser | `parser/` | token stream | `parseStatement` | clauses are kept, not dropped |
| planner, optimizer, cost model | `planner/` | plan tree | join reordering, folding, push-down, pruning, access paths | the plan means the query |
| executors | `execution/` | per operator | open, next, close | each operator yields its relational meaning |
| script loader, CLI | `sql_script_loader.cpp`, `app/cli/` | buffers | split, run, edit | statements are split and run in order |

Interactions. A statement is parsed, its table names are resolved against the
catalog (`resolveTableNames`), and `executeDispatch` runs it. DDL and DML
validate a *candidate* (new metadata, new rows) against the database, swap it
into catalog and database, mark the table as mutated (which bumps its version
and erases its indexes), and only then write: `persistTable` rewrites the CSV
file, and DDL rewrites `metadata.json` after it. SELECT builds a plan, which is
optimized with the row counts of the moment, and pulls rows through executors;
an index scan asks the store for an index, which is the only state a query
leaves behind. At the next start, `metadata.json` decides which CSV files are
read, and their headers must be those of the metadata.

Hard behaviours, each listed with its line in `PROJECT.json`: ALTERs that meet
rows and foreign keys of other statements' making; DELETE and UPDATE against
references from other tables and from the table itself; index reuse across
writes; the switch of access path at 256 rows; a crash or a failing write
between or inside the files one statement writes; a start on files like that;
the CHECK parser that evaluates while it parses, and what `metadata.json` makes
of its texts; joins whose algorithm depends on the sizes of their inputs; join
orders that depend on them too; the order of LIMIT and DISTINCT; a stale
`errno`; and two scanners that must agree on where a statement ends.

## 2. The modules

| module | models | depends on |
|---|---|---|
| `Constraints` | types, CHECKs, rows, metadata and what `validateRowsAgainstMetadata` accepts; no state | - |
| `Engine` | the statements, in memory | `Constraints` |
| `IndexedTable` | what the store promises a query with one equality: the rows of the moment | - |
| `TableStore` | tables with versions, the index cache, both access paths, every writer | implements `IndexedTable` |
| `Durability` | the data directory: statements as file writes, faults, bootstrap | - |
| `CsvText` | the text of a table file, whole and cut | extends `Durability` |
| `Checks` | the constraints of a CREATE TABLE as the parser reads them, and the life of CHECK texts: evaluated, renamed, saved, loaded | `Cells` |
| `Cells` | what a cell is as a number and as a text, and the three ways the code compares two; no state | `Orders` |
| `Orders` | sorted positions, ranks and picked rows; no state | - |
| `JoinAnswer` | the relational join; no state | - |
| `RelationalJoin` | what a join promises the operator above it | `JoinAnswer` |
| `Joins` | one `JoinExecutor`: choice of algorithm, three algorithms row by row, `next`, `close` | implements `RelationalJoin` |
| `Planner` | from a SELECT to the plan that runs: join order, predicates, every optimizer pass | `Cells` |
| `Pipeline` | the operators above the joins, pulling rows | `Cells` |
| `Session` | options, script splitter, terminal loop, line editor, history | - |
| `MC...` | the small instances TLC checks | |
| `EngineProofs`, `TableStoreProofs`, `DurabilityProofs`, `JoinsProofs`, `PipelineProofs`, `SessionProofs`, `ChecksProofs` | the theorems | `TLAPS` |
| `Traces` | lemmas about sequences (induction on their length, folds and recursive functions step by step, concatenation) and about orders, sorted lists, sums, picked positions and the texts that FlattenSeq puts together | `TLAPS` |

A statement passes through them in this order: `Session` hands it over as text;
`Checks` reads the clauses of a CREATE TABLE; `Engine` executes DDL and DML in
memory and `Durability` writes its files, as `CsvText` spells them; a SELECT is
planned by `Planner`, its joins run as `Joins`, the rest as `Pipeline`, and its
lookups go to `TableStore`.

### Constraints and Engine

State: `catalog` (`MetadataCatalog::tables_`), `tables` and `schemas`
(`Database`), and a counter that bounds the ALTERs. One action is one statement
that succeeds. A statement that throws has changed nothing in memory by then
(validation comes before the swap), so it is a step that is not taken. SQL
text, column order and row order are left out: no statement modelled here
depends on them. A row is identified by a slot, as one vector element. A CHECK
is the columns it names, those it names on the left of a comparison, and the
tuples it accepts; a text that throws when it is evaluated accepts none, which is
how the engine treats it. A name on the left that is no column makes it throw,
one on the right stands for its own spelling (`ValueNamed`). Two oddities of
the code are kept because they change what is accepted: a check that starts
with a parenthesis is taken for an IN list (`Conjoined`), and UNIQUE inside a
composite key is not enforced (`EnforcesUnique`). BOOLEAN is the one type that
rewrites what it stores (`Canonical`), which is why ALTER COLUMN TYPE changes
cells. WHERE is the set of rows it is true of, so every predicate is covered.

The initial state is an empty data directory. CSV files without metadata are
imported by the bootstrap with no foreign keys and are left to `Durability`;
two of them whose names differ only in case would make names ambiguous, which
`NamesUnambiguous` therefore does not speak about.

### TableStore and IndexedTable

`version` and `cache` are `tableVersions_` and `hashIndexCache_`. Every writer
(load, INSERT, UPDATE, DELETE, ALTER) is an action that ends in `Mark`. The
lookup is the code's: an entry is reused when its version is the table's and it
has buckets. `IndexedTable` has neither; it says that a query of a column the
table has returns at least the rows that hold the very spelling of the literal
and at most the rows equal to it. That gap is the code's: the index compares
strings where the scan compares numbers (`01` and `1`), and the scan throws for
an unknown column where the index finds nothing.

### Durability

A statement changes `mem` and puts the files it will write in `pending`; each
file is then opened (which truncates it) and written, in two steps. Faults are
a failing open (`OpenFails`), a write error that is reported
(`WriteReported`), one that is not (`WriteUnreported`: the flush when the CSV
stream is closed, and anything in `MetadataCatalog::save`), and the end of the
program at any step (`Stop`). What a file cut short reads as is `Partial`:
nothing that parses, fewer columns, fewer rows, or a last cell cut short. A
boot is `Start`, then per table `RecreateFile`, `LoadTable` or `LoadFails`, and
`SaveCatalog`. The rows of a table are those its slots hold; their order in the
file, which nothing here looks at, is left out. `damaged` is a history
variable: the files whose last write did not complete.

A table has `rules`, all that `metadata.json` says of it beyond its columns. Not
all rules survive the file: `Legible` are those whose JSON text the loader can
read, `Reloaded` says what a save, a load and `normalizeCatalogTypes` make of
each. Which rules are lost and how is the subject of `Checks`: a number such as
`007` in a CHECK is written as it stands and refused by the loader, a second
bound and UNIQUE inside a composite key are gone after a restart. What
`Durability` assumes of the two, that loading a second time changes nothing and
that what was loaded once can be loaded again, is what `SaveSettles` and
`StartsAgain` say there. The instance has a rule that cannot be read and one
that comes back as another.

`CsvText` extends it with characters. `SaveTable` is the text `saveTable`
builds, `ParseFile` the scanner of `parseCsvBuffer` with the checks of
`parseFile`. Its properties speak of the file that is open: any small table of
that width reads back, and any beginning of its text is of one of the kinds
`Partial` allows: it does not parse, or it holds the first columns of the header
or the first rows, the last name or cell perhaps cut short (`Begins`). This is
what entitles `Durability` to work with layouts and rows. The width of a row
decides it: without that check a file cut inside a row would read as a table
that never was.

### Checks

The items of a CREATE TABLE are read one by one, as `parseCreateTable` does: column
clauses go to the column read last, table constraints to the columns read *so
far*. After that the table lives: INSERT, ALTER TABLE ADD CHECK, RENAME COLUMN,
restart. `EvalCheckExpr` keeps what is peculiar about the evaluator: it
evaluates while it parses, and a connective whose left side decides does not
consume its right side, so whatever follows is an error and the statement
throws. `Reloaded` is what a save and a load make of a column's check: one of
four JSON shapes, found by patterns that look at the beginning and the end of
the text. Texts are sequences of tokens. `meant` is a history variable: what
was declared, renamed along with the columns. An expression is the sequence of
its parts, each after those it has in parentheses, so that texts and truth values
are built part by part (`Texts`, `Meanings`); the nested calls of `parseOr` are
functions of the place they start at, by how deep they nest (`Parsed`).

What it says about the code: under `CHECK (b = 1 OR b = 2)` every INSERT with `b
= 1` throws. A check of a column that begins with a parenthesis, which every
check an ENUM column is given does, always throws, since it is taken for an IN
list. A second CHECK clause of a column replaces the first. A check `score >= 0
AND score <= 100` is saved as a comparison with the value `0 AND score <= 100`
and has no upper bound after a restart, although `README.md:113` gives this very
text as an `expression`. A number that JSON does not have, such as `007`, `+5`
or `.5`, is written as a number all the same, and every later start ends at it
(`Loads`, `StartsAgain`). UNIQUE on a column of a composite key is dropped by a
restart. The properties name these cases (`Storable`, `NeedsAll`, `Misread`,
`Unloadable`) and say that nothing else goes wrong. `Misread` has one more: `a
IN (b) OR (...)` matches the greedy pattern of a list, is cut down to what is
between, and that is a list again only by chance.

### Joins over RelationalJoin

One behaviour is one join: `Open` drains and chooses, each turn of a loop of
`runNestedLoopJoin`, `runHashJoin` or `runMergeJoin` is a step, then `NextRow`,
`NoMoreRows` and `Close` in any order the protocol allows. A row is its
position, so the answer is a sequence of pairs. `ImplementsRelationalJoin` is a
refinement: the abstract join delivers rows of `Answer` and ends only when all of
them are `delivered` (a set: a row that comes out twice is the subject of
`RepeatsOnlyResidual`). It holds with a mapping that says what the algorithm
takes for a match (`PhysicalPairs`: a hash join wants equal texts) and that a
RIGHT join by hash answers as FULL. `SizesKeepTheAnswer` drops that mapping: the
answer is the SQL one whichever algorithm the sizes select, if no two equal
numbers are spelt differently. `OutputKeepsPace` looks inside the loops: at each
turn exactly the rows of the answer that the loop has passed are out. `Stretch`,
`GroupEnd` and the sorted key lists are the helpers of the merge join; each
right group is turned into rows of the left group as `runMergeJoin` does.

### Planner

The body of a plan is a tree of scans, filters and joins; the operators above it
are the names they read. `CreatePlan` is `createPlan` (reordered by cost when
every join is inner and its predicate reads qualified columns, otherwise as
written), and each optimizer pass is an action: folding, combining filters, pushing
down, pruning columns, access paths. A join has the algorithm it is planned with
(`Planned`, from estimated rows) and runs as `chooseAlgorithm` decides (`Hashed`,
from actual rows). `Result` is what the executors make of a tree, errors
included: a hash join compares the texts of its keys and answers RIGHT as FULL
(`KeptAs`), and the rows of a join have the columns their scans are said to emit,
with the bare names that are unique among these. It leaves out the order of rows
and the merge join, which answers as the hash join does over the inputs these
properties speak of (`Joins` has both).

`Result` is evaluated after each pass and compared with what the same executors
make of the query as written (`PlansAgree`); what the executors do wrong in both
is not its subject. Its preconditions name what the code does not promise, or
promises and does not do: names that are no columns (`WellNamed`; a misspelt
qualified name reads as empty above a join), literals that compare differently
in the folder, a scan, an index or a hash join (`Unambiguous`; `WHERE 1.0 = 1`
folds to false), an ON predicate that a join order loses (`Lost`, run
`planner_on`). Two differences are stated in it, and each contradicts what the
repository says. A bare name over a join whose scans are pruned may be an error
(`BareOverPruned`): each scan is then said to have the bare names of all, so
none is unique, although the comment of `mergeRows`
(`src/execution/join_executor.cpp:170`) says that bare names work. And a WHERE
condition pushed below a RIGHT join that answers as a FULL one (`WherePastFull`)
leaves more rows of the left side alone, none of which need satisfy it, although
`docs/features.md` lists both.

### Pipeline

Scan and filter, aggregation with HAVING, sort, limit, projection, distinct, in
the order `createPlan` stacks them; blocking operators drain their input in
`open()`, the others hand on one row. HAVING compares texts and is not looked at
when nothing aggregates. LIMIT is below DISTINCT. `overflow` is `errno`: the
parser of a WHERE clears it and leaves it as the parse did, the one in
`sort_executor.cpp` does not clear it, so one number out of range makes all
later keys compare as texts. HAVING is one more way there: it asks `strtoll`
first, which sets `errno` on an integer of more than 64 bits (`LongCell`) that
a long double holds well. `AnswerOrdered` says that these are the only reasons
for a wrong order. `GroupRows` is what `finalizeResults` makes of the groups,
`Picked` (of `Orders`) the rows a filter keeps, in their order.

### Session

`SplitToken` is the splitter, `TerminatorToken` the scanner by which the
terminal decides that a buffer is complete. The editor has its line, cursor,
history and queued lines of a paste; the history file survives the program,
which may be killed at any time. Executing a statement is one step that
succeeds or fails. `given` and `ran` are history variables: what was put in and
what was executed. A text is a sequence over `Token`, words and the markers the
scanners know. `Cut` is the reference for both scanners: `Opened` says what is
open after each token, `Ends` where statements end, `Stated` which tokens belong
to one. Words are tokens, and so are a newline and a blank (`Blank`), which matter only
inside of strings and in the history; a block comment between two words is one
with blanks around it. `NormalizeReplLine` repairs words that end in a clause
keyword (`region` becomes `regi on`); `Broken` says which words do. `command` is
the `.run` under way, which enters the history when its script is done.

An entry of the history is not always the statement that ran.
`NormalizeHistoryEntry` folds newlines and runs of blanks, inside of strings too,
and the line that is recalled is repaired once more, with the quotes of the whole
statement on it where each line had its own. `HistoryReplays` therefore promises
less than `README.md:45` ("recalls the full previous SQL statement"): what was executed
has an entry, now and in every later session, which entered again is complete
and one statement; and it is the same statement if that is `Plain`, on one line,
without runs of blanks and without words that the repair takes apart.

## 3. What is checked

| run | result | states | what it shows |
|---|---|---|---|
| `engine` | holds | 151,691 | types; header, metadata and rows agree; committed rows satisfy every constraint of their own table; foreign keys resolve; names stay unambiguous; key columns stay NOT NULL; a row is orphaned only when the value it references is rewritten in place in another table, or deleted from its own |
| `engine_foreign_keys` | violated | | `docs/features.md` lists FOREIGN KEY among the constraints, but `ALTER COLUMN ... TYPE BOOLEAN` turns a referenced `1` into `true`, and UPDATE can change it too; both validate the rewritten table only |
| `table_store` | holds | 42,343 | no stale index; both access paths agree outside the named gap; `TableStore` implements `IndexedTable` |
| `durability` | holds | 464,888 | undamaged files describe memory; a stop with no interrupted write behind it is followed by a start, unless a rule has a text that cannot be read, and loses nothing but blank rows of one-column tables and what the catalog loses of rules; starts never overwrite a readable table; every start ends; the texts of table files read back, and files cut short are of the kinds the model knows |
| `durability_sync` | violated | | `README.md:119` says DDL keeps `metadata.json` in sync with the table schema; a crash between the two files of an ALTER leaves them different, and every later start is refused |
| `joins` | holds | 271,531 | the three algorithms deliver the rows of the relational join, each once, in any size of input; at every turn of a loop exactly the rows it has passed are out; the loops of `open` end; the two exceptions are exactly the ones named |
| `joins_right` | violated | | `include/execution/join_executor.hpp:15` says RIGHT joins are supported; by hash they answer as FULL joins |
| `planner` | holds | 31,878 | a query answers the same after every pass and as it is written, with the exceptions named; no column is pruned that is read; a join order keeps each ON predicate once |
| `planner_on` | violated | | `include/planner/plan.hpp:75` says joins evaluate their ON predicate; a join order can attach one to no join |
| `pipeline` | holds | 165,959 | groups and aggregates are exact; order, limit and distinct are those of the plan; a SELECT fails only for a cause in its input |
| `checks` | holds | 62,061 | each clause ends up where it belongs; a CHECK keeps its verdict through inserts, renames and restarts; rows satisfy their CHECKs; saving settles; a start is refused exactly for the numbers that are written and cannot be read |
| `session` | holds | 1,392,389 | statements run once, in order and when they are complete; the exit status tells of failures; what is executed has an entry in every later history, which is one statement, and the same one if it is plain |

The violated runs are disagreements between what the repository says, in its
documents or comments, and the code. `OrphansOnlyByRewrite` in `engine` is the
other side of the first one: it names the only statements after which a
reference may point at nothing. `ImplementsRelationalJoin` and `OnAppliedOnce`
are the other sides of the two about joins: they say what a RIGHT join by hash
answers instead, and which predicates alone are lost. All but `durability_sync`,
which needs a crash, have been reproduced with the program: the example of
`tests/execution_test.cpp:709` has four rows where the RIGHT join has three, and
a chain of four tables of 5, 40, 8 and 200 rows has 1000 rows where 200 satisfy
its ON predicates.

Each property has a mutant in the module of the code it guards (an operator
whose comment begins with "Mutant"): a plausible slip in that code that makes
TLC refute the property.

Bounds, and why they suffice:

- `engine`: names `p`, `P` (same but for case) and `q`; columns `a`, `b`, added
  or created as an integer primary key or as an enumeration that references
  `p(a)`; three columns and two rows over all tables; two ALTERs. Two rows are
  what UNIQUE, keys and references relate; two tables with three columns allow
  a reference from another table, from the table itself, and a composite key;
  the third name is there for ambiguity. Two ALTERs let one change what the
  other meets, with DML before, between and after them; the theorems of section
  5 bound neither ALTERs nor columns.
- `table_store`: one table, two columns, cells `1`, `01` and empty, up to three
  rows with an index from two on (256 in the code), three writes. An index can
  be built, made stale by each writer, and be asked again; the table can cross
  the threshold both ways. Tables do not share versions or entries.
- `durability`: two tables of up to two rows (a blank one and a full one), two
  layouts, three rules (one that cannot be read back, one that comes back as
  another, one that stays), two statements, any fault at any step and any number
  of restarts.
  Two statements let one interrupted write be followed by another statement or
  by a repair.
- `durability`, for the texts: one or two columns, at most two rows, cells of up
  to two characters out of a letter, comma, quote, newline and return (one
  character where there are two rows), a header with a quote in it, and every
  place to cut. The scanner has three states and looks one character ahead; the
  theorems of section 5 bound none of this.
- `joins`: up to three rows a side with the thresholds scaled (32, 4096 and 256
  in the code; 1, 3 and 3 here), so that 2 x 2 rows hash and 3 x 3 sorted rows
  merge: groups, residues on either side and unmatched rows in each place all
  occur. Cells are spelt alike and differently (`1`, `01`, `1.0`, empty, text).
- `planner`: one to three tables of up to four rows, every join type, ON
  predicates over two tables, one or none, WHERE that folds, pushes left, right
  or not at all; an index from three rows on, and a hash join from two rows a
  side and three pairs (`TinySide`, `TinyProduct`; 32 and 4096 in the code), so that one
  query runs both ways. `planner_on` has four tables, the fewest that lose a
  predicate by cost, and the constants of the code.
- `pipeline`: inputs of up to three rows with every kind of cell, numbers in
  twelfths so that averages of three are exact (`One` is 12), and the clauses
  alone and together. Integers above 20 stand for those of more than 64 bits.
  `InRange` bounds the statements, in the runs and in the theorems: a column
  that is aggregated holds no number out of long double's range, and its sums
  and averages have a spelling, so that rounding is left out.
- `checks`: two columns, thirty-one CHECKs of every shape, with numbers JSON has
  and one it has not, all pairs of column
  clauses and of table constraints, two rows; restarts and renames in any order.
- `session`: four keys or pastes and two starts, three script files, thirteen
  command lines. Four inputs let a quote or comment opened on one line meet a
  terminator on the next, a string hold a newline or a run of blanks, and a
  history written in one run be recalled in another.

All runs disable the deadlock check: the counters that bound the behaviours run
out, a plan or a query that is done has no next step, and a program waiting for
its user may stop.

Symmetry: only `Slot` in `engine`, which nothing orders or names.

## 4. Fairness

Only `durability` states any: weak fairness of `Program`, the steps the program
takes without a user (writing, and going on with a boot once started). The
program is sequential code that does not wait for anything there. Statements,
starts and crashes are up to the world and get none. `BootEnds` says a start
ends, in a running program or one that has refused its files; it rests on
every table that cannot be loaded ending the boot. The loops of a join end by
`OpenProgresses`, which is an action property and needs no fairness.

## 5. What is proved

For every value of the constants, under the assumptions `NamesAssumption`,
`ValuesAssumption`, `InputsAssumption`, `StoreAssumption`, `FilesAssumption`,
`CsvAssumption`, `ChecksAssumption`, `CellAssumption`, `JoinAssumption`,
`PipelineAssumption` and `TextAssumption` of the modules (disjointness of names
and values, inputs of the right type, natural bounds, and of the headers of
`CsvText` what `IsHeader` says: a legacy file with two byte-order marks, of
which the program strips one at each start, is left out):

- `EngineTypes`, `SchemasStayInAgreement`. The inductive invariant is
  `Inv == TypeOK /\ SchemaAgrees`: neither is inductive without the other's
  part about rows, since an ALTER copies cells column by column from the rows
  it finds. Every ALTER ends in `AlterTo` and every DML statement in
  `ReplaceRows`, so there is one lemma about each and one per statement that
  shows what it hands to them.
- `NamesStayUnambiguous`, `OwnConstraintsStayTrue`, `KeysStayNotNull`,
  `ForeignKeysStayResolved`, each inductive together with `Inv`. The lemma
  `Steps` sorts the statements by effect (creates a table, alters one alone,
  renames, replaces rows). The argument for `OwnConstraintsStayTrue` is that
  validated rows are committed as validated, DELETE keeps some of the rows
  (`FewerRows`), and the metadata RENAME writes into other tables changes
  nothing their rows are checked for (`RepointedKeepsOwnConstraints`). For
  `ForeignKeysStayResolved`, DROP COLUMN is refused while anything names the
  column and RENAME COLUMN repoints every key that does
  (`RenameKeepsReferences`). `OrphansNeedARewrite` is an action property over
  the same invariants: each kind of statement spares the keys of the others,
  since CREATE and ALTER keep the cells a key reads and reaches (`AlterSpares`,
  `RenameSpares`) and validation checks the rows that an INSERT, UPDATE or
  DELETE leaves, and those there are when a key is added. What is left for a row
  that dangles is `LosesTarget`: it had a target, it and its table are as they
  were, and the target's cell is changed in place or, in its own table, gone.
- `CacheInvariant`, `StoreTypes`, `AccessPathsAgree`,
  `StoreImplementsIndexedTable`. The invariant `TypeOK /\ CacheCoherent` is
  inductive because a lookup leaves an entry built from the rows of the moment
  (`LookupIsCurrent`) and every writer erases the entries of its table. Reads
  refine `Query`, writes refine `Write`.

- `DirectoryTypes`, `UndamagedFilesMatch`, `RestartsKeepData`, `BootsKeepTables`,
  under any combination of faults. The inductive invariant is
  `Inv == TypeOK /\ PendingByPhase /\ FilesMatch`. `PendingByPhase` says what
  each phase has still to write; without it neither the write of a file (whose
  table must be in memory) nor `BootsKeepTables` (a boot writes only files it
  could not read) follows. `FilesMatch` needs the part of `TypeOK` that a table
  file holds no line its reader skips: a file that was read then says what
  memory says. A restart rests on `SettledStay`: rules that were read from a file
  can be read again and stay as they are, so that what a start writes back is
  what it read. Every step that writes one file rests on `OneFileMatches`, every
  statement on `BeginKeepsInv`.
- `EveryTableReadsBack` and `EveryCutIsKnown`, for tables of any width and any
  number of rows over any characters, and from them, for the tables of the runs,
  `TablesReadBack` and `CutFilesKnown`. The reader is taken through the text of a
  cell (`CellRead`: with or without quotes it ends with the cell read, and on the way
  it has read one of its beginnings), of a line (`CsvLineRead`) and of a table
  (`TableRead`), each by induction on its length. So the reader's state after any
  number of characters is in `TableStates`: in the header, between two rows, or in
  a row, with whole cells before and a beginning of one in hand. What `parseFile`
  makes of each is `CutInHeader`, `CutAtLine` and `CutInLine`; the last needs
  the check of the width, which tells a row cut between its cells from a row.

- All properties of `joins`: `JoinTypes`, `OutputFollowsTheLoops`,
  `OnlyResidualRowsRepeat`, `AlgorithmsAgree`, `OpenEnds` and
  `JoinsImplementRelationalJoin`, for inputs of any size, any thresholds and any
  condition. The inductive invariant `IInv` has a part per phase. `Probing`: a
  nested loop or hash join before turn `i` has put out, each once, the rows
  whose outer position is below `i` (`ProbeTurn` adds those of one turn), and
  `matched` holds the partners found so far, from which the residual rows are
  computed. `MergeSoFar`: the rows out are those left of the two cursors, and
  `SplitAt` says why no pair straddles the cursors: all keys passed on one side
  are below, and not only at most equal to, those ahead on the other, except
  inside the group the cursors stand in. That is inductive only because the key
  comparison is a weak order and the lists are sorted by it (`KeysOrder`,
  `RankedSorts` of `Traces`), and it needs `matched` to hold the right rows
  passed. `MergeAtEnd` carries over what the last loop needs: an unmatched right
  row that is met there is beyond every left key. `Complete` is what the
  consumer starts from. The refinement maps each turn of `Open` to a stutter
  (nothing is `delivered` yet), `NextRow` to `Deliver` and `NoMoreRows`, which
  finds the cursor at the end of `out`, to `End`.

- All properties of `pipeline`: `GroupsAreAlwaysExact`, `AnswersAreOrdered`,
  `AnswersAreComplete` and `FailuresHaveACause`, for any set of statements over
  inputs of any length. `Invariance` is the inductive invariant `IInv`, with a
  part per operator. `GroupedSoFar`: the groups are those of the rows pulled so
  far, and each state holds the count, sum, least and greatest value and
  distinct texts of its group's rows; so a step has to show that the state of
  the row's group takes it in (`StateStep`, with `SumAdds` for the sum) and that
  no other group notices (`GroupStep`). `Filtered` and `Buffered` say what was
  handed to the sort; `SortSorts` that its output is a rearrangement of that,
  in order if `errno` was clear throughout, which `Quiet` carries along from the
  start: the order of an answer depends on an earlier operator's parse.
  `Emitted` accounts for each row by the cursor: the answer is the rows behind
  it, less those already delivered under DISTINCT, and the cursor ends at the
  limit or at the end. `FailureHasACause` is part of the invariant since a
  failing row must still be among the input's (`OutRowCause`).
  `Traces` has the lemmas about sums and picked positions this rests on.
  `SumFunctionOnSet` adds in an unspecified order, so that `SumAdds` (any
  element can be added last) is an induction on the size of the set, which is
  done by the least counterexample.

- All properties of `session`: `StatementsRunOnceInOrder`,
  `LinesRunWhenComplete`, `ExitStatusTells` and `EntriesStayStatements`, for any
  texts, files, histories and command lines. Two results about the scanners
  carry them. `TerminatorIsEnd`: the terminal's scanner finds a semicolon in a
  text if and only if `Ends` has one. `StatementsAreCut`: the splitter cuts every
  text as `Cut` does; its statement so far is what is stated behind the last end
  (`Rest`). Both, and all else about texts, are by induction on their length:
  each fold and recursive function is shown to go through its tokens one by one
  (`FoldTrace`, `RecursionTrace`), and `Appending` says that a set of texts
  closed under one more token is all of them. The inductive invariant
  `SessionInv` has a part per phase. `Collecting`: at the prompt nothing of the
  lines collected has run, and what has run is among what was given before them;
  without that, a line kept after an error could run twice. `Completed`: what
  runs at the terminal is the end of the statements of the lines collected, of
  which only the last holds an end. `Owed`: what ran, with all that is left to
  run, is among what was given. `Program`: in a script or query, what ran and
  what is left are the statements of the text, and `failed` counts the failures.
  `EntriesStayStatements` is about the step that executes a statement
  (`ExecutesReplay`). Statements of a terminated text are `Closed` (they hold no
  marker of a comment, no semicolon outside of quotes and no open quote:
  `StatementsClosed`); putting one on a line and breaking its words keeps it so
  (`HistoryKeeps`, `ReplKeeps`), and with a semicolon it is one statement
  (`ClosedIsStatement`). If it is plain, folding and repairing it changes no
  token (`PlainStays`, by induction on its length from `PlainNext`). That the entry
  stays in reach of every later session is in the invariant: `Filed` says that a
  session started now would load every entry of the history, since a session only
  ever adds to the file (`ContainsNext`, `LoadedMore`).

- All properties of `checks` (in `ChecksProofs`), for any declarations,
  expressions and rows: `DeclarationIsKept`, `SavingSettles`, `VerdictsAreTrue`
  and `RowsStayChecked`. What they rest on is where the tokens of an expression
  stand in its text (`SeparatedPlaces`, `PrimaryPlaces`, `AndPlaces`, `OrPlaces`).
  - `DeclarationIsKept`: the inductive invariant is `ReadSoFar`, `SaidSoFar` and
    `SaidLive`. After `k` items the columns are what the first `k` items say, and
    the clause that decides a constraint is the last of its kind among them.
  - `SavingSettles`: it is `ReadSoFar`, `TextsRead` and `TextsKept`. The text of a
    column's CHECK is made of tokens, is no list of its own column, and if it
    begins like one then no literal in it is made of others. The last part is
    there because a RENAME breaks such literals into tokens and could otherwise
    make a list out of a text that was none. Each of the four JSON shapes is
    shown to come back as itself (`AllComeBack`), and each text that `Build` or a
    RENAME leaves to have the invariant (`BuiltIsWritten`, `RewrittenSettles`,
    `KeptSettles`).
  - `VerdictsAreTrue` joins three results. `VerdictOf`: on the text of an
    expression the evaluator answers what the expression means. The loops of
    `parseAnd` and `parseOr` recurse over what they return and not over the text,
    so that they end at all is shown first (`LoopMoves`: every turn is further
    on), and with it that the depth of the text suffices for its parentheses.
    Then, from the last operand to the first, a loop whose operands are all
    needed reads to the end of its text, and one that is decided early is `Stuck`
    in front of a condition, where no caller goes on (`ChainRuns`). `PartRight`
    says this of every part, at every place where its text stands and at every
    depth from the part's length on, by induction on the number of the part.
    `StorableComesBack`: what metadata.json can hold comes back as saved.
    `TextRespelled`: RENAME rewrites the text into that of the renamed expression.
    The inductive invariant adds `ColumnsKept` and `TablesKept` to `ReadSoFar` and
    `TextsRead`: a table's CHECK is the text of its expression, and a column's is
    what `Stores` says of it for as long as `Keeps` holds. Of a
    text that begins with a parenthesis `Stores` says no more than that, since the
    evaluator rejects it however it goes on.
  - `RowsStayChecked` needs `RowsPassed` besides: every kept text is true of every
    row. An INSERT, ADD CHECK and RENAME validate all rows there are; a restart
    validates none, but changes no text that is storable.

Only model-checked: `BootEnds`, which needs liveness, which the provers at hand
do not do; `StartsAgain` of `Checks`, whose exceptions go through every JSON shape
once more; and the properties of `Planner`, whose plans are trees walked by
RECURSIVE operators.

## 6. Plan

All modules of section 2 and the theorems of section 5 are done, and no further
module is planned. What is left to prove is `StartsAgain`, and the rules of
`Planner`, one by one, over plans written as recursive functions instead of
operators.

## 7. Not modelled, and why

- The grammar of SELECT and of expressions, and the lexer: pure functions of a
  text, without state; modelled are the clauses that decide what a table is.
- The text of `metadata.json`, beyond what it makes of CHECKs, keys and UNIQUE.
- Correlated subqueries (EXISTS is a constant in `Planner`), arithmetic, LIKE.
- Cost estimates that only EXPLAIN prints; terminal output, colours, help text.
- Number and timestamp formats; what `normalizeCatalogTypes` makes of types, and
  type inference for legacy files (one abstract value, `Inferred`).
- In `Session`: positions, blanks other than those a string or the history can
  tell apart, words that a block comment glues together, an unwritable history
  file, a comment between the two characters of a marker.
- What the bootstrap makes of CSV files whose names differ only in case: two tables
  that no name resolves to (`NamesUnambiguous` starts without such files).

Behaviours of the program that the models keep and that a reader may not expect,
all of them seen in the program as well: those listed under Checks in section 2;
an `IN` list followed by `OR` is corrupted by the first save; HAVING without
aggregates is ignored; a HAVING that meets an integer of more than 64 bits makes
ORDER BY compare texts; LIMIT counts rows before DISTINCT; `WHERE 1.0 = 1` is
false; a misspelt qualified column reads as empty above a join, and a bare one
that only one table has fails there once the scans are pruned; a WHERE on the
right table of a RIGHT join lets rows through that do not satisfy it; a CHECK with
a number such as `007` keeps the program from starting again; a recalled
statement has its strings folded onto one line; in the terminal, text after the
last `;` of a line is executed with it, `.quit` inside a paste drops the rest of
the paste, and words like `region` are broken in two. Four of these go against
what the repository says, beside the violated runs: the comment of `mergeRows` on
bare names, `docs/features.md` on WHERE and RIGHT JOIN, `README.md:113` on
CHECKs of two bounds and `README.md:45` on recalled statements. The properties that hold
(`PlansAgree`, `VerdictIsTheTruth`, `HistoryReplays`) say what is true instead.
