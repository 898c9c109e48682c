----------------------------- MODULE Durability -----------------------------
(***************************************************************************)
(* The data directory: one CSV file per table and metadata.json, how the   *)
(* statements of query_engine_app.cpp write them after they have changed   *)
(* memory, what a crash or a failing write leaves behind, and how          *)
(* bootstrapDatabase reads them when the program starts.                   *)
(*                                                                         *)
(* A file is opened with truncation and then written; the parts of that    *)
(* are steps of their own.  A layout is the header line a list of columns  *)
(* makes, rules stands for the rest of a table's metadata, and a row is    *)
(* the line it makes in the file.  A file is what its reader makes of it:  *)
(* metadata.json does not say all of every rule, and for some rules it is  *)
(* a text that cannot be read; which rules those are is in module Checks.  *)
(* The rows of a table are those its slots hold, a slot being the identity *)
(* of a row: their order, which nothing here looks at, is left out.        *)
(***************************************************************************)
EXTENDS Naturals, Sequences

CONSTANTS
    Table,
    Metadata,        \* the file metadata.json
    Layout,
    Shorter,         \* <<g, h>>: the header of h, cut short, reads as that of g
    Narrow,          \* the layouts of one column
    Rules,
    Legible,         \* those whose JSON text MetadataCatalog::load can read
    Reloaded,        \* Reloaded[r]: what it and normalizeCatalogTypes make of these
    Inferred,        \* the rules registerLegacyTables infers
    Slot,            \* identities of rows in one table
    Row,
    Blank,           \* the row whose cells are all empty
    Cut,             \* <<r, s>>: row r cut short in its last cell reads as s
    LegacyFiles,     \* the CSV files a fresh data directory may hold
    Faults,          \* which of "crash", "open" and "write" can happen
    MaxStatements    \* bound: statements in one behaviour

ASSUME FilesAssumption ==
    /\ Metadata \notin Table
    /\ Shorter \subseteq Layout \X Layout
    /\ Narrow \subseteq Layout
    /\ Legible \subseteq Rules /\ Inferred \in Legible
    /\ Reloaded \in [Legible -> Legible]
    /\ \A r \in Legible : Reloaded[Reloaded[r]] = Reloaded[r]
    /\ Blank \in Row
    /\ Cut \subseteq Row \X Row
    /\ LegacyFiles \subseteq
         [state : {"readable"}, layout : Layout, rows : UNION {[S -> Row] : S \in SUBSET Slot}]
    /\ \A f \in LegacyFiles, s \in Slot :
         f.layout \in Narrow /\ s \in DOMAIN f.rows => f.rows[s] # Blank
    /\ Faults \subseteq {"crash", "open", "write"}
    /\ MaxStatements \in Nat

VARIABLES
    phase,           \* "down", "booting", "saving" (the save a boot ends with), "up"
    mem,             \* catalog and database; while down, what they last were
    loaded,          \* the tables whose rows are in memory
    csv,             \* the table files
    meta,            \* metadata.json
    pending,         \* the files the running statement has still to write
    opened,          \* the first of them is open, hence truncated
    damaged,         \* the files whose last write did not complete (history)
    statements       \* statements so far (bound only)

vars == <<phase, mem, loaded, csv, meta, pending, opened, damaged, statements>>

File == Table \cup {Metadata}

TableRows == UNION {[S -> Row] : S \in SUBSET Slot}

Content == [layout : Layout, rules : Rules, rows : TableRows]

----------------------------------------------------------------------------
(* Files *)

NoFile == [state |-> "absent"]

Unreadable == [state |-> "unreadable"]

Lines(layout, rows) == [state |-> "readable", layout |-> layout, rows |-> rows]

NoRows == [s \in {} |-> Blank]

Only(rows, S) == [s \in S |-> rows[s]]

\* parseCsvBuffer skips a line that is one empty field, which is what the row
\* of a one-column table makes when its cell is empty.
Parsed(layout, rows) ==
    IF layout \in Narrow THEN Only(rows, {s \in DOMAIN rows : rows[s] # Blank}) ELSE rows

\* The file that holds these lines, as parseFile reads it.
Read(layout, rows) == Lines(layout, Parsed(layout, rows))

\* What saveTable writes.
Saved(content) == Read(content.layout, content.rows)

\* Some whole rows and then row s, cut short in its last cell.
EndsInside(content, s) ==
    {Read(content.layout, [Only(content.rows, S) EXCEPT ![s] = cut]) :
        S \in {U \in SUBSET DOMAIN content.rows : s \in U},
        cut \in {r \in Row : <<content.rows[s], r>> \in Cut}}

\* A file that stops before its end: nothing or part of a line that does not
\* read, the header of another layout, some whole rows, or those and a last
\* row that is cut short.
Partial(content) ==
    {Unreadable}
      \cup {Lines(g, NoRows) : g \in {h \in Layout : <<h, content.layout>> \in Shorter}}
      \cup {Read(content.layout, Only(content.rows, S)) : S \in SUBSET DOMAIN content.rows}
      \cup UNION {EndsInside(content, s) : s \in DOMAIN content.rows}

AllLegible(tables) == \A t \in DOMAIN tables : tables[t].rules \in Legible

\* What MetadataCatalog::save writes of the tables in memory.
Described(tables) ==
    IF AllLegible(tables)
    THEN [state |-> "readable",
          tables |-> [t \in DOMAIN tables |->
                        [layout |-> tables[t].layout, rules |-> Reloaded[tables[t].rules]]]]
    ELSE Unreadable

----------------------------------------------------------------------------
(* Statements: memory first, then the files *)

Begin(tables, files) ==
    /\ phase = "up" /\ pending = <<>>
    /\ statements < MaxStatements
    /\ statements' = statements + 1
    /\ mem' = tables
    /\ pending' = files
    /\ UNCHANGED <<phase, csv, meta, opened, damaged>>

CreateTable(t, layout, rules) ==
    /\ t \notin DOMAIN mem
    /\ Begin([u \in DOMAIN mem \cup {t} |->
                IF u = t THEN [layout |-> layout, rules |-> rules, rows |-> NoRows]
                ELSE mem[u]],
             <<t, Metadata>>)
    /\ loaded' = loaded \cup {t}

\* Mutant: the catalog is not saved after the table.
AlterTableOnly(t, content, others) ==
    /\ t \in DOMAIN mem
    /\ DOMAIN content.rows = DOMAIN mem[t].rows
    /\ Begin([u \in DOMAIN mem |->
                IF u = t THEN content ELSE [mem[u] EXCEPT !.rules = others[u]]],
             <<t>>)
    /\ UNCHANGED loaded

\* Mutant: only the catalog is saved.
AlterCatalogOnly(t, content, others) ==
    /\ t \in DOMAIN mem
    /\ DOMAIN content.rows = DOMAIN mem[t].rows
    /\ Begin([u \in DOMAIN mem |->
                IF u = t THEN content ELSE [mem[u] EXCEPT !.rules = others[u]]],
             <<Metadata>>)
    /\ UNCHANGED loaded

\* A RENAME COLUMN changes the metadata of tables that refer to t as well; the
\* rows stay the rows they are, with other cells.
AlterTable(t, content, others) ==
    /\ t \in DOMAIN mem
    /\ DOMAIN content.rows = DOMAIN mem[t].rows
    /\ Begin([u \in DOMAIN mem |->
                IF u = t THEN content ELSE [mem[u] EXCEPT !.rules = others[u]]],
             <<t, Metadata>>)
    /\ UNCHANGED loaded

\* INSERT, UPDATE and DELETE, which write the file when no row changed, too.
Dml(t, rows) ==
    /\ t \in DOMAIN mem
    /\ Begin([mem EXCEPT ![t].rows = rows], <<t>>)
    /\ UNCHANGED loaded

----------------------------------------------------------------------------
(* Writing the files *)

Put(file, csvContent, metaContent) ==
    IF file = Metadata
    THEN meta' = metaContent /\ UNCHANGED csv
    ELSE csv' = [csv EXCEPT ![file] = csvContent] /\ UNCHANGED meta

Pending == {pending[i] : i \in DOMAIN pending}

\* Mutant: the file of the write that failed is taken to be open still.
AbandonOpen ==
    /\ pending' = <<>>
    /\ UNCHANGED opened
    /\ damaged' = damaged \cup Pending
    /\ phase' = IF phase = "up" THEN "up" ELSE "down"

\* The statement throws: the files it has not written keep what they hold.  A
\* boot that throws ends the program.
Abandon ==
    /\ pending' = <<>>
    /\ opened' = FALSE
    /\ damaged' = damaged \cup Pending
    /\ phase' = IF phase = "up" THEN "up" ELSE "down"

OpenFile ==
    /\ pending # <<>> /\ ~opened
    /\ Put(Head(pending), Unreadable, Unreadable)
    /\ opened' = TRUE
    /\ UNCHANGED <<phase, mem, loaded, pending, damaged, statements>>

OpenFails ==
    /\ "open" \in Faults
    /\ pending # <<>> /\ ~opened
    /\ Abandon
    /\ UNCHANGED <<mem, loaded, csv, meta, statements>>

\* The writer is done with the first pending file, as far as it can tell.
Proceed ==
    /\ pending' = Tail(pending)
    /\ opened' = FALSE
    /\ phase' = IF phase = "saving" THEN "up" ELSE phase

WriteFile ==
    /\ opened
    /\ Head(pending) # Metadata =>
         csv' = [csv EXCEPT ![Head(pending)] = Saved(mem[Head(pending)])] /\ UNCHANGED meta
    /\ Head(pending) = Metadata => meta' = Described(mem) /\ UNCHANGED csv
    /\ damaged' = damaged \ {Head(pending)}
    /\ Proceed
    /\ UNCHANGED <<mem, loaded, statements>>

\* A write error that saveTable sees after its one write call.
WriteReported ==
    /\ "write" \in Faults
    /\ opened /\ Head(pending) # Metadata
    /\ \E part \in Partial(mem[Head(pending)]) : csv' = [csv EXCEPT ![Head(pending)] = part]
    /\ Abandon
    /\ UNCHANGED <<mem, loaded, meta, statements>>

\* A write error that appears only when the destructor flushes the file, and
\* any write error of save, which does not look at its stream.
WriteUnreported ==
    /\ "write" \in Faults
    /\ opened
    /\ IF Head(pending) = Metadata THEN UNCHANGED <<csv, meta>>
       ELSE /\ \E part \in Partial(mem[Head(pending)]) :
                 csv' = [csv EXCEPT ![Head(pending)] = part]
            /\ UNCHANGED meta
    /\ damaged' = damaged \cup {Head(pending)}
    /\ Proceed
    /\ UNCHANGED <<mem, loaded, statements>>

----------------------------------------------------------------------------
(* The end of the program, by its own doing when nothing is pending *)

Stop ==
    /\ phase # "down"
    /\ "crash" \in Faults \/ (phase = "up" /\ pending = <<>>)
    /\ phase' = "down"
    /\ pending' = <<>>
    /\ opened' = FALSE
    /\ damaged' = damaged \cup Pending
    /\ IF opened /\ Head(pending) # Metadata
       THEN \E part \in Partial(mem[Head(pending)]) :
              csv' = [csv EXCEPT ![Head(pending)] = part]
       ELSE UNCHANGED csv
    /\ UNCHANGED <<mem, loaded, meta, statements>>

----------------------------------------------------------------------------
(* bootstrapDatabase *)

\* MetadataCatalog::load, or registerLegacyTables where there is no metadata.
\* A metadata file that does not parse, or a legacy file that does not, ends
\* the program before anything is changed.
Start ==
    /\ phase = "down"
    /\ \/ /\ meta.state = "readable"
          /\ mem' = [t \in DOMAIN meta.tables |->
                       [layout |-> meta.tables[t].layout,
                        rules |-> meta.tables[t].rules, rows |-> NoRows]]
          /\ damaged' = damaged \ {Metadata}
       \/ /\ meta.state = "absent"
          /\ \A t \in Table : csv[t].state # "unreadable"
          /\ mem' = [t \in {u \in Table : csv[u].state = "readable"} |->
                       [layout |-> csv[t].layout, rules |-> Inferred, rows |-> NoRows]]
          /\ damaged' = damaged \cup {Metadata}
    /\ phase' = "booting"
    /\ loaded' = {}
    /\ UNCHANGED <<csv, meta, pending, opened, statements>>

\* The file of t can be loaded under this layout.
Fits(t, layout) == csv[t].state = "readable" /\ csv[t].layout = layout

\* loadTablesFromMetadata, which takes the tables in any order: a missing file
\* is written anew, without rows.
Loading(t) ==
    /\ phase = "booting" /\ pending = <<>>
    /\ t \in DOMAIN mem \ loaded

\* Mutant: a file that does not fit the metadata is written anew, too.
RecreateAnyFile(t) ==
    /\ Loading(t)
    /\ ~Fits(t, mem[t].layout)
    /\ pending' = <<t>>
    /\ UNCHANGED <<phase, mem, loaded, csv, meta, opened, damaged, statements>>

RecreateFile(t) ==
    /\ Loading(t)
    /\ csv[t].state = "absent"
    /\ pending' = <<t>>
    /\ UNCHANGED <<phase, mem, loaded, csv, meta, opened, damaged, statements>>

LoadTable(t) ==
    /\ Loading(t)
    /\ Fits(t, mem[t].layout)
    /\ mem' = [mem EXCEPT ![t].rows = csv[t].rows]
    /\ loaded' = loaded \cup {t}
    /\ damaged' = damaged \ {t}
    /\ UNCHANGED <<phase, csv, meta, pending, opened, statements>>

\* Mutant: a table that cannot be loaded is tried again, for ever.
LoadRetries(t) ==
    /\ Loading(t)
    /\ csv[t].state # "absent" /\ ~Fits(t, mem[t].layout)
    /\ UNCHANGED vars

LoadFails(t) ==
    /\ Loading(t)
    /\ csv[t].state # "absent" /\ ~Fits(t, mem[t].layout)
    /\ phase' = "down"
    /\ UNCHANGED <<mem, loaded, csv, meta, pending, opened, damaged, statements>>

\* The save every boot ends with.
SaveCatalog ==
    /\ phase = "booting" /\ pending = <<>>
    /\ loaded = DOMAIN mem
    /\ phase' = "saving"
    /\ pending' = <<Metadata>>
    /\ UNCHANGED <<mem, loaded, csv, meta, opened, damaged, statements>>

----------------------------------------------------------------------------

Init ==
    /\ phase = "down"
    /\ mem = <<>>
    /\ loaded = {}
    /\ csv \in [Table -> {NoFile} \cup LegacyFiles]
    /\ meta = NoFile
    /\ pending = <<>>
    /\ opened = FALSE
    /\ damaged = {Metadata}
    /\ statements = 0

Statement ==
    \E t \in Table :
      \/ \E layout \in Layout, rules \in Rules : CreateTable(t, layout, rules)
      \/ \E content \in Content, others \in [DOMAIN mem \ {t} -> Rules] :
           AlterTable(t, content, others)
      \/ \E rows \in TableRows : Dml(t, rows)

Writing == OpenFile \/ OpenFails \/ WriteFile \/ WriteReported \/ WriteUnreported

Boot ==
    \/ Start
    \/ \E t \in Table : RecreateFile(t) \/ LoadTable(t) \/ LoadFails(t)
    \/ SaveCatalog

Next == Statement \/ Writing \/ Stop \/ Boot

Spec == Init /\ [][Next]_vars

\* A program that runs goes on: what it does without a user's next statement.
Program ==
    \/ Writing
    \/ phase # "down" /\ Boot

FairSpec == Spec /\ WF_vars(Program)

----------------------------------------------------------------------------
(* Safety *)

IsContent(content) ==
    /\ content = [layout |-> content.layout, rules |-> content.rules, rows |-> content.rows]
    /\ content.layout \in Layout
    /\ content.rules \in Rules
    /\ content.rows \in TableRows

\* The file of a table; no line in it is one that the reader skips.
IsTableFile(file) ==
    \/ file \in {NoFile, Unreadable}
    \/ /\ file = Read(file.layout, file.rows)
       /\ file.layout \in Layout
       /\ file.rows \in TableRows

\* The rules that a file can hold, which the next save and load leave alone.
Settled == {Reloaded[r] : r \in Legible}

IsMetadataFile(file) ==
    \/ file \in {NoFile, Unreadable}
    \/ /\ file = [state |-> "readable", tables |-> file.tables]
       /\ DOMAIN file.tables \subseteq Table
       /\ file.tables \in [DOMAIN file.tables -> [layout : Layout, rules : Settled]]

TypeOK ==
    /\ phase \in {"down", "booting", "saving", "up"}
    /\ DOMAIN mem \subseteq Table
    /\ mem = [t \in DOMAIN mem |-> mem[t]]
    /\ \A t \in DOMAIN mem : IsContent(mem[t])
    /\ loaded \subseteq DOMAIN mem
    /\ csv = [t \in Table |-> csv[t]]
    /\ \A t \in Table : IsTableFile(csv[t])
    /\ IsMetadataFile(meta)
    /\ pending \in Seq(File)
    /\ opened \in BOOLEAN
    /\ opened => pending # <<>>
    /\ damaged \subseteq File
    /\ statements \in 0..MaxStatements

\* A file says what memory says (or last said) of it, unless a write of it was
\* cut off, failed or is still to come.
FilesMatch ==
    /\ \A t \in loaded \ (damaged \cup Pending) : csv[t] = Saved(mem[t])
    /\ Metadata \notin damaged \cup Pending => meta = Described(mem)

\* The program would start on the files as they are.
Bootable ==
    \/ /\ meta.state = "readable"
       /\ \A t \in DOMAIN meta.tables :
            csv[t].state = "absent" \/ Fits(t, meta.tables[t].layout)
    \/ /\ meta.state = "absent"
       /\ \A t \in Table : csv[t].state # "unreadable"

\* What a start of the program would find in the files.
Restored ==
    [t \in DOMAIN meta.tables |->
       [layout |-> meta.tables[t].layout, rules |-> meta.tables[t].rules,
        rows |-> csv[t].rows]]

\* With no interrupted or failed write behind it, a program that stops can be
\* started again, unless a table has rules whose text cannot be read back; and
\* then it has the tables it had, with what a save and a load keep of their
\* rules, save the rows of a one-column table whose cell is empty: the CSV
\* reader skips those.
RestartKeepsData ==
    phase \in {"up", "down"} /\ pending = <<>> /\ damaged = {} /\ loaded = DOMAIN mem =>
        /\ Bootable <=> AllLegible(mem)
        /\ Bootable =>
             Restored = [t \in DOMAIN mem |->
                           [layout |-> mem[t].layout, rules |-> Reloaded[mem[t].rules],
                            rows |-> Parsed(mem[t].layout, mem[t].rows)]]

\* Starting the program, stopping it, and starts that fail leave every table
\* file that can be read as it is; only statements write those.
BootKeepsTables ==
    [][\A t \in Table :
         phase # "up" /\ csv[t].state = "readable" => csv'[t] = csv[t]]_vars

\* A start ends, in a program that runs or one that has refused the files.
BootEnds == phase \in {"booting", "saving"} ~> phase \in {"up", "down"}

\* README.md:119: CREATE TABLE and ALTER TABLE keep metadata.json in sync with
\* the schema of the table, which is the header of its file.  Where they differ
\* the next start ends with "Schema mismatch between metadata and CSV".
SchemaFilesAgree ==
    phase = "down" /\ meta.state = "readable" =>
        \A t \in DOMAIN meta.tables :
            csv[t].state = "readable" => csv[t].layout = meta.tables[t].layout
=============================================================================
