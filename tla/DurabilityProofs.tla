-------------------------- MODULE DurabilityProofs --------------------------
(***************************************************************************)
(* Theorems about Durability: what the files say of memory, for any set of *)
(* tables, any statements, and any faults at any step; and about CsvText:  *)
(* what a table file says when it is read whole, and when it was cut.      *)
(*                                                                         *)
(* The reader is followed character by character.  Scanned goes by         *)
(* ParseChar (ScannedNext), so a cell, a line and a table take it from one *)
(* state to another, and Within says where it is in between.               *)
(***************************************************************************)
EXTENDS CsvText, Traces

----------------------------------------------------------------------------
(* The reader skips nothing in what it has read *)

LEMMA TableRowsAre ==
    ASSUME NEW rows
    PROVE  rows \in TableRows <=>
             /\ rows = [s \in DOMAIN rows |-> rows[s]]
             /\ DOMAIN rows \subseteq Slot
             /\ \A s \in DOMAIN rows : rows[s] \in Row
  <1>1. ASSUME rows \in TableRows
        PROVE  /\ rows = [s \in DOMAIN rows |-> rows[s]]
               /\ DOMAIN rows \subseteq Slot
               /\ \A s \in DOMAIN rows : rows[s] \in Row
    <2>1. PICK S \in SUBSET Slot : rows \in [S -> Row]
      BY <1>1 DEF TableRows
    <2>. QED  BY <2>1
  <1>2. ASSUME rows = [s \in DOMAIN rows |-> rows[s]], DOMAIN rows \subseteq Slot,
               \A s \in DOMAIN rows : rows[s] \in Row
        PROVE  rows \in TableRows
    <2>1. rows \in [DOMAIN rows -> Row]
      BY <1>2
    <2>2. DOMAIN rows \in SUBSET Slot
      BY <1>2
    <2>. QED  BY <2>1, <2>2 DEF TableRows
  <1>. QED  BY <1>1, <1>2

LEMMA OnlyIsRows ==
    ASSUME NEW rows \in TableRows, NEW S \in SUBSET DOMAIN rows
    PROVE  Only(rows, S) \in TableRows
  BY TableRowsAre, TableRowsAre, Zenon DEF Only

LEMMA ParsedIsRows ==
    ASSUME NEW rows \in TableRows, NEW layout
    PROVE  Parsed(layout, rows) \in TableRows
  BY OnlyIsRows DEF Parsed

LEMMA ParsedAgain ==
    ASSUME NEW rows \in TableRows, NEW layout
    PROVE  Parsed(layout, Parsed(layout, rows)) = Parsed(layout, rows)
  <1>1. CASE layout \notin Narrow
    BY <1>1 DEF Parsed
  <1>2. CASE layout \in Narrow
    <2> DEFINE kept == Only(rows, {s \in DOMAIN rows : rows[s] # Blank})
    <2>1. {s \in DOMAIN kept : kept[s] # Blank} = DOMAIN kept
      BY DEF Only
    <2>2. Only(kept, DOMAIN kept) = kept
      BY DEF Only
    <2>. QED  BY <1>2, <2>1, <2>2 DEF Parsed
  <1>. QED  BY <1>1, <1>2

LEMMA NoRowsAreRows == NoRows \in TableRows
  BY TableRowsAre DEF NoRows

LEMMA ParsedNoRows ==
    ASSUME NEW layout
    PROVE  Parsed(layout, NoRows) = NoRows
  <1>1. {s \in DOMAIN NoRows : NoRows[s] # Blank} = {}
    BY DEF NoRows
  <1>2. Only(NoRows, {}) = NoRows
    BY DEF Only, NoRows
  <1>. QED  BY <1>1, <1>2 DEF Parsed

LEMMA ReadIsTableFile ==
    ASSUME NEW layout \in Layout, NEW rows \in TableRows
    PROVE  IsTableFile(Read(layout, rows))
  <1> DEFINE file == Read(layout, rows)
  <1>1. file.layout = layout /\ file.rows = Parsed(layout, rows)
    BY DEF Read, Lines
  <1>2. file = Read(file.layout, file.rows)
    BY <1>1, ParsedAgain DEF Read
  <1>. QED  BY <1>1, <1>2, ParsedIsRows DEF IsTableFile

LEMMA SavedIsTableFile ==
    ASSUME NEW content, IsContent(content)
    PROVE  IsTableFile(Saved(content))
  BY ReadIsTableFile DEF Saved, IsContent

\* Whatever is left of a file that was cut off is a file the reader refuses or
\* reads some rows of.
LEMMA PartialIsTableFile ==
    ASSUME FilesAssumption, NEW content, IsContent(content), NEW part \in Partial(content)
    PROVE  IsTableFile(part)
  <1>1. content.layout \in Layout /\ content.rows \in TableRows
    BY DEF IsContent
  <1>2. CASE part = Unreadable
    BY <1>2 DEF IsTableFile
  <1>3. ASSUME NEW g \in Layout, part = Lines(g, NoRows)
        PROVE  IsTableFile(part)
    <2>1. part = Read(g, NoRows)
      BY <1>3, ParsedNoRows DEF Read
    <2>. QED  BY <2>1, ReadIsTableFile, NoRowsAreRows
  <1>4. ASSUME NEW S \in SUBSET DOMAIN content.rows,
               part = Read(content.layout, Only(content.rows, S))
        PROVE  IsTableFile(part)
    BY <1>1, <1>4, OnlyIsRows, ReadIsTableFile
  <1>5. ASSUME NEW s \in DOMAIN content.rows, NEW S \in SUBSET DOMAIN content.rows,
               NEW cut \in Row,
               part = Read(content.layout, [Only(content.rows, S) EXCEPT ![s] = cut])
        PROVE  IsTableFile(part)
    <2> DEFINE rows == Only(content.rows, S)
               short == [rows EXCEPT ![s] = cut]
    <2>1. rows \in TableRows
      BY <1>1, OnlyIsRows
    <2> HIDE DEF rows
    <2>2. short \in TableRows
      <3>1. /\ DOMAIN rows \subseteq Slot
            /\ \A u \in DOMAIN rows : rows[u] \in Row
        BY <2>1, TableRowsAre
      <3>2. short = [u \in DOMAIN short |-> short[u]] /\ DOMAIN short = DOMAIN rows
        OBVIOUS
      <3>3. \A u \in DOMAIN short : short[u] \in Row
        BY <3>1
      <3> HIDE DEF short
      <3>. QED  BY <3>1, <3>2, <3>3, TableRowsAre
    <2>. QED  BY <1>1, <1>5, <2>2, ReadIsTableFile DEF rows
  <1>6. CASE part \in {Read(content.layout, Only(content.rows, S)) :
                         S \in SUBSET DOMAIN content.rows}
    BY <1>4, <1>6
  <1>7. ASSUME NEW s \in DOMAIN content.rows, part \in EndsInside(content, s)
        PROVE  IsTableFile(part)
    <2> DEFINE Left(S, cut) == Read(content.layout, [Only(content.rows, S) EXCEPT ![s] = cut])
               slots == {U \in SUBSET DOMAIN content.rows : s \in U}
               cuts == {r \in Row : <<content.rows[s], r>> \in Cut}
    <2>1. part \in {Left(S, cut) : S \in slots, cut \in cuts}
      BY <1>7, SMTT(30) DEF EndsInside
    <2>2. PICK S \in slots, cut \in cuts : part = Left(S, cut)
      <3> HIDE DEF Left, slots, cuts
      <3>. QED  BY <2>1
    <2>3. S \in SUBSET DOMAIN content.rows /\ cut \in Row
      BY <2>2
    <2>. QED  BY <1>5, <2>2, <2>3
  <1>8. CASE part \in {Lines(g, NoRows) : g \in {h \in Layout : <<h, content.layout>> \in Shorter}}
    BY <1>3, <1>8
  <1>9. CASE part \in UNION {EndsInside(content, s) : s \in DOMAIN content.rows}
    BY <1>7, <1>9
  <1>. QED  BY <1>2, <1>6, <1>8, <1>9 DEF Partial

----------------------------------------------------------------------------
(* The inductive invariant *)

\* What a phase has still to write.  A boot creates only files it could not
\* read, and only of tables it has not loaded.
PendingByPhase ==
    /\ phase = "down" => pending = <<>>
    /\ phase = "booting" =>
         \/ pending = <<>>
         \/ \E t \in DOMAIN mem \ loaded : pending = <<t>> /\ csv[t].state # "readable"
    /\ phase = "saving" => pending = <<Metadata>> /\ loaded = DOMAIN mem
    /\ phase = "up" =>
         /\ loaded = DOMAIN mem
         /\ \/ pending = <<>> \/ pending = <<Metadata>>
            \/ \E t \in DOMAIN mem : pending = <<t>> \/ pending = <<t, Metadata>>

Inv == TypeOK /\ PendingByPhase /\ FilesMatch

Rest(files) == {Tail(files)[i] : i \in DOMAIN Tail(files)}

LEMMA HeadAndRest ==
    ASSUME TypeOK, pending # <<>>
    PROVE  /\ Head(pending) \in File
           /\ Tail(pending) \in Seq(File)
           /\ Pending = {Head(pending)} \cup Rest(pending)
  <1>1. pending \in Seq(File)
    BY DEF TypeOK
  <1>2. /\ Len(pending) \in Nat /\ Len(pending) > 0
        /\ DOMAIN pending = 1..Len(pending)
        /\ DOMAIN Tail(pending) = 1..(Len(pending) - 1)
        /\ \A i \in 1..(Len(pending) - 1) : Tail(pending)[i] = pending[i + 1]
        /\ Head(pending) = pending[1]
    BY <1>1
  <1>3. Head(pending) \in File /\ Tail(pending) \in Seq(File)
    BY <1>1
  <1>4. ASSUME NEW i \in DOMAIN pending
        PROVE  pending[i] \in {Head(pending)} \cup Rest(pending)
    <2>1. CASE i = 1
      BY <1>2, <2>1
    <2>2. CASE i # 1
      <3>1. i - 1 \in DOMAIN Tail(pending) /\ pending[i] = Tail(pending)[i - 1]
        BY <1>2, <2>2
      <3>. QED  BY <3>1 DEF Rest
    <2>. QED  BY <2>1, <2>2
  <1>5. Head(pending) \in Pending
    BY <1>2 DEF Pending
  <1>6. ASSUME NEW i \in DOMAIN Tail(pending)
        PROVE  Tail(pending)[i] \in Pending
    <2>1. i + 1 \in DOMAIN pending /\ Tail(pending)[i] = pending[i + 1]
      BY <1>2
    <2>. QED  BY <2>1 DEF Pending
  <1>7. Pending \subseteq {Head(pending)} \cup Rest(pending)
    BY <1>4 DEF Pending
  <1>8. Rest(pending) \subseteq Pending
    BY <1>6 DEF Rest
  <1>. QED  BY <1>3, <1>5, <1>7, <1>8

LEMMA NothingPending ==
    ASSUME pending' = <<>>
    PROVE  Pending' = {}
  BY DEF Pending

LEMMA NoWork == <<>> \in Seq(File)
  OBVIOUS

LEMMA PendingIsFiles ==
    ASSUME TypeOK
    PROVE  Pending \subseteq File
  BY DEF TypeOK, Pending

LEMMA OneOrTwo ==
    ASSUME NEW a, NEW b
    PROVE  /\ Head(<<a>>) = a /\ Tail(<<a>>) = <<>>
           /\ Head(<<a, b>>) = a /\ Tail(<<a, b>>) = <<b>>
  OBVIOUS

LEMMA PendingFirst ==
    ASSUME FilesAssumption, Inv, pending # <<>>
    PROVE  /\ Head(pending) \in Table \cup {Metadata}
           /\ Head(pending) # Metadata =>
                /\ Head(pending) \in DOMAIN mem
                /\ Head(pending) \in Table
                /\ IsContent(mem[Head(pending)])
           /\ phase # "down"
  <1>1. phase # "down"
    BY DEF Inv, PendingByPhase
  <1>2. \/ pending = <<Metadata>>
        \/ \E t \in DOMAIN mem : pending = <<t>> \/ pending = <<t, Metadata>>
    BY <1>1 DEF Inv, PendingByPhase, TypeOK
  <1>3. Head(pending) \in DOMAIN mem \cup {Metadata}
    <2>1. CASE pending = <<Metadata>>
      BY <2>1, OneOrTwo
    <2>2. ASSUME NEW t \in DOMAIN mem, pending = <<t>> \/ pending = <<t, Metadata>>
          PROVE  Head(pending) = t
      BY <2>2, OneOrTwo
    <2>. QED  BY <1>2, <2>1, <2>2
  <1>. QED  BY <1>1, <1>3 DEF Inv, TypeOK

LEMMA OneFile ==
    ASSUME TypeOK, NEW t \in Table, NEW file, IsTableFile(file),
           csv' = [csv EXCEPT ![t] = file]
    PROVE  /\ csv' = [u \in Table |-> csv'[u]]
           /\ \A u \in Table : IsTableFile(csv'[u])
           /\ csv'[t] = file
           /\ \A u \in Table : u # t => csv'[u] = csv[u]
  <1>1. DOMAIN csv = Table /\ \A u \in Table : IsTableFile(csv[u])
    BY DEF TypeOK
  <1>2. /\ csv'[t] = file
        /\ \A u \in Table : u # t => csv'[u] = csv[u]
        /\ csv' = [u \in Table |-> csv'[u]]
    BY <1>1
  <1>3. \A u \in Table : IsTableFile(csv'[u])
    BY <1>1, <1>2, Zenon
  <1>. QED  BY <1>2, <1>3

\* A step that writes one file keeps FilesMatch when it wrote what memory says
\* or remembers that it did not.
LEMMA OneFileMatches ==
    ASSUME FilesMatch, TypeOK, NEW f \in File, mem' = mem, loaded' = loaded,
           \A t \in Table : t # f => csv'[t] = csv[t],
           f # Metadata => meta' = meta,
           damaged \cup Pending \subseteq (damaged' \cup Pending') \cup {f},
           f \notin damaged' \cup Pending' =>
             /\ f # Metadata => csv'[f] = Saved(mem[f])
             /\ f = Metadata => meta' = Described(mem)
    PROVE  FilesMatch'
  <1>1. ASSUME NEW t \in loaded, t \notin damaged' \cup Pending'
        PROVE  csv'[t] = Saved(mem[t])
    <2>1. t \in Table
      BY DEF TypeOK
    <2>2. CASE t = f /\ f # Metadata
      BY <1>1, <2>2
    <2>3. CASE t # f
      BY <1>1, <2>1, <2>3 DEF FilesMatch
    <2>4. CASE t = f /\ f = Metadata
      BY <1>1, <2>1, <2>4, FilesAssumption DEF FilesAssumption
    <2>. QED  BY <2>2, <2>3, <2>4
  <1>2. ASSUME Metadata \notin damaged' \cup Pending'
        PROVE  meta' = Described(mem)
    BY <1>2 DEF FilesMatch
  <1>. QED  BY <1>1, <1>2 DEF FilesMatch

----------------------------------------------------------------------------
(* Statements *)

\* What a statement does to Inv depends on what it made of memory and on the
\* files it will write.
LEMMA BeginKeepsInv ==
    ASSUME Inv, NEW tables, NEW files, NEW t \in DOMAIN tables,
           Begin(tables, files),
           loaded' = DOMAIN tables,
           DOMAIN tables \subseteq Table,
           tables = [u \in DOMAIN tables |-> tables[u]],
           \A u \in DOMAIN tables : IsContent(tables[u]),
           files = <<t>> \/ files = <<t, Metadata>>,
           \A u \in DOMAIN tables \ {t} : u \in DOMAIN mem /\ Saved(tables[u]) = Saved(mem[u]),
           files = <<t>> => Described(tables) = Described(mem)
    PROVE  Inv'
  <1>1. /\ phase = "up" /\ phase' = "up" /\ pending = <<>>
        /\ statements < MaxStatements /\ statements' = statements + 1
        /\ mem' = tables /\ pending' = files
        /\ csv' = csv /\ meta' = meta /\ opened' = opened /\ damaged' = damaged
    BY DEF Begin
  <1>2. t \in File /\ Metadata \in File
    BY DEF File
  <1>3. files \in Seq(File) /\ files # <<>>
    <2>1. CASE files = <<t>>
      BY <1>2, <2>1
    <2>2. CASE files = <<t, Metadata>>
      BY <1>2, <2>2
    <2>. QED  BY <2>1, <2>2
  <1>4. TypeOK'
    <2>1. statements' \in 0..MaxStatements
      BY <1>1, FilesAssumption DEF Inv, TypeOK, FilesAssumption
    <2>2. csv' = [u \in Table |-> csv'[u]] /\ \A u \in Table : IsTableFile(csv'[u])
      BY <1>1 DEF Inv, TypeOK
    <2>3. /\ DOMAIN mem' \subseteq Table
          /\ mem' = [u \in DOMAIN mem' |-> mem'[u]]
          /\ \A u \in DOMAIN mem' : IsContent(mem'[u])
          /\ loaded' \subseteq DOMAIN mem'
      BY <1>1
    <2>4. /\ IsMetadataFile(meta') /\ opened' \in BOOLEAN /\ damaged' \subseteq File
          /\ phase' \in {"down", "booting", "saving", "up"}
      BY <1>1 DEF Inv, TypeOK
    <2>5. pending' \in Seq(File) /\ (opened' => pending' # <<>>)
      BY <1>1, <1>3
    <2>. QED  BY <2>1, <2>2, <2>3, <2>4, <2>5, Zenon DEF TypeOK
  <1>5. PendingByPhase'
    BY <1>1 DEF PendingByPhase
  <1>6. t \in Pending' /\ (files # <<t>> => Metadata \in Pending')
    <2>1. CASE files = <<t>>
      BY <1>1, <2>1 DEF Pending
    <2>2. CASE files = <<t, Metadata>>
      <3>1. pending'[1] = t /\ pending'[2] = Metadata /\ {1, 2} \subseteq DOMAIN pending'
        BY <1>1, <2>2
      <3>. QED  BY <3>1 DEF Pending
    <2>. QED  BY <2>1, <2>2
  <1>7. Pending = {}
    BY <1>1 DEF Pending
  <1>8. ASSUME NEW u \in loaded', u \notin damaged' \cup Pending'
        PROVE  csv'[u] = Saved(mem'[u])
    <2>1. u # t /\ u \in DOMAIN tables
      BY <1>6, <1>8
    <2>2. u \in loaded \ (damaged \cup Pending)
      BY <1>1, <1>7, <1>8, <2>1 DEF Inv, PendingByPhase
    <2>. QED  BY <1>1, <2>1, <2>2 DEF Inv, FilesMatch
  <1>9. ASSUME Metadata \notin damaged' \cup Pending'
        PROVE  meta' = Described(mem')
    <2>1. files = <<t>>
      BY <1>6, <1>9
    <2>2. meta = Described(mem)
      BY <1>1, <1>7, <1>9 DEF Inv, FilesMatch
    <2>. QED  BY <1>1, <2>1, <2>2
  <1>10. FilesMatch'
    BY <1>8, <1>9 DEF FilesMatch
  <1>. QED  BY <1>4, <1>5, <1>10 DEF Inv

LEMMA CreateTableKeepsInv ==
    ASSUME Inv, NEW t \in Table, NEW layout \in Layout, NEW rules \in Rules,
           CreateTable(t, layout, rules)
    PROVE  Inv'
  <1> DEFINE tables == [u \in DOMAIN mem \cup {t} |->
                          IF u = t THEN [layout |-> layout, rules |-> rules, rows |-> NoRows]
                          ELSE mem[u]]
  <1>1. Begin(tables, <<t, Metadata>>) /\ loaded' = loaded \cup {t} /\ phase = "up"
    BY DEF CreateTable, Begin
  <1>2. DOMAIN tables = DOMAIN mem \cup {t} /\ loaded' = DOMAIN tables
    BY <1>1 DEF Inv, PendingByPhase
  <1>3. IsContent(tables[t])
    BY NoRowsAreRows DEF IsContent
  <1>4. \A u \in DOMAIN tables \ {t} : u \in DOMAIN mem /\ tables[u] = mem[u]
    OBVIOUS
  <1>5. \A u \in DOMAIN tables : IsContent(tables[u])
    BY <1>3, <1>4, Zenon DEF Inv, TypeOK
  <1>6. DOMAIN tables \subseteq Table
    BY DEF Inv, TypeOK
  <1>7. tables = [u \in DOMAIN tables |-> tables[u]]
    OBVIOUS
  <1> HIDE DEF tables
  <1>. QED  BY <1>1, <1>2, <1>4, <1>5, <1>6, <1>7, BeginKeepsInv

LEMMA AlterTableKeepsInv ==
    ASSUME Inv, NEW t \in Table, NEW content \in Content,
           NEW others \in [DOMAIN mem \ {t} -> Rules],
           AlterTable(t, content, others)
    PROVE  Inv'
  <1> DEFINE tables == [u \in DOMAIN mem |->
                          IF u = t THEN content ELSE [mem[u] EXCEPT !.rules = others[u]]]
  <1>1. /\ Begin(tables, <<t, Metadata>>) /\ loaded' = loaded /\ phase = "up"
        /\ t \in DOMAIN mem
    BY DEF AlterTable, Begin
  <1>2. DOMAIN tables = DOMAIN mem /\ loaded' = DOMAIN tables /\ t \in DOMAIN tables
    BY <1>1 DEF Inv, PendingByPhase
  <1>3. IsContent(tables[t])
    BY <1>1 DEF IsContent, Content
  <1>4. ASSUME NEW u \in DOMAIN tables \ {t}
        PROVE  IsContent(tables[u]) /\ Saved(tables[u]) = Saved(mem[u])
    <2>1. IsContent(mem[u]) /\ others[u] \in Rules
      BY <1>4 DEF Inv, TypeOK
    <2>2. tables[u] = [layout |-> mem[u].layout, rules |-> others[u], rows |-> mem[u].rows]
      BY <1>4, <2>1 DEF IsContent
    <2>3. tables[u].layout = mem[u].layout /\ tables[u].rows = mem[u].rows
          /\ tables[u].rules = others[u]
      BY <2>2
    <2> HIDE DEF tables
    <2>. QED  BY <2>1, <2>2, <2>3 DEF Saved, IsContent
  <1>5. \A u \in DOMAIN tables : IsContent(tables[u])
    BY <1>3, <1>4
  <1>6. DOMAIN tables \subseteq Table
    BY DEF Inv, TypeOK
  <1>7. tables = [u \in DOMAIN tables |-> tables[u]]
    OBVIOUS
  <1>8. \A u \in DOMAIN tables \ {t} : u \in DOMAIN mem /\ Saved(tables[u]) = Saved(mem[u])
    BY <1>2, <1>4
  <1> HIDE DEF tables
  <1>9. <<t, Metadata>> # <<t>>
    OBVIOUS
  <1>. QED  BY <1>1, <1>2, <1>5, <1>6, <1>7, <1>8, <1>9, BeginKeepsInv

\* The metadata does not speak of rows.
LEMMA DescribedWithoutRows ==
    ASSUME NEW t, NEW rows, t \in DOMAIN mem, \A u \in DOMAIN mem : IsContent(mem[u])
    PROVE  Described([mem EXCEPT ![t].rows = rows]) = Described(mem)
  <1> DEFINE tables == [mem EXCEPT ![t].rows = rows]
  <1>1. DOMAIN tables = DOMAIN mem
    OBVIOUS
  <1>2. ASSUME NEW u \in DOMAIN mem
        PROVE  tables[u].layout = mem[u].layout /\ tables[u].rules = mem[u].rules
    <2>1. mem[u] = [layout |-> mem[u].layout, rules |-> mem[u].rules, rows |-> mem[u].rows]
      BY DEF IsContent
    <2>2. CASE u = t
      BY <2>1, <2>2
    <2>3. CASE u # t
      BY <2>3
    <2>. QED  BY <2>2, <2>3
  <1> HIDE DEF tables
  <1>3. AllLegible(tables) <=> AllLegible(mem)
    BY <1>1, <1>2 DEF AllLegible
  <1>4. [u \in DOMAIN tables |->
           [layout |-> tables[u].layout, rules |-> Reloaded[tables[u].rules]]]
          = [u \in DOMAIN mem |->
               [layout |-> mem[u].layout, rules |-> Reloaded[mem[u].rules]]]
    BY <1>1, <1>2
  <1>. QED  BY <1>3, <1>4 DEF Described, tables

LEMMA NewRows ==
    ASSUME TypeOK, NEW t \in DOMAIN mem, NEW rows \in TableRows
    PROVE  LET tables == [mem EXCEPT ![t].rows = rows]
           IN  /\ DOMAIN tables = DOMAIN mem
               /\ tables = [u \in DOMAIN tables |-> tables[u]]
               /\ \A u \in DOMAIN tables : IsContent(tables[u])
               /\ \A u \in DOMAIN tables \ {t} : tables[u] = mem[u]
               /\ tables[t].layout = mem[t].layout
               /\ tables[t].rows = rows
  <1> DEFINE tables == [mem EXCEPT ![t].rows = rows]
  <1>1. DOMAIN tables = DOMAIN mem /\ \A u \in DOMAIN tables \ {t} : tables[u] = mem[u]
    OBVIOUS
  <1>2. \A u \in DOMAIN mem : IsContent(mem[u])
    BY DEF TypeOK
  <1>3. mem[t] = [layout |-> mem[t].layout, rules |-> mem[t].rules, rows |-> mem[t].rows]
    BY <1>2 DEF IsContent
  <1>4. tables[t] = [layout |-> mem[t].layout, rules |-> mem[t].rules, rows |-> rows]
    BY <1>3
  <1>5. tables = [u \in DOMAIN tables |-> tables[u]]
    OBVIOUS
  <1> HIDE DEF tables
  <1>6. IsContent(tables[t]) /\ tables[t].layout = mem[t].layout /\ tables[t].rows = rows
    BY <1>2, <1>4 DEF IsContent
  <1>7. \A u \in DOMAIN tables : IsContent(tables[u])
    BY <1>1, <1>2, <1>6, Zenon
  <1>. QED  BY <1>1, <1>5, <1>6, <1>7 DEF tables

LEMMA DmlKeepsInv ==
    ASSUME Inv, NEW t \in Table, NEW rows \in TableRows, Dml(t, rows)
    PROVE  Inv'
  <1> DEFINE tables == [mem EXCEPT ![t].rows = rows]
  <1>1. /\ Begin(tables, <<t>>) /\ loaded' = loaded /\ phase = "up"
        /\ t \in DOMAIN mem
    BY DEF Dml, Begin
  <1>2. /\ DOMAIN tables = DOMAIN mem
        /\ tables = [u \in DOMAIN tables |-> tables[u]]
        /\ \A u \in DOMAIN tables : IsContent(tables[u])
        /\ \A u \in DOMAIN tables \ {t} : tables[u] = mem[u]
    BY <1>1, NewRows DEF Inv
  <1>3. Described(tables) = Described(mem)
    BY <1>1, DescribedWithoutRows DEF Inv, TypeOK
  <1> HIDE DEF tables
  <1>4. loaded' = DOMAIN tables /\ DOMAIN tables \subseteq Table
    BY <1>1, <1>2 DEF Inv, TypeOK, PendingByPhase
  <1>. QED  BY <1>1, <1>2, <1>3, <1>4, BeginKeepsInv

----------------------------------------------------------------------------
(* Writing files *)

LEMMA WritingTypes ==
    ASSUME TypeOK, mem' = mem, loaded' = loaded, statements' = statements,
           \/ csv' = csv
           \/ \E t \in Table : \E file :
                IsTableFile(file) /\ csv' = [csv EXCEPT ![t] = file],
           IsMetadataFile(meta'),
           pending' \in Seq(File), opened' \in BOOLEAN, opened' => pending' # <<>>,
           damaged' \subseteq File,
           phase' \in {"down", "booting", "saving", "up"}
    PROVE  TypeOK'
  <1>1. /\ DOMAIN mem' \subseteq Table
        /\ mem' = [u \in DOMAIN mem' |-> mem'[u]]
        /\ \A u \in DOMAIN mem' : IsContent(mem'[u])
        /\ loaded' \subseteq DOMAIN mem' /\ statements' \in 0..MaxStatements
    BY DEF TypeOK
  <1>2. csv' = [u \in Table |-> csv'[u]] /\ \A u \in Table : IsTableFile(csv'[u])
    <2>1. CASE csv' = csv
      BY <2>1 DEF TypeOK
    <2>2. ASSUME NEW t \in Table, NEW file, IsTableFile(file), csv' = [csv EXCEPT ![t] = file]
          PROVE  csv' = [u \in Table |-> csv'[u]] /\ \A u \in Table : IsTableFile(csv'[u])
      BY <2>2, OneFile
    <2>. QED  BY <2>1, <2>2
  <1>. QED  BY <1>1, <1>2, Zenon DEF TypeOK

LEMMA DescribedIsMetadataFile ==
    ASSUME TypeOK
    PROVE  IsMetadataFile(Described(mem))
  <1> DEFINE tables == [t \in DOMAIN mem |->
                          [layout |-> mem[t].layout, rules |-> Reloaded[mem[t].rules]]]
             file == [state |-> "readable", tables |-> tables]
  <1>1. CASE ~AllLegible(mem)
    BY <1>1 DEF Described, IsMetadataFile
  <1>2. CASE AllLegible(mem)
    <2>1. file.tables = tables /\ DOMAIN tables = DOMAIN mem
      OBVIOUS
    <2>2. ASSUME NEW t \in DOMAIN mem
          PROVE  tables[t] \in [layout : Layout, rules : Settled]
      <3>1. mem[t].layout \in Layout /\ mem[t].rules \in Legible
        BY <1>2 DEF TypeOK, IsContent, AllLegible
      <3>. QED  BY <3>1 DEF Settled
    <2>3. DOMAIN tables \subseteq Table
      BY <2>1 DEF TypeOK
    <2>4. file = [state |-> "readable", tables |-> file.tables]
      BY <2>1
    <2>5. Described(mem) = file
      BY <1>2 DEF Described
    <2>6. tables \in [DOMAIN tables -> [layout : Layout, rules : Settled]]
      BY <2>1, <2>2
    <2> HIDE DEF file, tables
    <2>. QED  BY <2>1, <2>3, <2>4, <2>5, <2>6 DEF IsMetadataFile
  <1>. QED  BY <1>1, <1>2

\* Rules as a file holds them are left alone by the next save and load.
LEMMA SettledStay ==
    ASSUME NEW r \in Settled
    PROVE  r \in Rules /\ r \in Legible /\ Reloaded[r] = r
  BY FilesAssumption DEF FilesAssumption, Settled

\* A step that gives the rest of the work up.
LEMMA AbandonKeepsInv ==
    ASSUME Inv, Abandon, pending # <<>>, mem' = mem, loaded' = loaded,
           statements' = statements, meta' = meta,
           \/ csv' = csv
           \/ /\ Head(pending) # Metadata
              /\ \E file : IsTableFile(file) /\ csv' = [csv EXCEPT ![Head(pending)] = file]
    PROVE  Inv'
  <1> DEFINE f == Head(pending)
  <1>1. /\ pending' = <<>> /\ opened' = FALSE /\ damaged' = damaged \cup Pending
        /\ phase' = IF phase = "up" THEN "up" ELSE "down"
    BY DEF Abandon
  <1>2. f \in File /\ f \in Pending
    BY HeadAndRest DEF Inv
  <1>3. f # Metadata => f \in Table
    BY PendingFirst, FilesAssumption
  <1>4. TypeOK'
    <2>1. damaged' \subseteq File
      BY <1>1, PendingIsFiles DEF Inv, TypeOK
    <2>2. IsMetadataFile(meta')
      BY DEF Inv, TypeOK
    <2>3. pending' \in Seq(File) /\ opened' \in BOOLEAN /\ (opened' => pending' # <<>>)
      BY <1>1, NoWork, Zenon
    <2>4. phase' \in {"down", "booting", "saving", "up"}
      BY <1>1
    <2>5. \/ csv' = csv
          \/ \E t \in Table : \E file :
                IsTableFile(file) /\ csv' = [csv EXCEPT ![t] = file]
      BY <1>3
    <2>. QED  BY <2>1, <2>2, <2>3, <2>4, <2>5, WritingTypes DEF Inv
  <1>5. PendingByPhase'
    BY <1>1 DEF Inv, PendingByPhase
  <1>6. FilesMatch'
    <2>1. \A t \in Table : t # f => csv'[t] = csv[t]
      BY <1>3, OneFile DEF Inv
    <2>2. damaged \cup Pending \subseteq (damaged' \cup Pending') \cup {f}
      BY <1>1
    <2>3. f \in damaged' \cup Pending'
      BY <1>1, <1>2
    <2> HIDE DEF f
    <2>. QED  BY <1>2, <2>1, <2>2, <2>3, OneFileMatches DEF Inv
  <1>. QED  BY <1>4, <1>5, <1>6 DEF Inv

LEMMA OpenFailsKeepsInv ==
    ASSUME Inv, OpenFails
    PROVE  Inv'
  BY AbandonKeepsInv DEF OpenFails

LEMMA WriteReportedKeepsInv ==
    ASSUME Inv, WriteReported
    PROVE  Inv'
  <1>1. pending # <<>> /\ Head(pending) # Metadata /\ Abandon
    BY DEF WriteReported, Inv, TypeOK
  <1>2. PICK part \in Partial(mem[Head(pending)]) : csv' = [csv EXCEPT ![Head(pending)] = part]
    BY DEF WriteReported
  <1>3. IsTableFile(part)
    BY <1>1, PendingFirst, PartialIsTableFile, FilesAssumption
  <1>. QED  BY <1>1, <1>2, <1>3, AbandonKeepsInv DEF WriteReported

LEMMA OpenFileKeepsInv ==
    ASSUME Inv, OpenFile
    PROVE  Inv'
  <1> DEFINE f == Head(pending)
  <1>1. /\ pending # <<>> /\ opened' = TRUE
        /\ phase' = phase /\ mem' = mem /\ loaded' = loaded /\ pending' = pending
        /\ damaged' = damaged /\ statements' = statements
    BY DEF OpenFile
  <1>2. f \in File /\ f \in Pending /\ Pending' = Pending
    BY <1>1, HeadAndRest DEF Inv, Pending
  <1>3. f # Metadata => f \in Table
    BY <1>1, PendingFirst, FilesAssumption
  <1>4. /\ f = Metadata => meta' = Unreadable /\ csv' = csv
        /\ f # Metadata => csv' = [csv EXCEPT ![f] = Unreadable] /\ meta' = meta
    BY DEF OpenFile, Put
  <1>5. IsTableFile(Unreadable) /\ IsMetadataFile(Unreadable)
    BY DEF IsTableFile, IsMetadataFile
  <1>6. TypeOK'
    <2>1. IsMetadataFile(meta')
      BY <1>4, <1>5 DEF Inv, TypeOK
    <2>2. \/ csv' = csv
          \/ \E t \in Table : \E file :
                IsTableFile(file) /\ csv' = [csv EXCEPT ![t] = file]
      BY <1>3, <1>4, <1>5
    <2>3. /\ pending' \in Seq(File) /\ opened' \in BOOLEAN /\ (opened' => pending' # <<>>)
          /\ damaged' \subseteq File /\ phase' \in {"down", "booting", "saving", "up"}
      BY <1>1 DEF Inv, TypeOK
    <2>. QED  BY <1>1, <2>1, <2>2, <2>3, WritingTypes DEF Inv
  <1>7. /\ f # Metadata => csv'[f] = Unreadable
        /\ \A t \in Table : t # f => csv'[t] = csv[t]
    BY <1>3, <1>4, <1>5, OneFile DEF Inv
  <1>8. PendingByPhase'
    <2>1. ASSUME NEW t \in DOMAIN mem, pending = <<t>>, csv[t].state # "readable"
          PROVE  csv'[t].state # "readable"
      <3>1. f = t /\ t \in Table
        BY <2>1, OneOrTwo DEF Inv, TypeOK
      <3>2. t # Metadata
        BY <3>1, FilesAssumption DEF FilesAssumption
      <3>. QED  BY <1>7, <3>1, <3>2 DEF Unreadable
    <2>. QED  BY <1>1, <2>1 DEF Inv, PendingByPhase
  <1>9. FilesMatch'
    <2> HIDE DEF f
    <2>. QED  BY <1>1, <1>2, <1>4, <1>7, OneFileMatches DEF Inv
  <1>. QED  BY <1>6, <1>8, <1>9 DEF Inv

\* A write that ends, well or not as far as anyone looks.
LEMMA ProceedKeepsShape ==
    ASSUME Inv, Proceed, opened, mem' = mem, loaded' = loaded
    PROVE  /\ PendingByPhase'
           /\ pending' \in Seq(File) /\ opened' = FALSE
           /\ phase' \in {"down", "booting", "saving", "up"}
           /\ Pending = {Head(pending)} \cup Pending'
  <1>1. pending # <<>> /\ pending' = Tail(pending) /\ opened' = FALSE
        /\ phase' = IF phase = "saving" THEN "up" ELSE phase
    BY DEF Inv, TypeOK, Proceed
  <1>2. Pending = {Head(pending)} \cup Pending'
    BY <1>1, HeadAndRest DEF Inv, Rest, Pending
  <1>3. pending' \in Seq(File) /\ phase' \in {"down", "booting", "saving", "up"}
    BY <1>1, HeadAndRest DEF Inv, TypeOK
  <1>4. PendingByPhase'
    <2>1. CASE phase = "booting"
      <3>1. pending' = <<>>
        BY <1>1, <2>1, OneOrTwo, Zenon DEF Inv, PendingByPhase
      <3>. QED  BY <1>1, <2>1, <3>1 DEF PendingByPhase
    <2>2. CASE phase = "saving"
      <3>1. pending' = <<>>
        BY <1>1, <2>2, OneOrTwo, Zenon DEF Inv, PendingByPhase
      <3>. QED  BY <1>1, <2>2, <3>1 DEF Inv, PendingByPhase
    <2>3. CASE phase = "up"
      <3>1. loaded = DOMAIN mem
            /\ (\/ pending = <<Metadata>>
                \/ \E t \in DOMAIN mem : pending = <<t>> \/ pending = <<t, Metadata>>)
        BY <1>1, <2>3 DEF Inv, PendingByPhase
      <3>2. pending' = <<>> \/ pending' = <<Metadata>>
        BY <1>1, <3>1, OneOrTwo, ZenonT(60)
      <3>. QED  BY <1>1, <2>3, <3>1, <3>2 DEF PendingByPhase
    <2>4. phase # "down"
      BY <1>1 DEF Inv, PendingByPhase
    <2>. QED  BY <2>1, <2>2, <2>3, <2>4 DEF Inv, TypeOK
  <1>. QED  BY <1>1, <1>2, <1>3, <1>4

LEMMA WriteFileKeepsInv ==
    ASSUME Inv, WriteFile
    PROVE  Inv'
  <1> DEFINE f == Head(pending)
  <1>1. /\ opened /\ Proceed /\ pending # <<>>
        /\ damaged' = damaged \ {f}
        /\ mem' = mem /\ loaded' = loaded /\ statements' = statements
        /\ f = Metadata => meta' = Described(mem) /\ csv' = csv
        /\ f # Metadata => csv' = [csv EXCEPT ![f] = Saved(mem[f])] /\ meta' = meta
    BY DEF WriteFile, Inv, TypeOK
  <1>2. f \in File /\ (f # Metadata => f \in Table /\ IsTableFile(Saved(mem[f])))
    BY <1>1, HeadAndRest, PendingFirst, SavedIsTableFile, FilesAssumption DEF Inv
  <1>3. /\ PendingByPhase' /\ pending' \in Seq(File) /\ opened' = FALSE
        /\ phase' \in {"down", "booting", "saving", "up"}
        /\ Pending = {f} \cup Pending'
    BY <1>1, ProceedKeepsShape
  <1>4. IsMetadataFile(meta')
    BY <1>1, DescribedIsMetadataFile DEF Inv, TypeOK
  <1>5. damaged' \subseteq File
    BY <1>1 DEF Inv, TypeOK
  <1>6. TypeOK'
    <2>1. \/ csv' = csv
          \/ \E t \in Table : \E file :
                IsTableFile(file) /\ csv' = [csv EXCEPT ![t] = file]
      BY <1>1, <1>2
    <2>. QED  BY <1>1, <1>3, <1>4, <1>5, <2>1, WritingTypes DEF Inv
  <1>7. /\ f # Metadata => csv'[f] = Saved(mem[f])
        /\ \A t \in Table : t # f => csv'[t] = csv[t]
    BY <1>1, <1>2, OneFile DEF Inv
  <1>8. damaged \cup Pending \subseteq (damaged' \cup Pending') \cup {f}
    BY <1>1, <1>3
  <1>9. FilesMatch'
    <2> HIDE DEF f
    <2>. QED  BY <1>1, <1>2, <1>7, <1>8, OneFileMatches DEF Inv
  <1>. QED  BY <1>3, <1>6, <1>9 DEF Inv

LEMMA WriteUnreportedKeepsInv ==
    ASSUME Inv, WriteUnreported
    PROVE  Inv'
  <1> DEFINE f == Head(pending)
  <1>1. /\ opened /\ Proceed /\ pending # <<>>
        /\ damaged' = damaged \cup {f}
        /\ mem' = mem /\ loaded' = loaded /\ statements' = statements /\ meta' = meta
    BY DEF WriteUnreported, Inv, TypeOK
  <1>2. f \in File /\ (f # Metadata => f \in Table)
    BY <1>1, HeadAndRest, PendingFirst, FilesAssumption DEF Inv
  <1>3. /\ PendingByPhase' /\ pending' \in Seq(File) /\ opened' = FALSE
        /\ phase' \in {"down", "booting", "saving", "up"}
        /\ Pending = {f} \cup Pending'
    BY <1>1, ProceedKeepsShape
  <1>4. \/ csv' = csv
        \/ \E file : IsTableFile(file) /\ f \in Table /\ csv' = [csv EXCEPT ![f] = file]
    <2>1. CASE f = Metadata
      BY <2>1 DEF WriteUnreported
    <2>2. CASE f # Metadata
      <3>1. PICK part \in Partial(mem[f]) : csv' = [csv EXCEPT ![f] = part]
        BY <2>2 DEF WriteUnreported
      <3>2. IsTableFile(part)
        BY <1>1, <2>2, PendingFirst, PartialIsTableFile, FilesAssumption
      <3>. QED  BY <1>2, <2>2, <3>1, <3>2
    <2>. QED  BY <2>1, <2>2
  <1>5. TypeOK'
    <2>1. \/ csv' = csv
          \/ \E t \in Table : \E file :
                IsTableFile(file) /\ csv' = [csv EXCEPT ![t] = file]
      BY <1>4
    <2>2. damaged' \subseteq File /\ IsMetadataFile(meta')
      BY <1>1, <1>2 DEF Inv, TypeOK
    <2>. QED  BY <1>1, <1>3, <2>1, <2>2, WritingTypes DEF Inv
  <1>6. \A t \in Table : t # f => csv'[t] = csv[t]
    BY <1>4, OneFile DEF Inv
  <1>7. f \in damaged' /\ damaged \cup Pending \subseteq (damaged' \cup Pending') \cup {f}
    BY <1>1, <1>3
  <1>8. FilesMatch'
    <2> HIDE DEF f
    <2>. QED  BY <1>1, <1>2, <1>6, <1>7, OneFileMatches DEF Inv
  <1>. QED  BY <1>3, <1>5, <1>8 DEF Inv

----------------------------------------------------------------------------
(* The end of the program *)

LEMMA StopKeepsInv ==
    ASSUME Inv, Stop
    PROVE  Inv'
  <1>1. /\ pending' = <<>> /\ opened' = FALSE /\ damaged' = damaged \cup Pending
        /\ phase' = "down" /\ mem' = mem /\ loaded' = loaded
        /\ statements' = statements /\ meta' = meta
    BY DEF Stop
  <1>2. PendingByPhase'
    BY <1>1 DEF PendingByPhase
  <1>3. damaged' \subseteq File /\ IsMetadataFile(meta')
    BY <1>1, PendingIsFiles DEF Inv, TypeOK
  <1>4. /\ pending' \in Seq(File) /\ opened' \in BOOLEAN /\ (opened' => pending' # <<>>)
        /\ phase' \in {"down", "booting", "saving", "up"}
    BY <1>1, NoWork, Zenon
  <1>5. CASE csv' = csv
    <2>1. TypeOK'
      BY <1>1, <1>3, <1>4, <1>5, WritingTypes DEF Inv
    <2>2. FilesMatch'
      BY <1>1, <1>5 DEF Inv, FilesMatch
    <2>. QED  BY <1>2, <2>1, <2>2 DEF Inv
  <1>6. CASE csv' # csv
    <2> DEFINE f == Head(pending)
    <2>1. opened /\ f # Metadata /\ pending # <<>>
      BY <1>6 DEF Stop, Inv, TypeOK
    <2>2. PICK part \in Partial(mem[f]) : csv' = [csv EXCEPT ![f] = part]
      BY <2>1 DEF Stop
    <2>3. f \in Table /\ IsTableFile(part) /\ f \in File /\ f \in Pending
      BY <2>1, PendingFirst, PartialIsTableFile, HeadAndRest, FilesAssumption DEF Inv
    <2>4. TypeOK'
      BY <1>1, <1>3, <1>4, <2>2, <2>3, WritingTypes DEF Inv
    <2>5. \A t \in Table : t # f => csv'[t] = csv[t]
      BY <2>2, <2>3, OneFile DEF Inv
    <2>6. f \in damaged' /\ damaged \cup Pending \subseteq (damaged' \cup Pending') \cup {f}
      BY <1>1, <2>3
    <2>7. FilesMatch'
      <3> HIDE DEF f
      <3>. QED  BY <1>1, <2>3, <2>5, <2>6, OneFileMatches DEF Inv
    <2>. QED  BY <1>2, <2>4, <2>7 DEF Inv
  <1>. QED  BY <1>5, <1>6

----------------------------------------------------------------------------
(* The start *)

LEMMA StartKeepsInv ==
    ASSUME Inv, Start
    PROVE  Inv'
  <1>1. /\ phase = "down" /\ phase' = "booting" /\ loaded' = {} /\ csv' = csv /\ meta' = meta
        /\ pending' = pending /\ opened' = opened /\ statements' = statements
        /\ pending = <<>>
    BY DEF Start, Inv, PendingByPhase
  <1>2. PendingByPhase'
    BY <1>1 DEF PendingByPhase
  <1>3. csv' = [t \in Table |-> csv'[t]] /\ \A t \in Table : IsTableFile(csv'[t])
    BY <1>1 DEF Inv, TypeOK
  <1>4. /\ IsMetadataFile(meta') /\ pending' \in Seq(File) /\ opened' \in BOOLEAN
        /\ (opened' => pending' # <<>>) /\ statements' \in 0..MaxStatements
        /\ phase' \in {"down", "booting", "saving", "up"}
    BY <1>1 DEF Inv, TypeOK
  <1>5. CASE meta.state = "readable"
    <2> DEFINE tables == [t \in DOMAIN meta.tables |->
                            [layout |-> meta.tables[t].layout,
                             rules |-> meta.tables[t].rules, rows |-> NoRows]]
    <2>1. mem' = tables /\ damaged' = damaged \ {Metadata}
      BY <1>5 DEF Start, NoFile, Unreadable
    <2>2. /\ meta = [state |-> "readable", tables |-> meta.tables]
          /\ DOMAIN meta.tables \subseteq Table
          /\ meta.tables \in [DOMAIN meta.tables -> [layout : Layout, rules : Settled]]
      BY <1>5 DEF Inv, TypeOK, IsMetadataFile, NoFile, Unreadable
    <2>3. \A t \in DOMAIN tables : IsContent(tables[t])
      BY <2>2, SettledStay, NoRowsAreRows DEF IsContent
    <2>4. DOMAIN tables \subseteq Table /\ tables = [t \in DOMAIN tables |-> tables[t]]
      BY <2>2
    <2>5. Described(tables) = meta
      <3>1. \A t \in DOMAIN meta.tables :
              meta.tables[t] = [layout |-> meta.tables[t].layout, rules |-> meta.tables[t].rules]
        BY <2>2
      <3>2. meta.tables = [t \in DOMAIN meta.tables |->
              [layout |-> meta.tables[t].layout, rules |-> meta.tables[t].rules]]
        BY <2>2, <3>1
      <3>3. \A t \in DOMAIN meta.tables :
              meta.tables[t].rules \in Legible
                /\ Reloaded[meta.tables[t].rules] = meta.tables[t].rules
        BY <2>2, SettledStay
      <3>4. [t \in DOMAIN tables |->
               [layout |-> tables[t].layout, rules |-> Reloaded[tables[t].rules]]]
              = [t \in DOMAIN meta.tables |->
                   [layout |-> meta.tables[t].layout, rules |-> meta.tables[t].rules]]
        BY <3>3
      <3>5. AllLegible(tables)
        BY <3>3 DEF AllLegible
      <3> HIDE DEF tables
      <3>. QED  BY <2>2, <3>2, <3>4, <3>5 DEF Described
    <2> HIDE DEF tables
    <2>6. damaged' \subseteq File /\ loaded' \subseteq DOMAIN mem'
      BY <1>1, <2>1 DEF Inv, TypeOK
    <2>7. TypeOK'
      BY <1>3, <1>4, <2>1, <2>3, <2>4, <2>6, Zenon DEF TypeOK
    <2>8. FilesMatch'
      BY <1>1, <2>1, <2>5 DEF FilesMatch
    <2>. QED  BY <1>2, <2>7, <2>8 DEF Inv
  <1>6. CASE meta.state # "readable"
    <2> DEFINE tables == [t \in {u \in Table : csv[u].state = "readable"} |->
                            [layout |-> csv[t].layout, rules |-> Inferred, rows |-> NoRows]]
    <2>1. mem' = tables /\ damaged' = damaged \cup {Metadata}
      BY <1>6 DEF Start
    <2>2. ASSUME NEW t \in DOMAIN tables
          PROVE  IsContent(tables[t])
      <3>1. t \in Table /\ csv[t].state = "readable"
        OBVIOUS
      <3>2. csv[t].layout \in Layout
        BY <3>1 DEF Inv, TypeOK, IsTableFile, NoFile, Unreadable
      <3>. QED  BY <3>2, NoRowsAreRows, FilesAssumption DEF IsContent, FilesAssumption
    <2>3. DOMAIN tables \subseteq Table /\ tables = [t \in DOMAIN tables |-> tables[t]]
      OBVIOUS
    <2> HIDE DEF tables
    <2>4. damaged' \subseteq File /\ loaded' \subseteq DOMAIN mem'
      BY <1>1, <2>1 DEF Inv, TypeOK, File
    <2>5. TypeOK'
      BY <1>3, <1>4, <2>1, <2>2, <2>3, <2>4, Zenon DEF TypeOK
    <2>6. FilesMatch'
      BY <1>1, <2>1 DEF FilesMatch
    <2>. QED  BY <1>2, <2>5, <2>6 DEF Inv
  <1>. QED  BY <1>5, <1>6

\* Steps of a boot that touch neither memory nor a file.
LEMMA WaitingKeepsInv ==
    ASSUME Inv, mem' = mem, loaded' = loaded, csv' = csv, meta' = meta, opened' = opened,
           damaged' = damaged, statements' = statements,
           pending = <<>>, phase = "booting",
           pending' \in Seq(File),
           phase' \in {"down", "booting", "saving", "up"},
           PendingByPhase'
    PROVE  Inv'
  <1>1. ~opened /\ Pending = {}
    BY DEF Inv, TypeOK, Pending
  <1>2. TypeOK'
    BY <1>1, WritingTypes DEF Inv, TypeOK
  <1>3. FilesMatch'
    BY <1>1 DEF Inv, FilesMatch
  <1>. QED  BY <1>2, <1>3 DEF Inv

LEMMA RecreateFileKeepsInv ==
    ASSUME Inv, NEW t \in Table, RecreateFile(t)
    PROVE  Inv'
  <1>1. /\ phase = "booting" /\ phase' = "booting" /\ pending = <<>> /\ pending' = <<t>>
        /\ mem' = mem /\ loaded' = loaded /\ csv' = csv /\ meta' = meta
        /\ opened' = opened /\ damaged' = damaged /\ statements' = statements
        /\ t \in DOMAIN mem \ loaded /\ csv[t].state # "readable"
    BY DEF RecreateFile, Loading
  <1>2. t \in File
    BY DEF File
  <1>3. pending' \in Seq(File)
    BY <1>1, <1>2
  <1>4. PendingByPhase'
    BY <1>1 DEF PendingByPhase
  <1>. QED  BY <1>1, <1>3, <1>4, WaitingKeepsInv

LEMMA LoadFailsKeepsInv ==
    ASSUME Inv, NEW t \in Table, LoadFails(t)
    PROVE  Inv'
  <1>1. /\ phase = "booting" /\ phase' = "down" /\ pending = <<>> /\ pending' = <<>>
        /\ mem' = mem /\ loaded' = loaded /\ csv' = csv /\ meta' = meta
        /\ opened' = opened /\ damaged' = damaged /\ statements' = statements
    BY DEF LoadFails, Loading
  <1>2. PendingByPhase'
    BY <1>1 DEF PendingByPhase
  <1>3. pending' \in Seq(File)
    BY <1>1, NoWork, Zenon
  <1>. QED  BY <1>1, <1>2, <1>3, WaitingKeepsInv

LEMMA SaveCatalogKeepsInv ==
    ASSUME Inv, SaveCatalog
    PROVE  Inv'
  <1>1. /\ phase = "booting" /\ phase' = "saving" /\ pending = <<>> /\ pending' = <<Metadata>>
        /\ mem' = mem /\ loaded' = loaded /\ csv' = csv /\ meta' = meta
        /\ opened' = opened /\ damaged' = damaged /\ statements' = statements
        /\ loaded = DOMAIN mem
    BY DEF SaveCatalog
  <1>2. PendingByPhase'
    BY <1>1 DEF PendingByPhase
  <1>3. Metadata \in File
    BY DEF File
  <1>4. pending' \in Seq(File)
    BY <1>1, <1>3
  <1>. QED  BY <1>1, <1>2, <1>4, WaitingKeepsInv

LEMMA LoadTableKeepsInv ==
    ASSUME Inv, NEW t \in Table, LoadTable(t)
    PROVE  Inv'
  <1> DEFINE tables == [mem EXCEPT ![t].rows = csv[t].rows]
  <1>1. /\ phase = "booting" /\ phase' = "booting" /\ pending = <<>> /\ pending' = <<>>
        /\ mem' = tables /\ loaded' = loaded \cup {t} /\ csv' = csv /\ meta' = meta
        /\ opened' = opened /\ damaged' = damaged \ {t} /\ statements' = statements
        /\ t \in DOMAIN mem /\ csv[t].state = "readable" /\ csv[t].layout = mem[t].layout
    BY DEF LoadTable, Loading, Fits
  <1>2. /\ csv[t] = Read(csv[t].layout, csv[t].rows)
        /\ csv[t].rows \in TableRows
    BY <1>1 DEF Inv, TypeOK, IsTableFile, NoFile, Unreadable
  <1>3. /\ DOMAIN tables = DOMAIN mem
        /\ tables = [u \in DOMAIN tables |-> tables[u]]
        /\ \A u \in DOMAIN tables : IsContent(tables[u])
        /\ \A u \in DOMAIN tables \ {t} : tables[u] = mem[u]
        /\ tables[t].layout = mem[t].layout
        /\ tables[t].rows = csv[t].rows
    BY <1>1, <1>2, NewRows DEF Inv
  <1>4. Described(tables) = Described(mem)
    BY <1>1, DescribedWithoutRows DEF Inv, TypeOK
  <1> HIDE DEF tables
  <1>5. Saved(tables[t]) = csv[t]
    BY <1>1, <1>2, <1>3 DEF Saved
  <1>6. PendingByPhase'
    BY <1>1 DEF PendingByPhase
  <1>7. TypeOK'
    <2>1. /\ DOMAIN mem' \subseteq Table
          /\ mem' = [u \in DOMAIN mem' |-> mem'[u]]
          /\ \A u \in DOMAIN mem' : IsContent(mem'[u])
          /\ loaded' \subseteq DOMAIN mem'
      BY <1>1, <1>3 DEF Inv, TypeOK
    <2>2. csv' = [u \in Table |-> csv'[u]] /\ \A u \in Table : IsTableFile(csv'[u])
      BY <1>1 DEF Inv, TypeOK
    <2>3. /\ IsMetadataFile(meta') /\ opened' \in BOOLEAN /\ damaged' \subseteq File
          /\ statements' \in 0..MaxStatements
          /\ (opened' => pending' # <<>>)
          /\ phase' \in {"down", "booting", "saving", "up"}
      BY <1>1 DEF Inv, TypeOK
    <2>4. pending' \in Seq(File)
      BY <1>1, NoWork, Zenon
    <2>. QED  BY <2>1, <2>2, <2>3, <2>4, Zenon DEF TypeOK
  <1>8. t # Metadata
    BY FilesAssumption DEF FilesAssumption
  <1>9. FilesMatch'
    <2>1. Pending = {} /\ Pending' = {}
      BY <1>1 DEF Pending
    <2>2. ASSUME NEW u \in loaded', u \notin damaged'
          PROVE  csv'[u] = Saved(mem'[u])
      <3>1. CASE u = t
        BY <1>1, <1>5, <3>1
      <3>2. CASE u # t
        <4>1. u \in loaded \ (damaged \cup Pending) /\ u \in DOMAIN tables \ {t}
          BY <1>1, <1>3, <2>1, <2>2, <3>2 DEF Inv, TypeOK
        <4>. QED  BY <1>1, <1>3, <4>1 DEF Inv, FilesMatch
      <3>. QED  BY <3>1, <3>2
    <2>3. ASSUME Metadata \notin damaged'
          PROVE  meta' = Described(mem')
      BY <1>1, <1>4, <1>8, <2>1, <2>3 DEF Inv, FilesMatch
    <2>. QED  BY <2>1, <2>2, <2>3 DEF FilesMatch
  <1>. QED  BY <1>6, <1>7, <1>9 DEF Inv

----------------------------------------------------------------------------
(* The theorems *)

LEMMA InitInv ==
    ASSUME Init
    PROVE  Inv
  <1>1. /\ phase = "down" /\ mem = <<>> /\ loaded = {} /\ meta = NoFile /\ pending = <<>>
        /\ opened = FALSE /\ damaged = {Metadata} /\ statements = 0
    BY DEF Init
  <1>2. DOMAIN mem = {} /\ mem = [t \in DOMAIN mem |-> mem[t]]
    BY <1>1
  <1>3. csv = [t \in Table |-> csv[t]]
    BY DEF Init
  <1>4. ASSUME NEW t \in Table
        PROVE  IsTableFile(csv[t])
    <2>1. CASE csv[t] = NoFile
      BY <2>1 DEF IsTableFile
    <2>2. CASE csv[t] \in LegacyFiles
      <3> DEFINE file == csv[t]
      <3>1. file \in [state : {"readable"}, layout : Layout, rows : TableRows]
        BY <2>2, FilesAssumption DEF FilesAssumption, TableRows
      <3>2. file.layout \in Layout /\ file.rows \in TableRows
            /\ file = Lines(file.layout, file.rows)
        BY <3>1 DEF Lines
      <3>3. Parsed(file.layout, file.rows) = file.rows
        <4>1. CASE file.layout \in Narrow
          <5>1. \A s \in DOMAIN file.rows : s \in Slot
            BY <3>2, TableRowsAre
          <5>2. \A s \in DOMAIN file.rows : file.rows[s] # Blank
            BY <2>2, <4>1, <5>1, FilesAssumption DEF FilesAssumption
          <5>3. {s \in DOMAIN file.rows : file.rows[s] # Blank} = DOMAIN file.rows
            BY <5>2
          <5>4. Only(file.rows, DOMAIN file.rows) = file.rows
            BY <3>2, TableRowsAre DEF Only
          <5>. QED  BY <4>1, <5>3, <5>4 DEF Parsed
        <4>2. CASE file.layout \notin Narrow
          BY <4>2 DEF Parsed
        <4>. QED  BY <4>1, <4>2
      <3>. QED  BY <3>2, <3>3 DEF IsTableFile, Read
    <2>. QED  BY <2>1, <2>2 DEF Init
  <1>5. /\ IsMetadataFile(meta) /\ Pending = {} /\ Metadata \in File
        /\ pending \in Seq(File) /\ statements \in 0..MaxStatements
    <2>1. statements \in 0..MaxStatements
      BY <1>1, FilesAssumption DEF FilesAssumption
    <2>2. pending \in Seq(File)
      BY <1>1, NoWork, Zenon
    <2>. QED  BY <1>1, <2>1, <2>2 DEF IsMetadataFile, Pending, File
  <1>6. TypeOK
    BY <1>1, <1>2, <1>3, <1>4, <1>5 DEF TypeOK
  <1>7. PendingByPhase /\ FilesMatch
    BY <1>1, <1>5 DEF PendingByPhase, FilesMatch
  <1>. QED  BY <1>6, <1>7 DEF Inv

LEMMA NextInv ==
    ASSUME Inv, [Next]_vars
    PROVE  Inv'
  <1>1. CASE UNCHANGED vars
    <2>1. UNCHANGED <<phase, mem, loaded, csv, meta, pending, opened, damaged, statements>>
      BY <1>1 DEF vars
    <2>2. Pending' = Pending
      BY <2>1 DEF Pending
    <2>3. TypeOK'
      BY <2>1 DEF Inv, TypeOK
    <2>4. PendingByPhase'
      BY <2>1 DEF Inv, PendingByPhase
    <2>5. FilesMatch'
      BY <2>1, <2>2 DEF Inv, FilesMatch
    <2>. QED  BY <2>3, <2>4, <2>5 DEF Inv
  <1>2. CASE Statement
    BY <1>2, CreateTableKeepsInv, AlterTableKeepsInv, DmlKeepsInv DEF Statement
  <1>3. CASE Writing
    BY <1>3, OpenFileKeepsInv, OpenFailsKeepsInv, WriteFileKeepsInv, WriteReportedKeepsInv,
       WriteUnreportedKeepsInv DEF Writing
  <1>4. CASE Stop
    BY <1>4, StopKeepsInv
  <1>5. CASE Boot
    BY <1>5, StartKeepsInv, RecreateFileKeepsInv, LoadTableKeepsInv, LoadFailsKeepsInv,
       SaveCatalogKeepsInv DEF Boot
  <1>. QED  BY <1>1, <1>2, <1>3, <1>4, <1>5 DEF Next

LEMMA Invariance == Spec => []Inv
  <1>1. Init => Inv
    BY InitInv
  <1>2. Inv /\ [Next]_vars => Inv'
    BY NextInv
  <1>. QED  BY <1>1, <1>2, PTL DEF Spec

\* The data directory is well typed; no file of a table holds a line that its
\* reader would skip.
THEOREM DirectoryTypes == Spec => []TypeOK
  <1>1. Inv => TypeOK
    BY DEF Inv
  <1>. QED  BY <1>1, Invariance, PTL

\* Whatever crashes and failing writes there were, a file whose last write
\* completed says what memory says of it.
THEOREM UndamagedFilesMatch == Spec => []FilesMatch
  <1>1. Inv => FilesMatch
    BY DEF Inv
  <1>. QED  BY <1>1, Invariance, PTL

LEMMA MatchingFilesRestart ==
    ASSUME Inv
    PROVE  RestartKeepsData
  <1> SUFFICES ASSUME pending = <<>>, damaged = {}, loaded = DOMAIN mem
               PROVE  /\ Bootable <=> AllLegible(mem)
                      /\ Bootable =>
                           Restored = [t \in DOMAIN mem |->
                             [layout |-> mem[t].layout, rules |-> Reloaded[mem[t].rules],
                              rows |-> Parsed(mem[t].layout, mem[t].rows)]]
    BY DEF RestartKeepsData
  <1>1. Pending = {}
    BY DEF Pending
  <1>2. meta = Described(mem) /\ \A t \in DOMAIN mem : csv[t] = Saved(mem[t])
    BY <1>1 DEF Inv, FilesMatch
  <1>3. CASE ~AllLegible(mem)
    BY <1>2, <1>3 DEF Described, Unreadable, Bootable
  <1>4. CASE AllLegible(mem)
    <2>1. /\ meta.state = "readable" /\ DOMAIN meta.tables = DOMAIN mem
          /\ \A t \in DOMAIN mem :
               /\ meta.tables[t].layout = mem[t].layout
               /\ meta.tables[t].rules = Reloaded[mem[t].rules]
      BY <1>2, <1>4 DEF Described
    <2>2. ASSUME NEW t \in DOMAIN mem
          PROVE  /\ csv[t].state = "readable" /\ csv[t].layout = mem[t].layout
                 /\ csv[t].rows = Parsed(mem[t].layout, mem[t].rows)
      <3>1. csv[t] = Saved(mem[t])
        BY <1>2
      <3>2. csv[t] = [state |-> "readable", layout |-> mem[t].layout,
                      rows |-> Parsed(mem[t].layout, mem[t].rows)]
        BY <3>1, Zenon DEF Saved, Read, Lines
      <3>. QED  BY <3>2
    <2>3. Bootable
      BY <2>1, <2>2 DEF Bootable, Fits
    <2>4. Restored = [t \in DOMAIN mem |->
                        [layout |-> mem[t].layout, rules |-> Reloaded[mem[t].rules],
                         rows |-> Parsed(mem[t].layout, mem[t].rows)]]
      BY <2>1, <2>2 DEF Restored
    <2>. QED  BY <1>4, <2>3, <2>4
  <1>. QED  BY <1>3, <1>4

\* A program that stops with no failed write behind it starts again if and only
\* if the rules of every table are legible, and then with the tables it had,
\* their rules as reloaded, save blank rows of one-column tables.
THEOREM RestartsKeepData == Spec => []RestartKeepsData
  <1>1. Inv => RestartKeepsData
    BY MatchingFilesRestart
  <1>. QED  BY <1>1, Invariance, PTL

\* Outside "up" a step writes at most the file a boot creates, which is not one
\* that could be read.
LEMMA BootKeepsTablesStep ==
    ASSUME Inv, [Next]_vars, NEW t \in Table, phase # "up", csv[t].state = "readable"
    PROVE  csv'[t] = csv[t]
  <1>1. t # Metadata /\ DOMAIN csv = Table
    BY FilesAssumption DEF FilesAssumption, Inv, TypeOK
  <1>2. ASSUME pending # <<>>, Head(pending) # Metadata
        PROVE  Head(pending) # t
    <2>1. phase # "saving"
      BY <1>2, OneOrTwo DEF Inv, PendingByPhase
    <2>2. phase = "booting"
      BY <1>2, <2>1 DEF Inv, TypeOK, PendingByPhase
    <2>3. PICK u \in DOMAIN mem \ loaded : pending = <<u>> /\ csv[u].state # "readable"
      BY <1>2, <2>2 DEF Inv, PendingByPhase
    <2>4. Head(pending) = u
      BY <2>3, OneOrTwo, Zenon
    <2>. QED  BY <2>3, <2>4
  <1>3. ASSUME NEW file, pending # <<>>, Head(pending) # Metadata,
               csv' = [csv EXCEPT ![Head(pending)] = file]
        PROVE  csv'[t] = csv[t]
    BY <1>1, <1>2, <1>3
  <1>4. opened => pending # <<>>
    BY DEF Inv, TypeOK
  <1>5. CASE Writing
    <2>1. CASE OpenFile
      BY <1>3, <2>1 DEF OpenFile, Put
    <2>2. CASE OpenFails
      BY <2>2 DEF OpenFails
    <2>3. CASE WriteFile
      BY <1>3, <1>4, <2>3 DEF WriteFile
    <2>4. CASE WriteReported
      BY <1>3, <1>4, <2>4 DEF WriteReported
    <2>5. CASE WriteUnreported
      BY <1>3, <1>4, <2>5 DEF WriteUnreported
    <2>. QED  BY <1>5, <2>1, <2>2, <2>3, <2>4, <2>5 DEF Writing
  <1>6. CASE Stop
    BY <1>3, <1>4, <1>6 DEF Stop
  <1>7. CASE Boot
    BY <1>7 DEF Boot, Start, RecreateFile, LoadTable, LoadFails, SaveCatalog
  <1>8. CASE Statement
    BY <1>8 DEF Statement, CreateTable, AlterTable, Dml, Begin
  <1>9. CASE UNCHANGED vars
    BY <1>9 DEF vars
  <1>. QED  BY <1>5, <1>6, <1>7, <1>8, <1>9 DEF Next

\* Starting the program, stopping it and starts that fail leave every table file
\* that can be read as it is.
THEOREM BootsKeepTables == Spec => BootKeepsTables
  <1>1. Inv /\ [Next]_vars =>
          [\A t \in Table : phase # "up" /\ csv[t].state = "readable" => csv'[t] = csv[t]]_vars
    BY BootKeepsTablesStep
  <1>. QED  BY <1>1, Invariance, PTL DEF Spec, BootKeepsTables

----------------------------------------------------------------------------
(* The text of a table file *)

CsvCell == Seq(Character)
CsvCells == Seq(CsvCell)
CsvLines == Seq(CsvCells)
CsvState == [at : {"plain", "quoted", "quote"}, cell : CsvCell, cells : CsvCells, lines : CsvLines]

\* The state of the reader.
At(place, cell, cells, lines) == [at |-> place, cell |-> cell, cells |-> cells, lines |-> lines]

LEMMA CharactersDiffer ==
    /\ Comma # Mark /\ Comma # NewLine /\ Comma # Return
    /\ Mark # NewLine /\ Mark # Return /\ NewLine # Return
    /\ {Comma, Mark, NewLine, Return} \subseteq Character
  BY CsvAssumption DEF Comma, Mark, NewLine, Return

LEMMA AtIsState ==
    ASSUME NEW place \in {"plain", "quoted", "quote"}, NEW cell \in CsvCell,
           NEW cells \in CsvCells, NEW lines \in CsvLines
    PROVE  At(place, cell, cells, lines) \in CsvState
  BY DEF At, CsvState

LEMMA StateIsAt ==
    ASSUME NEW s \in CsvState
    PROVE  \E place \in {"plain", "quoted", "quote"}, cell \in CsvCell, cells \in CsvCells, lines \in CsvLines :
               s = At(place, cell, cells, lines)
  <1>1. s = At(s.at, s.cell, s.cells, s.lines)
    BY DEF At, CsvState
  <1>2. /\ s.at \in {"plain", "quoted", "quote"} /\ s.cell \in CsvCell
        /\ s.cells \in CsvCells /\ s.lines \in CsvLines
    BY DEF CsvState
  <1>. QED  BY <1>1, <1>2

\* The end of a line, skipped when it is one empty cell.
LineEnds(cells, lines) == IF cells = << <<>> >> THEN lines ELSE Append(lines, cells)

LEMMA FlushedLineIs ==
    ASSUME NEW place, NEW cell, NEW cells, NEW lines
    PROVE  /\ Flushed(At(place, cell, cells, lines)) = At(place, <<>>, Append(cells, cell), lines)
           /\ FlushedLine(At(place, cell, cells, lines))
                 = At(place, <<>>, <<>>, LineEnds(Append(cells, cell), lines))
  <1> DEFINE s == At(place, cell, cells, lines)
  <1>1. Flushed(s) = At(place, <<>>, Append(cells, cell), lines)
    <2>1. s.cells = cells /\ s.cell = cell
      BY DEF At
    <2>2. [s EXCEPT !.cells = Append(cells, cell)] = At(place, cell, Append(cells, cell), lines)
      BY DEF At
    <2>3. [At(place, cell, Append(cells, cell), lines) EXCEPT !.cell = <<>>]
            = At(place, <<>>, Append(cells, cell), lines)
      BY DEF At
    <2>4. Flushed(s) = [[s EXCEPT !.cells = Append(s.cells, s.cell)] EXCEPT !.cell = <<>>]
      BY Zenon DEF Flushed
    <2> HIDE DEF s
    <2>. QED  BY <2>1, <2>2, <2>3, <2>4
  <1>2. FlushedLine(s) = At(place, <<>>, <<>>, LineEnds(Append(cells, cell), lines))
    <2> DEFINE f == At(place, <<>>, Append(cells, cell), lines)
               ended == LineEnds(Append(cells, cell), lines)
    <2>1. f.cells = Append(cells, cell) /\ f.lines = lines
      BY DEF At
    <2>2. [f EXCEPT !.cells = <<>>] = At(place, <<>>, <<>>, lines)
      BY DEF At
    <2>3. At(place, <<>>, <<>>, lines).lines = lines
      BY DEF At
    <2>4. [At(place, <<>>, <<>>, lines) EXCEPT !.lines = ended] = At(place, <<>>, <<>>, ended)
      BY DEF At
    <2>5. ended = IF f.cells = << <<>> >> THEN lines ELSE Append(lines, f.cells)
      BY <2>1 DEF LineEnds
    <2>6. FlushedLine(s) = [[Flushed(s) EXCEPT !.cells = <<>>] EXCEPT
               !.lines = IF Flushed(s).cells = << <<>> >> THEN [Flushed(s) EXCEPT !.cells = <<>>].lines
                         ELSE Append([Flushed(s) EXCEPT !.cells = <<>>].lines, Flushed(s).cells)]
      BY Zenon DEF FlushedLine
    <2> HIDE DEF f, ended
    <2>7. FlushedLine(s) = [At(place, <<>>, <<>>, lines) EXCEPT !.lines = ended]
      BY <1>1, <2>2, <2>3, <2>5, <2>6 DEF f
    <2>. QED  BY <2>4, <2>7 DEF ended
  <1>. QED  BY <1>1, <1>2

\* What a character does, place by place.
LEMMA PlainGoes ==
    ASSUME NEW place, NEW cell, NEW cells, NEW lines, NEW c
    PROVE  /\ c = Mark => Plain(At(place, cell, cells, lines), c) = At("quoted", cell, cells, lines)
           /\ c = Comma => Plain(At(place, cell, cells, lines), c)
                               = At(place, <<>>, Append(cells, cell), lines)
           /\ c = NewLine => Plain(At(place, cell, cells, lines), c)
                               = At(place, <<>>, <<>>, LineEnds(Append(cells, cell), lines))
           /\ c = Return => Plain(At(place, cell, cells, lines), c) = At(place, cell, cells, lines)
           /\ c \notin {Mark, Comma, NewLine, Return} =>
                Plain(At(place, cell, cells, lines), c) = At(place, Append(cell, c), cells, lines)
  <1> DEFINE s == At(place, cell, cells, lines)
  <1>1. Flushed(s) = At(place, <<>>, Append(cells, cell), lines)
    BY FlushedLineIs
  <1>2. FlushedLine(s) = At(place, <<>>, <<>>, LineEnds(Append(cells, cell), lines))
    BY FlushedLineIs
  <1>3. ASSUME c = Mark PROVE Plain(s, c) = At("quoted", cell, cells, lines)
    BY <1>3, CharactersDiffer DEF Plain, At
  <1>4. ASSUME c = Comma PROVE Plain(s, c) = At(place, <<>>, Append(cells, cell), lines)
    BY <1>1, <1>4, CharactersDiffer DEF Plain
  <1>5. ASSUME c = NewLine PROVE Plain(s, c) = At(place, <<>>, <<>>, LineEnds(Append(cells, cell), lines))
    BY <1>2, <1>5, CharactersDiffer DEF Plain
  <1>6. ASSUME c = Return PROVE Plain(s, c) = s
    BY <1>6, CharactersDiffer DEF Plain
  <1>7. ASSUME c \notin {Mark, Comma, NewLine, Return}
        PROVE  Plain(s, c) = At(place, Append(cell, c), cells, lines)
    BY <1>7 DEF Plain, At
  <1>. QED  BY <1>3, <1>4, <1>5, <1>6, <1>7

LEMMA ParseCharGoes ==
    ASSUME NEW cell, NEW cells, NEW lines, NEW c
    PROVE  /\ ParseChar(At("plain", cell, cells, lines), c) = Plain(At("plain", cell, cells, lines), c)
           /\ c = Mark => ParseChar(At("quoted", cell, cells, lines), c) = At("quote", cell, cells, lines)
           /\ c # Mark => ParseChar(At("quoted", cell, cells, lines), c)
                              = At("quoted", Append(cell, c), cells, lines)
           /\ c = Mark => ParseChar(At("quote", cell, cells, lines), c)
                              = At("quoted", Append(cell, c), cells, lines)
           /\ c # Mark => ParseChar(At("quote", cell, cells, lines), c)
                              = Plain(At("plain", cell, cells, lines), c)
  <1>1. ParseChar(At("plain", cell, cells, lines), c) = Plain(At("plain", cell, cells, lines), c)
    BY DEF ParseChar, At
  <1>2. ASSUME c = Mark PROVE ParseChar(At("quoted", cell, cells, lines), c) = At("quote", cell, cells, lines)
    BY <1>2 DEF ParseChar, At
  <1>3. ASSUME c # Mark
        PROVE  ParseChar(At("quoted", cell, cells, lines), c) = At("quoted", Append(cell, c), cells, lines)
    BY <1>3 DEF ParseChar, At
  <1>4. ASSUME c = Mark
        PROVE  ParseChar(At("quote", cell, cells, lines), c) = At("quoted", Append(cell, c), cells, lines)
    BY <1>4 DEF ParseChar, At
  <1>5. ASSUME c # Mark
        PROVE  ParseChar(At("quote", cell, cells, lines), c) = Plain(At("plain", cell, cells, lines), c)
    <2>1. [At("quote", cell, cells, lines) EXCEPT !.at = "plain"] = At("plain", cell, cells, lines)
      BY DEF At
    <2>2. At("quote", cell, cells, lines).at = "quote"
      BY DEF At
    <2>. QED  BY <1>5, <2>1, <2>2 DEF ParseChar
  <1>. QED  BY <1>1, <1>2, <1>3, <1>4, <1>5

LEMMA LineEndsTyped ==
    ASSUME NEW cells \in CsvCells, NEW lines \in CsvLines
    PROVE  LineEnds(cells, lines) \in CsvLines
  BY DEF LineEnds, CsvLines

LEMMA PlainTyped ==
    ASSUME NEW cell \in CsvCell, NEW cells \in CsvCells, NEW lines \in CsvLines, NEW c \in Character
    PROVE  Plain(At("plain", cell, cells, lines), c) \in CsvState
  <1>1. /\ Append(cell, c) \in CsvCell /\ Append(cells, cell) \in CsvCells
        /\ <<>> \in CsvCell /\ <<>> \in CsvCells
    BY DEF CsvCell, CsvCells
  <1>2. LineEnds(Append(cells, cell), lines) \in CsvLines
    BY <1>1, LineEndsTyped
  <1>. QED  BY <1>1, <1>2, PlainGoes, AtIsState

LEMMA ParseCharTyped ==
    ASSUME NEW s \in CsvState, NEW c \in Character
    PROVE  ParseChar(s, c) \in CsvState
  <1>1. PICK place \in {"plain", "quoted", "quote"}, cell \in CsvCell, cells \in CsvCells, lines \in CsvLines :
            s = At(place, cell, cells, lines)
    BY StateIsAt
  <1>2. Append(cell, c) \in CsvCell
    BY DEF CsvCell
  <1>3. Plain(At("plain", cell, cells, lines), c) \in CsvState
    BY PlainTyped
  <1>4. CASE place = "plain"
    BY <1>1, <1>3, <1>4, ParseCharGoes
  <1>5. CASE place = "quoted"
    BY <1>1, <1>2, <1>5, ParseCharGoes, AtIsState
  <1>6. CASE place = "quote"
    BY <1>1, <1>2, <1>3, <1>6, ParseCharGoes, AtIsState
  <1>. QED  BY <1>4, <1>5, <1>6

ScanStarts == At("plain", <<>>, <<>>, <<>>)

\* Scanned goes character by character.
ScanStep(text) == [z \in (1..Len(text)) \X CsvState |-> ParseChar(z[2], text[z[1]])]

LEMMA ScannedIsTrace ==
    ASSUME NEW text \in CsvCell
    PROVE  \E h \in [0..Len(text) -> CsvState] :
               IsTrace(h, Len(text), ScanStarts, ScanStep(text)) /\ h[Len(text)] = Scanned(text)
  <1> DEFINE n == Len(text)
             Chosen(g) == g = [s \in SUBSET DOMAIN text |-> IF s = {} THEN ScanStarts
                                  ELSE ParseChar(g[s \ {Max(s)}], text[Max(s)])]
             G == CHOOSE g : Chosen(g)
  <1>1. Scanned(text) = G[DOMAIN text]
    BY DEF Scanned, ScanStarts, At, FoldLeft, MapThenFoldSet
  <1>2. n \in Nat /\ DOMAIN text = 1..n /\ \A i \in 1..n : text[i] \in Character
    BY DEF CsvCell
  <1>3. ScanStarts \in CsvState
    <2>. <<>> \in CsvCell /\ <<>> \in CsvCells /\ <<>> \in CsvLines
      BY DEF CsvCell, CsvCells, CsvLines
    <2>. QED  BY AtIsState DEF ScanStarts 
  <1>4. \A i \in 1..n, x \in CsvState : ScanStep(text)[<<i, x>>] = ParseChar(x, text[i])
    BY DEF ScanStep
  <1>5. Turns(n, CsvState, ScanStep(text))
    BY <1>2, <1>4, ParseCharTyped DEF Turns
  <1> HIDE DEF n, G
  <1>6. \A g \in [SUBSET (1..n) -> CsvState] : Folding(g, n, ScanStarts, ScanStep(text)) <=> Chosen(g)
    <2> SUFFICES ASSUME NEW g \in [SUBSET (1..n) -> CsvState]
                 PROVE  Folding(g, n, ScanStarts, ScanStep(text)) <=> Chosen(g)
      OBVIOUS
    <2>1. ASSUME NEW s \in SUBSET (1..n), s # {}
          PROVE  ScanStep(text)[<<Max(s), g[s \ {Max(s)}]>>] = ParseChar(g[s \ {Max(s)}], text[Max(s)])
      <3>1. Max(s) \in 1..n
        BY <1>2, <2>1, LastPosition
      <3>2. g[s \ {Max(s)}] \in CsvState
        OBVIOUS
      <3>. QED  BY <1>4, <3>1, <3>2
    <2>2. [s \in SUBSET (1..n) |-> IF s = {} THEN ScanStarts ELSE ScanStep(text)[<<Max(s), g[s \ {Max(s)}]>>]]
            = [s \in SUBSET (1..n) |-> IF s = {} THEN ScanStarts ELSE ParseChar(g[s \ {Max(s)}], text[Max(s)])]
      BY <2>1
    <2>. QED  BY <1>2, <2>2 DEF Folding
  <1>7. Folding(G, n, ScanStarts, ScanStep(text)) /\ G \in [SUBSET (1..n) -> CsvState]
    <2>1. PICK g \in [SUBSET (1..n) -> CsvState] : Folding(g, n, ScanStarts, ScanStep(text))
      BY <1>2, <1>3, <1>5, FoldsExist
    <2>2. Chosen(g)
      BY <1>6, <2>1
    <2>3. Chosen(G)
      BY <2>2 DEF G
    <2>4. G = g
      <3> DEFINE bad == {m \in 0..n : \E s \in SUBSET (1..m) : G[s] # g[s]}
      <3>8. /\ \A s \in SUBSET (1..n) : s = {} => g[s] = ScanStarts
            /\ \A s \in SUBSET (1..n) : s # {} => g[s] = ParseChar(g[s \ {Max(s)}], text[Max(s)])
        BY <1>2, <2>2, Zenon
      <3>9. /\ \A s \in SUBSET (1..n) : s = {} => G[s] = ScanStarts
            /\ \A s \in SUBSET (1..n) : s # {} => G[s] = ParseChar(G[s \ {Max(s)}], text[Max(s)])
        BY <1>2, <2>3, Zenon
      <3>10. 1..0 = {} /\ {} \in SUBSET (1..n)
        OBVIOUS
      <3> HIDE DEF Chosen
      <3>1. 0 \notin bad
        BY <3>8, <3>9, <3>10
      <3>2. ASSUME NEW m \in 1..n, m - 1 \notin bad
            PROVE  m \notin bad
        <4> SUFFICES ASSUME NEW s \in SUBSET (1..m)
                     PROVE  G[s] = g[s]
          OBVIOUS
        <4>0. n \in Nat /\ s \in SUBSET (1..n)
          BY <1>2
        <4>1. CASE s = {}
          BY <3>8, <3>9, <3>10, <4>1
        <4>2. CASE s # {}
          <5>1. Max(s) \in s /\ \A i \in s : i <= Max(s)
            BY <4>0, <4>2, LastPosition
          <5>2. s \ {Max(s)} \in SUBSET (1..(m - 1)) /\ s \ {Max(s)} \in SUBSET (1..n)
            <6> DEFINE last == Max(s)
            <6>0. last \in 1..m /\ \A i \in s : i \in 1..m /\ i \in 1..n /\ i <= last
              BY <4>0, <5>1
            <6> HIDE DEF last
            <6>1. \A k \in s \ {last} : k \in 1..(m - 1) /\ k \in 1..n
              BY <4>0, <6>0
            <6>2. s \ {last} \in SUBSET (1..(m - 1)) /\ s \ {last} \in SUBSET (1..n)
              BY <6>1
            <6>. QED  BY <6>2 DEF last
          <5>3. m - 1 \in 0..n
            BY <4>0
          <5>4. G[s \ {Max(s)}] = g[s \ {Max(s)}]
            BY <3>2, <5>2, <5>3
          <5>5. G[s] = ParseChar(G[s \ {Max(s)}], text[Max(s)])
            BY <3>9, <4>0, <4>2
          <5>6. g[s] = ParseChar(g[s \ {Max(s)}], text[Max(s)])
            BY <3>8, <4>0, <4>2
          <5>. QED  BY <5>4, <5>5, <5>6
        <4>. QED  BY <4>1, <4>2
      <3>3. bad = {}
        <4>. HIDE DEF bad
        <4>1. bad \in SUBSET (0..n)
          BY DEF bad
        <4>. QED  BY <1>2, <3>1, <3>2, <4>1, FirstBad
      <3>4. n \in 0..n
        BY <1>2
      <3>5. \A s \in SUBSET (1..n) : G[s] = g[s]
        BY <3>3, <3>4
      <3>6. g = [s \in SUBSET (1..n) |-> g[s]]
        OBVIOUS
      <3>7. G = [s \in SUBSET (1..n) |-> G[s]]
        BY <1>2, <2>3 DEF Chosen
      <3>. QED  BY <3>5, <3>6, <3>7
    <2>. QED  BY <2>1, <2>4
  <1>8. \E h \in [0..n -> CsvState] : IsTrace(h, n, ScanStarts, ScanStep(text)) /\ h[n] = G[1..n]
    BY <1>2, <1>3, <1>5, <1>7, FoldIsTrace
  <1>. QED  BY <1>1, <1>2, <1>8 DEF n

LEMMA ScannedNext ==
    /\ Scanned(<<>>) = ScanStarts
    /\ \A x \in CsvCell : Scanned(x) \in CsvState
    /\ \A x \in CsvCell, c \in Character : Scanned(Append(x, c)) = ParseChar(Scanned(x), c)
  <1>1. Scanned(<<>>) = ScanStarts
    <2>1. <<>> \in CsvCell /\ Len(<<>>) = 0
      BY DEF CsvCell
    <2>. QED  BY <2>1, ScannedIsTrace DEF IsTrace
  <1>2. ASSUME NEW x \in CsvCell PROVE Scanned(x) \in CsvState
    <2>1. Len(x) \in 0..Len(x)
      BY DEF CsvCell
    <2>. QED  BY <2>1, ScannedIsTrace
  <1>3. ASSUME NEW x \in CsvCell, NEW c \in Character
        PROVE  Scanned(Append(x, c)) = ParseChar(Scanned(x), c)
    <2> DEFINE n == Len(x)
               y == Append(x, c)
    <2>1. /\ n \in Nat /\ y \in CsvCell /\ Len(y) = n + 1
          /\ \A i \in 1..n : y[i] = x[i]
          /\ y[n + 1] = c
      BY DEF CsvCell
    <2> HIDE DEF n, y
    <2>2. PICK f \in [0..n -> CsvState] : IsTrace(f, n, ScanStarts, ScanStep(x)) /\ f[n] = Scanned(x)
      BY ScannedIsTrace DEF n
    <2>3. PICK g \in [0..n + 1 -> CsvState] :
              IsTrace(g, n + 1, ScanStarts, ScanStep(y)) /\ g[n + 1] = Scanned(y)
      BY <2>1, ScannedIsTrace
    <2>4. \A i \in 1..n, s \in CsvState : ScanStep(x)[<<i, s>>] = ParseChar(s, x[i])
      BY DEF ScanStep, n
    <2>5. \A i \in 1..n + 1, s \in CsvState : ScanStep(y)[<<i, s>>] = ParseChar(s, y[i])
      BY <2>1 DEF ScanStep
    <2> DEFINE bad == {i \in 0..n : f[i] # g[i]}
    <2>6. 0 \notin bad
      BY <2>2, <2>3 DEF IsTrace
    <2>7. ASSUME NEW i \in 1..n, i - 1 \notin bad
          PROVE  i \notin bad
      <3>1. i \in 1..n + 1 /\ i - 1 \in 0..n /\ i - 1 \in 0..n + 1
        BY <2>1
      <3>2. f[i - 1] = g[i - 1] /\ f[i - 1] \in CsvState
        BY <2>2, <2>7, <3>1
      <3>3. f[i] = ParseChar(f[i - 1], x[i])
        BY <2>2, <2>4, <3>2 DEF IsTrace
      <3>4. g[i] = ParseChar(g[i - 1], y[i])
        BY <2>3, <2>5, <3>1, <3>2 DEF IsTrace
      <3>. QED  BY <2>1, <3>2, <3>3, <3>4
    <2>8. bad = {}
      <3> HIDE DEF bad
      <3>1. bad \in SUBSET (0..n)
        BY DEF bad
      <3>. QED  BY <2>1, <2>6, <2>7, <3>1, FirstBad
    <2>9. f[n] = g[n] /\ g[n] \in CsvState
      <3>1. n \in 0..n /\ n \in 0..n + 1
        BY <2>1
      <3>. QED  BY <2>3, <2>8, <3>1
    <2>10. g[n + 1] = ParseChar(g[n], c)
      <3>1. n + 1 \in 1..n + 1 /\ (n + 1) - 1 = n
        BY <2>1
      <3>2. g[n + 1] = ScanStep(y)[<<n + 1, g[n]>>]
        BY <2>3, <3>1 DEF IsTrace
      <3>. QED  BY <2>1, <2>5, <2>9, <3>1, <3>2
    <2>. QED  BY <2>2, <2>3, <2>9, <2>10 DEF y
  <1>. QED  BY <1>1, <1>2, <1>3

\* The characters of a cell in quotes.
InQuotes(c) == IF c = Mark THEN <<Mark, Mark>> ELSE <<c>>

LEMMA InQuotesTyped ==
    ASSUME NEW c \in Character
    PROVE  InQuotes(c) \in Seq(Character)
  BY CharactersDiffer DEF InQuotes

Doubled(cell) == FlattenSeq([k \in DOMAIN cell |-> InQuotes(cell[k])])

LEMMA DoubledNext ==
    /\ Doubled(<<>>) = <<>>
    /\ \A x \in CsvCell : Doubled(x) \in CsvCell
    /\ \A x \in CsvCell, c \in Character :
          Doubled(Append(x, c)) = Doubled(x) \o InQuotes(c)
  <1> DEFINE D(x) == [k \in DOMAIN x |-> InQuotes(x[k])]
  <1>1. ASSUME NEW x \in CsvCell PROVE D(x) \in Seq(Seq(Character))
    <2>1. \A k \in 1..Len(x) : InQuotes(x[k]) \in Seq(Character)
      BY InQuotesTyped DEF CsvCell
    <2>2. DOMAIN x = 1..Len(x) /\ Len(x) \in Nat
      BY DEF CsvCell
    <2>. QED  BY <2>1, <2>2
  <1>2. D(<<>>) = <<>>
    OBVIOUS
  <1>3. ASSUME NEW x \in CsvCell, NEW c \in Character
        PROVE  D(Append(x, c)) = Append(D(x), InQuotes(c))
    <2> DEFINE y == Append(x, c)
               m == InQuotes(c)
    <2>1. /\ Len(x) \in Nat /\ y \in CsvCell /\ Len(y) = Len(x) + 1 /\ DOMAIN y = 1..Len(x) + 1
          /\ DOMAIN x = 1..Len(x)
          /\ \A i \in 1..Len(x) : y[i] = x[i]
          /\ y[Len(x) + 1] = c
      BY DEF CsvCell
    <2>2. m \in Seq(Character)
      BY InQuotesTyped
    <2> HIDE DEF y, m
    <2>3. D(x) \in Seq(Seq(Character)) /\ D(y) \in Seq(Seq(Character))
      BY <1>1, <2>1
    <2>4. Len(D(x)) = Len(x) /\ Len(D(y)) = Len(x) + 1
      BY <2>1, <2>3
    <2>5. \A i \in 1..Len(x) : D(y)[i] = D(x)[i]
      BY <2>1
    <2>6. D(y)[Len(x) + 1] = m
      BY <2>1 DEF m
    <2> HIDE DEF D
    <2>7. D(y) = Append(D(x), D(y)[Len(x) + 1])
      BY <2>3, <2>4, <2>5, OneMore
    <2>. QED  BY <2>6, <2>7 DEF y, m
  <1>4. \A x : Doubled(x) = FlattenSeq(D(x))
    BY DEF Doubled
  <1>5. \A c \in Character : InQuotes(c) \in Seq(Character)
    BY InQuotesTyped
  <1> HIDE DEF D
  <1>6. Doubled(<<>>) = <<>>
    BY <1>2, <1>4, FlatNone
  <1>7. ASSUME NEW x \in CsvCell PROVE Doubled(x) \in CsvCell
    BY <1>1, <1>4, FlatTyped DEF CsvCell
  <1>8. ASSUME NEW x \in CsvCell, NEW c \in Character
        PROVE  Doubled(Append(x, c)) = Doubled(x) \o InQuotes(c)
    BY <1>1, <1>3, <1>4, <1>5, FlatNext
  <1>. QED  BY <1>6, <1>7, <1>8

NeedsQuotes(cell) == ToSet(cell) \cap {Comma, Mark, NewLine, Return} # {}

LEMMA EscapeFieldIs ==
    ASSUME NEW cell
    PROVE  EscapeField(cell) = IF NeedsQuotes(cell) THEN <<Mark>> \o Doubled(cell) \o <<Mark>> ELSE cell
  BY DEF EscapeField, NeedsQuotes, Doubled, InQuotes

LEMMA EscapeFieldTyped ==
    ASSUME NEW cell \in CsvCell
    PROVE  EscapeField(cell) \in CsvCell
  <1>1. Mark \in Character /\ Doubled(cell) \in CsvCell
    BY CharactersDiffer, DoubledNext
  <1>2. <<Mark>> \o Doubled(cell) \o <<Mark>> \in CsvCell
    BY <1>1 DEF CsvCell
  <1>. QED  BY <1>2, EscapeFieldIs

----------------------------------------------------------------------------
(* The states the reader goes through *)

LEMMA LongerText ==
    ASSUME NEW x \in CsvCell, NEW y \in CsvCell, NEW c \in Character
    PROVE  /\ x \o <<c>> = Append(x, c) /\ x \o Append(y, c) = Append(x \o y, c)
           /\ x \o y \in CsvCell /\ Append(x, c) \in CsvCell /\ x \o <<>> = x /\ <<>> \o x = x
           /\ y \o <<c>> = Append(y, c)
  <1>1. /\ x \o <<c>> = Append(x, c) /\ x \o Append(y, c) = Append(x \o y, c)
        /\ x \o y \in CsvCell /\ Append(x, c) \in CsvCell /\ x \o <<>> = x /\ <<>> \o x = x
        /\ y \o <<c>> = Append(y, c)
    BY DEF CsvCell
  <1>. QED  BY <1>1

LEMMA ScannedLonger ==
    ASSUME NEW x \in CsvCell, NEW y \in CsvCell, NEW c \in Character
    PROVE  /\ Scanned(x \o <<c>>) = ParseChar(Scanned(x), c)
           /\ Scanned(x \o Append(y, c)) = ParseChar(Scanned(x \o y), c)
           /\ Scanned(x \o (y \o <<c>>)) = ParseChar(Scanned(x \o y), c)
  <1>1. Scanned(Append(x, c)) = ParseChar(Scanned(x), c)
    BY ScannedNext
  <1>2. Scanned(Append(x \o y, c)) = ParseChar(Scanned(x \o y), c)
    BY LongerText, ScannedNext
  <1>3. /\ x \o <<c>> = Append(x, c) /\ x \o Append(y, c) = Append(x \o y, c)
        /\ y \o <<c>> = Append(y, c)
    BY LongerText
  <1>. QED  BY <1>1, <1>2, <1>3

\* While y is read after x, the reader's state is in S.
Within(x, y, S) == \A i \in 0..Len(y) : Scanned(x \o SubSeq(y, 1, i)) \in S

LEMMA WithinLarger ==
    ASSUME NEW x, NEW y, NEW S, NEW T, S \subseteq T, Within(x, y, S)
    PROVE  Within(x, y, T)
  BY DEF Within

LEMMA WithinNone ==
    ASSUME NEW x \in CsvCell, NEW S, Scanned(x) \in S
    PROVE  Within(x, <<>>, S)
  <1>1. \A i \in 0..Len(<<>>) : x \o SubSeq(<<>>, 1, i) = x
    BY DEF CsvCell
  <1>. QED  BY <1>1 DEF Within

LEMMA WithinConcat ==
    ASSUME NEW x \in CsvCell, NEW y \in CsvCell, NEW z \in CsvCell, NEW S,
           Within(x, y, S), Within(x \o y, z, S)
    PROVE  Within(x, y \o z, S)
  <1>1. /\ Len(y) \in Nat /\ Len(z) \in Nat /\ Len(y \o z) = Len(y) + Len(z)
        /\ x \in Seq(Character) /\ y \in Seq(Character) /\ z \in Seq(Character)
        /\ y \o z \in Seq(Character)
    BY DEF CsvCell
  <1> SUFFICES ASSUME NEW i \in 0..Len(y) + Len(z)
               PROVE  Scanned(x \o SubSeq(y \o z, 1, i)) \in S
    BY <1>1 DEF Within
  <1>2. CASE i <= Len(y)
    <2>1. SubSeq(y \o z, 1, i) = SubSeq(y, 1, i)
      <3>1. /\ SubSeq(y \o z, 1, i) \in Seq(Character) /\ SubSeq(y, 1, i) \in Seq(Character)
            /\ Len(SubSeq(y \o z, 1, i)) = i /\ Len(SubSeq(y, 1, i)) = i
            /\ \A k \in 1..i : SubSeq(y \o z, 1, i)[k] = (y \o z)[k]
            /\ \A k \in 1..i : SubSeq(y, 1, i)[k] = y[k]
            /\ \A k \in 1..i : (y \o z)[k] = y[k]
        BY <1>1, <1>2
      <3>. QED  BY <3>1, SeqEqual
    <2>2. i \in 0..Len(y)
      BY <1>1, <1>2
    <2>. QED  BY <2>1, <2>2 DEF Within
  <1>3. CASE i > Len(y)
    <2> DEFINE j == i - Len(y)
    <2>1. j \in 0..Len(z) /\ i = Len(y) + j /\ j > 0
      BY <1>1, <1>3
    <2>2. SubSeq(y \o z, 1, i) = y \o SubSeq(z, 1, j)
      <3>1. /\ SubSeq(y \o z, 1, i) \in Seq(Character) /\ SubSeq(z, 1, j) \in Seq(Character)
            /\ Len(SubSeq(y \o z, 1, i)) = i /\ Len(SubSeq(z, 1, j)) = j
            /\ \A k \in 1..i : SubSeq(y \o z, 1, i)[k] = (y \o z)[k]
            /\ \A k \in 1..j : SubSeq(z, 1, j)[k] = z[k]
        BY <1>1, <2>1
      <3>2. y \o SubSeq(z, 1, j) \in Seq(Character) /\ Len(y \o SubSeq(z, 1, j)) = i
        BY <1>1, <2>1, <3>1
      <3>3. ASSUME NEW k \in 1..i
            PROVE  SubSeq(y \o z, 1, i)[k] = (y \o SubSeq(z, 1, j))[k]
        <4>1. CASE k <= Len(y)
          <5>1. (y \o z)[k] = y[k]
            BY <1>1, <4>1
          <5>2. (y \o SubSeq(z, 1, j))[k] = y[k]
            BY <1>1, <3>1, <4>1
          <5>. QED  BY <3>1, <5>1, <5>2
        <4>2. CASE k > Len(y)
          <5>0. k - Len(y) \in 1..j /\ k - Len(y) \in 1..Len(z)
            BY <1>1, <2>1, <4>2
          <5>1. (y \o z)[k] = z[k - Len(y)]
            BY <1>1, <4>2, <5>0
          <5>2. (y \o SubSeq(z, 1, j))[k] = SubSeq(z, 1, j)[k - Len(y)]
            BY <1>1, <3>1, <4>2, <5>0
          <5>. QED  BY <3>1, <5>0, <5>1, <5>2
        <4>. QED  BY <1>1, <4>1, <4>2, SMTT(30)
      <3>. QED  BY <3>1, <3>2, <3>3, SeqEqual
    <2>3. SubSeq(z, 1, j) \in Seq(Character)
      BY <1>1, <2>1
    <2>4. x \o SubSeq(y \o z, 1, i) = (x \o y) \o SubSeq(z, 1, j)
      <3> DEFINE w == SubSeq(z, 1, j)
      <3> HIDE DEF w
      <3>1. w \in Seq(Character)
        BY <2>3 DEF w
      <3>2. x \o (y \o w) = (x \o y) \o w
        BY <1>1, <3>1
      <3>. QED  BY <2>2, <3>2 DEF w
    <2>. QED  BY <2>1, <2>4 DEF Within
  <1>. QED  BY <1>1, <1>2, <1>3

LEMMA WithinOne ==
    ASSUME NEW x \in CsvCell, NEW c \in Character, NEW S, Scanned(x) \in S,
           ParseChar(Scanned(x), c) \in S
    PROVE  Within(x, <<c>>, S)
  <1>0. <<c>> \in Seq(Character)
    OBVIOUS
  <1>1. Len(<<c>>) = 1 /\ SubSeq(<<c>>, 1, 0) = <<>> /\ SubSeq(<<c>>, 1, 1) = <<c>>
    <2>1. Len(<<c>>) = 1
      OBVIOUS
    <2>2. SubSeq(<<c>>, 1, 0) = <<>>
      OBVIOUS
    <2>3. SubSeq(<<c>>, 1, 1) = <<c>>
      BY <1>0, <2>1, SubSeqFull
    <2>. QED  BY <2>1, <2>2, <2>3
  <1>2. <<>> \in CsvCell
    BY DEF CsvCell
  <1>3. Scanned(x \o <<>>) \in S /\ Scanned(x \o <<c>>) \in S
    BY <1>2, LongerText, ScannedLonger
  <1>4. \A i \in 0..1 : i = 0 \/ i = 1
    OBVIOUS
  <1>. QED  BY <1>1, <1>3, <1>4 DEF Within

\* A character more.
LEMMA WithinNext ==
    ASSUME NEW x \in CsvCell, NEW y \in CsvCell, NEW c \in Character, NEW S,
           Within(x, y, S), ParseChar(Scanned(x \o y), c) \in S
    PROVE  Within(x, y \o <<c>>, S)
  <1>1. /\ x \o y \in CsvCell /\ <<c>> \in CsvCell
    BY DEF CsvCell
  <1>2. Scanned(x \o y) \in S
    <2>1. Len(y) \in 0..Len(y) /\ SubSeq(y, 1, Len(y)) = y
      BY DEF CsvCell
    <2>. QED  BY <2>1 DEF Within
  <1>3. Within(x \o y, <<c>>, S)
    BY <1>1, <1>2, WithinOne
  <1>. QED  BY <1>1, <1>3, WithinConcat

----------------------------------------------------------------------------
(* A cell, written and read *)

Beginnings(cell) == {SubSeq(cell, 1, i) : i \in 0..Len(cell)}

\* The states in which a part of a cell has been read.
MidCell(cell, cells, lines) ==
    {At(place, part, cells, lines) : place \in {"plain", "quoted", "quote"}, part \in Beginnings(cell)}

LEMMA InMidCell ==
    ASSUME NEW cell, NEW cells, NEW lines, NEW place \in {"plain", "quoted", "quote"},
           NEW i \in 0..Len(cell)
    PROVE  At(place, SubSeq(cell, 1, i), cells, lines) \in MidCell(cell, cells, lines)
  <1>1. SubSeq(cell, 1, i) \in Beginnings(cell)
    BY DEF Beginnings
  <1>. QED  BY <1>1 DEF MidCell

LEMMA EndsOfCell ==
    ASSUME NEW cell \in CsvCell
    PROVE  /\ Len(cell) \in Nat /\ 0 \in 0..Len(cell) /\ Len(cell) \in 0..Len(cell)
           /\ SubSeq(cell, 1, 0) = <<>> /\ SubSeq(cell, 1, Len(cell)) = cell
  BY DEF CsvCell

\* A cell that needs no quotes.
LEMMA PlainCellRead ==
    ASSUME NEW x \in CsvCell, NEW cells \in CsvCells, NEW lines \in CsvLines,
           Scanned(x) = At("plain", <<>>, cells, lines),
           NEW cell \in CsvCell, ~NeedsQuotes(cell)
    PROVE  /\ Scanned(x \o cell) = At("plain", cell, cells, lines)
           /\ Within(x, cell, MidCell(cell, cells, lines))
  <1> DEFINE n == Len(cell)
             bad == {i \in 0..n : Scanned(x \o SubSeq(cell, 1, i)) # At("plain", SubSeq(cell, 1, i), cells, lines)}
  <1>1. 0 \notin bad
    BY EndsOfCell, LongerText, CharactersDiffer
  <1>2. ASSUME NEW i \in 1..n, i - 1 \notin bad
        PROVE  i \notin bad
    <2> DEFINE y == SubSeq(cell, 1, i - 1)
               c == cell[i]
    <2>1. /\ SubSeq(cell, 1, i) = Append(y, c) /\ c \in Character /\ y \in CsvCell
      BY LongerPrefix DEF CsvCell
    <2>2. i - 1 \in 0..n
      BY EndsOfCell
    <2>3. Scanned(x \o y) = At("plain", y, cells, lines)
      BY <1>2, <2>2
    <2>4. c \notin {Mark, Comma, NewLine, Return}
      <3>1. i \in DOMAIN cell
        BY DEF CsvCell
      <3>2. cell[i] \in ToSet(cell)
        BY <3>1 DEF ToSet
      <3>. QED  BY <3>2 DEF NeedsQuotes
    <2> HIDE DEF y, c, bad
    <2>5. Scanned(x \o Append(y, c)) = ParseChar(At("plain", y, cells, lines), c)
      <3>1. Scanned(x \o Append(y, c)) = ParseChar(Scanned(x \o y), c)
        BY <2>1, ScannedLonger
      <3>. QED  BY <2>3, <3>1
    <2>6. ParseChar(At("plain", y, cells, lines), c) = At("plain", Append(y, c), cells, lines)
      BY <2>4, PlainGoes, ParseCharGoes
    <2>. QED  BY <2>1, <2>5, <2>6 DEF bad
  <1>3. bad = {}
    <2> HIDE DEF bad
    <2>1. bad \in SUBSET (0..n)
      BY DEF bad
    <2>. QED  BY <1>1, <1>2, <2>1, EndsOfCell, FirstBad
  <1>4. \A i \in 0..n : Scanned(x \o SubSeq(cell, 1, i)) = At("plain", SubSeq(cell, 1, i), cells, lines)
    BY <1>3
  <1>5. \A i \in 0..n : At("plain", SubSeq(cell, 1, i), cells, lines) \in MidCell(cell, cells, lines)
    BY InMidCell
  <1>. QED  BY <1>4, <1>5, EndsOfCell DEF Within

\* What is between the quotes of a cell.
LEMMA QuotedCellRead ==
    ASSUME NEW x \in CsvCell, NEW cells \in CsvCells, NEW lines \in CsvLines,
           Scanned(x) = At("quoted", <<>>, cells, lines), NEW cell \in CsvCell
    PROVE  /\ Scanned(x \o Doubled(cell)) = At("quoted", cell, cells, lines)
           /\ Within(x, Doubled(cell), MidCell(cell, cells, lines))
  <1> DEFINE n == Len(cell)
             S == MidCell(cell, cells, lines)
             Part(i) == SubSeq(cell, 1, i)
             Good(i) == /\ Scanned(x \o Doubled(Part(i))) = At("quoted", Part(i), cells, lines)
                        /\ Within(x, Doubled(Part(i)), S)
             bad == {i \in 0..n : ~Good(i)}
  <1>0. Mark \in Character /\ n \in Nat
    BY CharactersDiffer, EndsOfCell
  <1>1. 0 \notin bad
    <2>1. Part(0) = <<>> /\ Doubled(<<>>) = <<>> /\ x \o <<>> = x
      BY <1>0, EndsOfCell, DoubledNext, LongerText
    <2>2. At("quoted", Part(0), cells, lines) \in S
      BY EndsOfCell, InMidCell
    <2> HIDE DEF Part, S
    <2>3. Within(x, <<>>, S)
      BY <2>1, <2>2, WithinNone
    <2>. QED  BY <2>1, <2>3
  <1>2. ASSUME NEW i \in 1..n, i - 1 \notin bad
        PROVE  i \notin bad
    <2> DEFINE c == cell[i]
               y == Part(i - 1)
               d == Doubled(y)
    <2>1. /\ Part(i) = Append(y, c) /\ c \in Character /\ y \in CsvCell
      BY LongerPrefix DEF CsvCell
    <2>2. i - 1 \in 0..n /\ i \in 0..n
      BY <1>0
    <2>3. Good(i - 1)
      BY <1>2, <2>2
    <2>4. /\ \A place \in {"plain", "quoted", "quote"} : At(place, y, cells, lines) \in S
          /\ \A place \in {"plain", "quoted", "quote"} : At(place, Append(y, c), cells, lines) \in S
      BY <2>1, <2>2, InMidCell
    <2> HIDE DEF Part, S
    <2>5. Scanned(x \o d) = At("quoted", y, cells, lines) /\ Within(x, d, S)
      BY <2>3
    <2>6. d \in CsvCell /\ Doubled(Append(y, c)) = d \o InQuotes(c) /\ x \o d \in CsvCell
      BY <2>1, DoubledNext, LongerText
    <2> SUFFICES /\ Scanned(x \o (d \o InQuotes(c))) = At("quoted", Append(y, c), cells, lines)
                 /\ Within(x, d \o InQuotes(c), S)
      BY <2>1, <2>6
    <2> HIDE DEF c, d, y
    <2>7. CASE c # Mark
      <3>1. InQuotes(c) = <<c>>
        BY <2>7 DEF InQuotes
      <3>2. ParseChar(At("quoted", y, cells, lines), c) = At("quoted", Append(y, c), cells, lines)
        BY <2>7, ParseCharGoes
      <3>3. Scanned(x \o (d \o <<c>>)) = ParseChar(Scanned(x \o d), c)
        BY <2>1, <2>6, ScannedLonger
      <3>4. Within(x, d \o <<c>>, S)
        BY <2>1, <2>4, <2>5, <2>6, <3>2, WithinNext
      <3>. QED  BY <2>5, <3>1, <3>2, <3>3, <3>4
    <2>8. CASE c = Mark
      <3> DEFINE e == d \o <<Mark>>
      <3>1. InQuotes(c) = <<Mark, Mark>> /\ d \o <<Mark, Mark>> = e \o <<Mark>> /\ e \in CsvCell
        BY <1>0, <2>6, <2>8 DEF InQuotes, CsvCell
      <3>2. /\ ParseChar(At("quoted", y, cells, lines), Mark) = At("quote", y, cells, lines)
            /\ ParseChar(At("quote", y, cells, lines), Mark) = At("quoted", Append(y, Mark), cells, lines)
        BY ParseCharGoes
      <3>3. Scanned(x \o e) = At("quote", y, cells, lines)
        BY <1>0, <2>5, <2>6, <3>2, ScannedLonger
      <3>4. Within(x, e, S)
        BY <1>0, <2>4, <2>5, <2>6, <3>2, WithinNext
      <3> HIDE DEF e
      <3>5. Scanned(x \o (e \o <<Mark>>)) = At("quoted", Append(y, Mark), cells, lines)
        BY <1>0, <3>1, <3>2, <3>3, ScannedLonger
      <3>6. Within(x, e \o <<Mark>>, S)
        BY <1>0, <2>4, <2>8, <3>1, <3>2, <3>3, <3>4, WithinNext
      <3>. QED  BY <2>8, <3>1, <3>5, <3>6
    <2>. QED  BY <2>7, <2>8
  <1>3. bad = {}
    <2> HIDE DEF bad
    <2>1. bad \in SUBSET (0..n)
      BY DEF bad
    <2>. QED  BY <1>0, <1>1, <1>2, <2>1, FirstBad
  <1>4. Good(n)
    BY <1>0, <1>3
  <1>5. Part(n) = cell
    BY EndsOfCell
  <1>. QED  BY <1>4, <1>5

\* A cell, as it is written.
LEMMA CellRead ==
    ASSUME NEW x \in CsvCell, NEW cells \in CsvCells, NEW lines \in CsvLines,
           Scanned(x) = At("plain", <<>>, cells, lines), NEW cell \in CsvCell
    PROVE  /\ \E place \in {"plain", "quote"} :
                 Scanned(x \o EscapeField(cell)) = At(place, cell, cells, lines)
           /\ Within(x, EscapeField(cell), MidCell(cell, cells, lines))
  <1>1. CASE ~NeedsQuotes(cell)
    <2>1. EscapeField(cell) = cell
      BY <1>1, EscapeFieldIs
    <2>. QED  BY <1>1, <2>1, PlainCellRead
  <1>2. CASE NeedsQuotes(cell)
    <2> DEFINE S == MidCell(cell, cells, lines)
               m == <<Mark>>
               d == Doubled(cell)
               y == x \o m
    <2>1. EscapeField(cell) = (m \o d) \o m
      <3>1. d \in Seq(Character) /\ m \in Seq(Character)
        BY CharactersDiffer, DoubledNext DEF CsvCell
      <3>2. m \o d \o m = (m \o d) \o m
        BY <3>1
      <3>. QED  BY <1>2, <3>2, EscapeFieldIs
    <2>2. d \in CsvCell /\ m \in CsvCell /\ Mark \in Character /\ y \in CsvCell /\ m \o d \in CsvCell
      <3>1. d \in Seq(Character) /\ Mark \in Character
        BY CharactersDiffer, DoubledNext DEF CsvCell
      <3>. QED  BY <3>1 DEF CsvCell
    <2>3. /\ \A place \in {"plain", "quoted", "quote"} : At(place, <<>>, cells, lines) \in S
          /\ \A place \in {"plain", "quoted", "quote"} : At(place, cell, cells, lines) \in S
      BY EndsOfCell, InMidCell
    <2>4. ParseChar(At("plain", <<>>, cells, lines), Mark) = At("quoted", <<>>, cells, lines)
      BY ParseCharGoes, PlainGoes
    <2>5. ParseChar(At("quoted", cell, cells, lines), Mark) = At("quote", cell, cells, lines)
      BY ParseCharGoes
    <2>6. Scanned(y) = At("quoted", <<>>, cells, lines)
      BY <2>2, <2>4, ScannedLonger
    <2>7. Within(x, m, S)
      <3> HIDE DEF S
      <3>. QED  BY <2>2, <2>3, <2>4, WithinOne
    <2>8. Scanned(y \o d) = At("quoted", cell, cells, lines) /\ Within(y, d, S)
      <3> HIDE DEF y, d
      <3>. QED  BY <2>2, <2>6, QuotedCellRead DEF d
    <2> HIDE DEF S, d
    <2>9. Within(x, m \o d, S)
      BY <2>2, <2>7, <2>8, WithinConcat
    <2>10. x \o (m \o d) = y \o d
      BY <2>2 DEF CsvCell
    <2> HIDE DEF y
    <2>11. Scanned(x \o (m \o d)) = At("quoted", cell, cells, lines)
      BY <2>8, <2>10
    <2> DEFINE e == m \o d
    <2> HIDE DEF e
    <2>12. e \in CsvCell /\ Scanned(x \o e) = At("quoted", cell, cells, lines) /\ Within(x, e, S)
      BY <2>2, <2>9, <2>11 DEF e
    <2>13. Scanned(x \o (e \o <<Mark>>)) = At("quote", cell, cells, lines)
      BY <2>2, <2>5, <2>12, ScannedLonger
    <2>14. Within(x, e \o <<Mark>>, S)
      BY <2>2, <2>3, <2>5, <2>12, WithinNext
    <2>. QED  BY <2>1, <2>13, <2>14 DEF e, S
  <1>. QED  BY <1>1, <1>2

----------------------------------------------------------------------------
(* A line, written and read *)

\* The fields of a line, without its end.
Field(first, cell) == (IF first THEN <<>> ELSE <<Comma>>) \o EscapeField(cell)
LineText(cells) == FlattenSeq([k \in DOMAIN cells |-> Field(k = 1, cells[k])])

LEMMA FieldTyped ==
    ASSUME NEW first \in BOOLEAN, NEW cell \in CsvCell
    PROVE  Field(first, cell) \in CsvCell
  <1>1. EscapeField(cell) \in Seq(Character) /\ Comma \in Character
    BY EscapeFieldTyped, CharactersDiffer DEF CsvCell
  <1>. QED  BY <1>1 DEF Field, CsvCell

LEMMA CsvLineIs ==
    ASSUME NEW cells
    PROVE  CsvLine(cells) = LineText(cells) \o <<NewLine>>
  BY DEF CsvLine, LineText, Field

LEMMA LineTextNext ==
    /\ LineText(<<>>) = <<>>
    /\ \A cells \in CsvCells : LineText(cells) \in CsvCell
    /\ \A cells \in CsvCells, c \in CsvCell :
          LineText(Append(cells, c)) = LineText(cells) \o Field(cells = <<>>, c)
  <1> DEFINE D(x) == [k \in DOMAIN x |-> Field(k = 1, x[k])]
  <1>1. ASSUME NEW x \in CsvCells PROVE D(x) \in Seq(Seq(Character))
    <2>1. \A k \in 1..Len(x) : Field(k = 1, x[k]) \in Seq(Character)
      <3>1. \A k \in 1..Len(x) : x[k] \in CsvCell
        BY DEF CsvCells
      <3>. QED  BY <3>1, FieldTyped DEF CsvCell
    <2>2. DOMAIN x = 1..Len(x) /\ Len(x) \in Nat
      BY DEF CsvCells
    <2>. QED  BY <2>1, <2>2
  <1>2. D(<<>>) = <<>>
    OBVIOUS
  <1>3. ASSUME NEW x \in CsvCells, NEW c \in CsvCell
        PROVE  D(Append(x, c)) = Append(D(x), Field(x = <<>>, c))
    <2> DEFINE y == Append(x, c)
               m == Field(x = <<>>, c)
    <2>1. /\ Len(x) \in Nat /\ y \in CsvCells /\ Len(y) = Len(x) + 1 /\ DOMAIN y = 1..Len(x) + 1
          /\ DOMAIN x = 1..Len(x)
          /\ \A i \in 1..Len(x) : y[i] = x[i]
          /\ y[Len(x) + 1] = c
          /\ (x = <<>>) = (Len(x) + 1 = 1)
      BY DEF CsvCells
    <2>2. m \in Seq(Character)
      BY FieldTyped DEF CsvCell
    <2>6. D(y)[Len(x) + 1] = m
      <3>1. Len(x) + 1 \in DOMAIN y /\ Field(Len(x) + 1 = 1, c) = m
        BY <2>1
      <3>. QED  BY <2>1, <3>1
    <2> HIDE DEF y, m
    <2>3. D(x) \in Seq(Seq(Character)) /\ D(y) \in Seq(Seq(Character))
      BY <1>1, <2>1
    <2>4. Len(D(x)) = Len(x) /\ Len(D(y)) = Len(x) + 1
      BY <2>1, <2>3
    <2>5. \A i \in 1..Len(x) : D(y)[i] = D(x)[i]
      BY <2>1
    <2> HIDE DEF D
    <2>7. D(y) = Append(D(x), D(y)[Len(x) + 1])
      BY <2>3, <2>4, <2>5, OneMore
    <2>. QED  BY <2>6, <2>7 DEF y, m
  <1>4. \A x : LineText(x) = FlattenSeq(D(x))
    BY DEF LineText
  <1> HIDE DEF D
  <1>6. LineText(<<>>) = <<>>
    BY <1>2, <1>4, FlatNone
  <1>7. ASSUME NEW x \in CsvCells PROVE LineText(x) \in CsvCell
    BY <1>1, <1>4, FlatTyped DEF CsvCell
  <1>8. ASSUME NEW x \in CsvCells, NEW c \in CsvCell
        PROVE  LineText(Append(x, c)) = LineText(x) \o Field(x = <<>>, c)
    <2> DEFINE m == Field(x = <<>>, c)
    <2>1. m \in Seq(Character)
      BY FieldTyped DEF CsvCell
    <2>2. D(Append(x, c)) = Append(D(x), m) /\ D(x) \in Seq(Seq(Character))
      BY <1>1, <1>3
    <2> HIDE DEF m
    <2>3. FlattenSeq(Append(D(x), m)) = FlattenSeq(D(x)) \o m
      BY <2>1, <2>2, FlatNext
    <2>. QED  BY <1>4, <2>2, <2>3 DEF m
  <1>. QED  BY <1>6, <1>7, <1>8

\* The states in which a part of a line has been read.
MidLine(line, lines) ==
    UNION {MidCell(line[j], SubSeq(line, 1, j - 1), lines) : j \in 1..Len(line)}

\* The fields of a line.
LEMMA LineTextRead ==
    ASSUME NEW x \in CsvCell, NEW lines \in CsvLines, Scanned(x) = At("plain", <<>>, <<>>, lines),
           NEW line \in CsvCells, line # <<>>
    PROVE  /\ \E place \in {"plain", "quote"} :
                 Scanned(x \o LineText(line))
                     = At(place, line[Len(line)], SubSeq(line, 1, Len(line) - 1), lines)
           /\ Within(x, LineText(line), MidLine(line, lines))
  <1> DEFINE n == Len(line)
             S == MidLine(line, lines)
             Text(j) == LineText(SubSeq(line, 1, j))
             Good(j) == /\ \E place \in {"plain", "quote"} :
                              Scanned(x \o Text(j)) = At(place, line[j], SubSeq(line, 1, j - 1), lines)
                        /\ Within(x, Text(j), S)
             bad == {j \in 0..n : j # 0 /\ ~Good(j)}
  <1>0. /\ n \in Nat \ {0} /\ SubSeq(line, 1, n) = line /\ <<>> \in CsvCell
        /\ \A j \in 1..n : line[j] \in CsvCell
    BY DEF CsvCells, CsvCell
  <1>1. \A j \in 1..n : MidCell(line[j], SubSeq(line, 1, j - 1), lines) \subseteq S
    BY DEF MidLine
  <1>2. 0 \notin bad
    OBVIOUS
  <1>3. ASSUME NEW j \in 1..n, j - 1 \notin bad
        PROVE  j \notin bad
    <2> DEFINE c == line[j]
               before == SubSeq(line, 1, j - 1)
               T == MidCell(c, before, lines)
               t == Text(j - 1)
    <2>1. /\ SubSeq(line, 1, j) = Append(before, c) /\ c \in CsvCell /\ before \in CsvCells
          /\ Len(before) = j - 1 /\ (j = 1 <=> before = <<>>)
      <3>1. /\ SubSeq(line, 1, j) = Append(before, c) /\ c \in CsvCell /\ before \in CsvCells
        BY LongerPrefix DEF CsvCells
      <3>2. Len(before) = j - 1
        BY <1>0 DEF CsvCells
      <3>. QED  BY <3>1, <3>2 DEF CsvCells
    <2>2. T \subseteq S
      BY <1>1
    <2>3. t = LineText(before) /\ t \in CsvCell /\ Text(j) = t \o Field(j = 1, c)
      <3>1. t = LineText(before) /\ Text(j) = LineText(Append(before, c))
        BY <2>1
      <3>2. LineText(Append(before, c)) = LineText(before) \o Field(before = <<>>, c)
        BY <2>1, LineTextNext
      <3>3. (before = <<>>) = (j = 1)
        BY <2>1
      <3>. QED  BY <2>1, <3>1, <3>2, <3>3, LineTextNext
    <2>4. At("plain", <<>>, before, lines) \in T
      <3>1. 0 \in 0..Len(c) /\ SubSeq(c, 1, 0) = <<>>
        BY <2>1, EndsOfCell
      <3>. QED  BY <3>1, InMidCell
    <2> DEFINE sep == IF j = 1 THEN <<>> ELSE <<Comma>>
               u == t \o sep
    <2>5. /\ u \in CsvCell /\ Scanned(x \o u) = At("plain", <<>>, before, lines)
          /\ Within(x, u, S)
      <3> HIDE DEF T, S, c
      <3>1. CASE j = 1
        <4>1. before = <<>> /\ t = <<>> /\ u = <<>>
          <5>1. before = <<>> /\ sep = <<>>
            BY <2>1, <3>1
          <5>2. LineText(before) = <<>>
            BY <5>1, LineTextNext
          <5>3. t = <<>>
            BY <2>3, <5>2
          <5>. QED  BY <5>1, <5>3
        <4>2. x \o <<>> = x
          BY DEF CsvCell
        <4>3. Within(x, <<>>, S)
          BY <2>2, <2>4, <4>1, WithinNone
        <4>. QED  BY <1>0, <4>1, <4>2, <4>3
      <3>2. CASE j # 1
        <4>0. j - 1 \in 1..n /\ j - 1 \in 0..n
          BY <1>0, <3>2
        <4>1. Good(j - 1)
          BY <1>3, <4>0
        <4> DEFINE p == line[j - 1]
                   earlier == SubSeq(line, 1, (j - 1) - 1)
        <4>2. before = Append(earlier, p)
          <5>1. line \in Seq(CsvCell)
            BY DEF CsvCells
          <5>. QED  BY <4>0, <5>1, LongerPrefix
        <4>3. PICK place \in {"plain", "quote"} : Scanned(x \o t) = At(place, p, earlier, lines)
          BY <4>1
        <4>4. Within(x, t, S)
          BY <4>1
        <4> HIDE DEF p, earlier, Good, t, before
        <4>5. ParseChar(At(place, p, earlier, lines), Comma) = At("plain", <<>>, before, lines)
          <5>1. ParseChar(At(place, p, earlier, lines), Comma) = Plain(At("plain", p, earlier, lines), Comma)
            BY CharactersDiffer, ParseCharGoes
          <5>2. Plain(At("plain", p, earlier, lines), Comma) = At("plain", <<>>, Append(earlier, p), lines)
            BY PlainGoes
          <5>3. before = Append(earlier, p)
            BY <4>2
          <5>. QED  BY <5>1, <5>2, <5>3
        <4>6. Comma \in Character /\ sep = <<Comma>>
          BY <3>2, CharactersDiffer
        <4>7. Scanned(x \o (t \o <<Comma>>)) = At("plain", <<>>, before, lines)
          BY <2>3, <4>3, <4>5, <4>6, ScannedLonger
        <4>8. At("plain", <<>>, before, lines) \in S
          BY <2>2, <2>4
        <4>9. Within(x, t \o <<Comma>>, S)
          BY <2>3, <4>3, <4>4, <4>5, <4>6, <4>8, WithinNext
        <4>10. t \o <<Comma>> \in CsvCell
          BY <2>3, <4>6 DEF CsvCell
        <4>. QED  BY <4>6, <4>7, <4>9, <4>10
      <3>. QED  BY <3>1, <3>2
    <2>6. /\ EscapeField(c) \in CsvCell /\ Text(j) = u \o EscapeField(c)
          /\ x \o Text(j) = (x \o u) \o EscapeField(c) /\ x \o u \in CsvCell
      <3> HIDE DEF Text, c
      <3>1. EscapeField(c) \in Seq(Character) /\ sep \in Seq(Character) /\ t \in Seq(Character)
        BY <2>1, <2>3, EscapeFieldTyped, CharactersDiffer DEF CsvCell
      <3>2. Field(j = 1, c) = sep \o EscapeField(c)
        BY DEF Field
      <3> HIDE DEF sep, t
      <3>3. t \o (sep \o EscapeField(c)) = (t \o sep) \o EscapeField(c)
        BY <3>1, SMTT(30)
      <3>4. Text(j) = u \o EscapeField(c)
        BY <2>3, <3>2, <3>3 DEF t
      <3> HIDE DEF u
      <3>5. u \in Seq(Character) /\ x \in Seq(Character)
        BY <2>5 DEF CsvCell
      <3>6. x \o (u \o EscapeField(c)) = (x \o u) \o EscapeField(c) /\ x \o u \in Seq(Character)
        BY <3>1, <3>5, SMTT(30)
      <3>. QED  BY <3>1, <3>4, <3>6 DEF CsvCell
    <2> HIDE DEF u, t, Text, before, c, T, S
    <2>7. /\ \E place \in {"plain", "quote"} :
                 Scanned((x \o u) \o EscapeField(c)) = At(place, c, before, lines)
          /\ Within(x \o u, EscapeField(c), T)
      BY <2>1, <2>5, <2>6, CellRead DEF T
    <2>8. Within(x \o u, EscapeField(c), S)
      BY <2>2, <2>7, WithinLarger
    <2>9. Within(x, Text(j), S)
      BY <2>5, <2>6, <2>8, WithinConcat
    <2>10. Good(j)
      BY <2>6, <2>7, <2>9 DEF c, before
    <2>. QED  BY <2>10
  <1>4. bad = {}
    <2> HIDE DEF bad
    <2>1. bad \in SUBSET (0..n)
      BY DEF bad
    <2>. QED  BY <1>0, <1>2, <1>3, <2>1, FirstBad
  <1>5. Good(n)
    <2>1. n \in 0..n /\ n # 0
      BY <1>0
    <2>. QED  BY <1>4, <2>1
  <1>. QED  BY <1>0, <1>5

\* A whole line.
LEMMA CsvLineRead ==
    ASSUME NEW x \in CsvCell, NEW lines \in CsvLines, Scanned(x) = At("plain", <<>>, <<>>, lines),
           NEW line \in CsvCells, line # <<>>
    PROVE  /\ CsvLine(line) \in CsvCell
           /\ Scanned(x \o CsvLine(line)) = At("plain", <<>>, <<>>, LineEnds(line, lines))
           /\ Within(x, CsvLine(line), MidLine(line, lines)
                                         \cup {At("plain", <<>>, <<>>, LineEnds(line, lines))})
  <1> DEFINE t == LineText(line)
             n == Len(line)
             p == line[n]
             before == SubSeq(line, 1, n - 1)
             S == MidLine(line, lines)
             end == At("plain", <<>>, <<>>, LineEnds(line, lines))
  <1>1. n \in Nat \ {0} /\ n \in 1..n
    BY DEF CsvCells
  <1>2. line = Append(before, p)
    <2>1. SubSeq(line, 1, n) = line
      BY DEF CsvCells
    <2>2. SubSeq(line, 1, n) = Append(before, p)
      BY <1>1, LongerPrefix DEF CsvCells
    <2>. QED  BY <2>1, <2>2
  <1>3. t \in CsvCell /\ NewLine \in Character
    BY LineTextNext, CharactersDiffer
  <1>4. CsvLine(line) = t \o <<NewLine>> /\ CsvLine(line) \in CsvCell
    <2>1. CsvLine(line) = t \o <<NewLine>>
      BY CsvLineIs
    <2> HIDE DEF t
    <2>. QED  BY <1>3, <2>1 DEF CsvCell
  <1>5. PICK place \in {"plain", "quote"} : Scanned(x \o t) = At(place, p, before, lines)
    BY LineTextRead
  <1>6. Within(x, t, S)
    BY LineTextRead
  <1>7. ParseChar(At(place, p, before, lines), NewLine) = end
    <2> HIDE DEF p, before
    <2>1. ParseChar(At(place, p, before, lines), NewLine) = Plain(At("plain", p, before, lines), NewLine)
      BY CharactersDiffer, ParseCharGoes
    <2>2. Plain(At("plain", p, before, lines), NewLine)
             = At("plain", <<>>, <<>>, LineEnds(Append(before, p), lines))
      BY PlainGoes
    <2>. QED  BY <1>2, <2>1, <2>2
  <1> HIDE DEF t, p, before, S, end
  <1>8. Scanned(x \o (t \o <<NewLine>>)) = end
    <2>1. Scanned(x \o (t \o <<NewLine>>)) = ParseChar(Scanned(x \o t), NewLine)
      BY <1>3, ScannedLonger
    <2>. QED  BY <1>5, <1>7, <2>1
  <1>9. Within(x, t, S \cup {end})
    BY <1>6, WithinLarger
  <1>10. Within(x, t \o <<NewLine>>, S \cup {end})
    BY <1>3, <1>5, <1>7, <1>9, WithinNext
  <1>. QED  BY <1>4, <1>8, <1>10 DEF S, end

----------------------------------------------------------------------------
(* A table, written and read *)

\* The lines of a text.
LinesText(lines) == FlattenSeq([k \in DOMAIN lines |-> CsvLine(lines[k])])

LEMMA LinesTextNext ==
    /\ LinesText(<<>>) = <<>>
    /\ \A lines \in CsvLines : LinesText(lines) \in CsvCell
    /\ \A lines \in CsvLines, c \in CsvCells :
          LinesText(Append(lines, c)) = LinesText(lines) \o CsvLine(c)
  <1> DEFINE D(x) == [k \in DOMAIN x |-> CsvLine(x[k])]
  <1>0. \A c \in CsvCells : CsvLine(c) \in Seq(Character)
    <2> SUFFICES ASSUME NEW c \in CsvCells
                 PROVE  CsvLine(c) \in Seq(Character)
      OBVIOUS
    <2>1. LineText(c) \in Seq(Character) /\ NewLine \in Character
      BY LineTextNext, CharactersDiffer DEF CsvCell
    <2>. QED  BY <2>1, CsvLineIs
  <1>1. ASSUME NEW x \in CsvLines PROVE D(x) \in Seq(Seq(Character))
    <2>1. \A k \in 1..Len(x) : CsvLine(x[k]) \in Seq(Character)
      BY <1>0 DEF CsvLines
    <2>2. DOMAIN x = 1..Len(x) /\ Len(x) \in Nat
      BY DEF CsvLines
    <2>. QED  BY <2>1, <2>2
  <1>2. D(<<>>) = <<>>
    OBVIOUS
  <1>3. ASSUME NEW x \in CsvLines, NEW c \in CsvCells
        PROVE  D(Append(x, c)) = Append(D(x), CsvLine(c))
    <2> DEFINE y == Append(x, c)
               m == CsvLine(c)
    <2>1. /\ Len(x) \in Nat /\ y \in CsvLines /\ Len(y) = Len(x) + 1 /\ DOMAIN y = 1..Len(x) + 1
          /\ DOMAIN x = 1..Len(x)
          /\ \A i \in 1..Len(x) : y[i] = x[i]
          /\ y[Len(x) + 1] = c
      BY DEF CsvLines
    <2>2. m \in Seq(Character)
      BY <1>0
    <2> HIDE DEF y
    <2>6. D(y)[Len(x) + 1] = m
      BY <2>1
    <2> HIDE DEF m
    <2>3. D(x) \in Seq(Seq(Character)) /\ D(y) \in Seq(Seq(Character))
      BY <1>1, <2>1
    <2>4. Len(D(x)) = Len(x) /\ Len(D(y)) = Len(x) + 1
      BY <2>1, <2>3
    <2>5. \A i \in 1..Len(x) : D(y)[i] = D(x)[i]
      BY <2>1
    <2> HIDE DEF D
    <2>7. D(y) = Append(D(x), D(y)[Len(x) + 1])
      BY <2>3, <2>4, <2>5, OneMore
    <2>. QED  BY <2>6, <2>7 DEF y, m
  <1>4. \A x : LinesText(x) = FlattenSeq(D(x))
    BY DEF LinesText
  <1> HIDE DEF D
  <1>6. LinesText(<<>>) = <<>>
    BY <1>2, <1>4, FlatNone
  <1>7. ASSUME NEW x \in CsvLines PROVE LinesText(x) \in CsvCell
    BY <1>1, <1>4, FlatTyped DEF CsvCell
  <1>8. ASSUME NEW x \in CsvLines, NEW c \in CsvCells
        PROVE  LinesText(Append(x, c)) = LinesText(x) \o CsvLine(c)
    <2>1. CsvLine(c) \in Seq(Character)
      BY <1>0
    <2>2. D(Append(x, c)) = Append(D(x), CsvLine(c)) /\ D(x) \in Seq(Seq(Character))
      BY <1>1, <1>3
    <2>3. FlattenSeq(Append(D(x), CsvLine(c))) = FlattenSeq(D(x)) \o CsvLine(c)
      BY <2>1, <2>2, FlatNext
    <2>. QED  BY <1>4, <2>2, <2>3
  <1>. QED  BY <1>6, <1>7, <1>8

\* What is kept of one line.
KeptOf(line) == IF line = << <<>> >> THEN <<>> ELSE <<line>>

LEMMA KeptNext ==
    /\ Kept(<<>>) = <<>>
    /\ \A lines \in CsvLines : Kept(lines) \in CsvLines
    /\ \A lines \in CsvLines, c \in CsvCells : Kept(Append(lines, c)) = LineEnds(c, Kept(lines))
  <1> DEFINE D(x) == [k \in DOMAIN x |-> KeptOf(x[k])]
  <1>0. \A c \in CsvCells : KeptOf(c) \in Seq(CsvCells)
    BY DEF KeptOf
  <1>1. ASSUME NEW x \in CsvLines PROVE D(x) \in Seq(Seq(CsvCells))
    <2>1. \A k \in 1..Len(x) : KeptOf(x[k]) \in Seq(CsvCells)
      BY <1>0 DEF CsvLines
    <2>2. DOMAIN x = 1..Len(x) /\ Len(x) \in Nat
      BY DEF CsvLines
    <2>. QED  BY <2>1, <2>2
  <1>2. D(<<>>) = <<>>
    OBVIOUS
  <1>3. ASSUME NEW x \in CsvLines, NEW c \in CsvCells
        PROVE  D(Append(x, c)) = Append(D(x), KeptOf(c))
    <2> DEFINE y == Append(x, c)
               m == KeptOf(c)
    <2>1. /\ Len(x) \in Nat /\ y \in CsvLines /\ Len(y) = Len(x) + 1 /\ DOMAIN y = 1..Len(x) + 1
          /\ DOMAIN x = 1..Len(x)
          /\ \A i \in 1..Len(x) : y[i] = x[i]
          /\ y[Len(x) + 1] = c
      BY DEF CsvLines
    <2>2. m \in Seq(CsvCells)
      BY <1>0
    <2> HIDE DEF y
    <2>6. D(y)[Len(x) + 1] = m
      BY <2>1
    <2> HIDE DEF m
    <2>3. D(x) \in Seq(Seq(CsvCells)) /\ D(y) \in Seq(Seq(CsvCells))
      BY <1>1, <2>1
    <2>4. Len(D(x)) = Len(x) /\ Len(D(y)) = Len(x) + 1
      BY <2>1, <2>3
    <2>5. \A i \in 1..Len(x) : D(y)[i] = D(x)[i]
      BY <2>1
    <2> HIDE DEF D
    <2>7. D(y) = Append(D(x), D(y)[Len(x) + 1])
      BY <2>3, <2>4, <2>5, OneMore
    <2>. QED  BY <2>6, <2>7 DEF y, m
  <1>4. \A x : Kept(x) = FlattenSeq(D(x))
    BY DEF Kept, KeptOf
  <1> HIDE DEF D
  <1>6. Kept(<<>>) = <<>>
    BY <1>2, <1>4, FlatNone
  <1>7. ASSUME NEW x \in CsvLines PROVE Kept(x) \in CsvLines
    BY <1>1, <1>4, FlatTyped DEF CsvLines
  <1>8. ASSUME NEW x \in CsvLines, NEW c \in CsvCells
        PROVE  Kept(Append(x, c)) = LineEnds(c, Kept(x))
    <2>1. KeptOf(c) \in Seq(CsvCells)
      BY <1>0
    <2>2. D(Append(x, c)) = Append(D(x), KeptOf(c)) /\ D(x) \in Seq(Seq(CsvCells))
      BY <1>1, <1>3
    <2>3. FlattenSeq(Append(D(x), KeptOf(c))) = FlattenSeq(D(x)) \o KeptOf(c)
      BY <2>1, <2>2, FlatNext
    <2>4. Kept(Append(x, c)) = Kept(x) \o KeptOf(c)
      BY <1>4, <2>2, <2>3
    <2>5. Kept(x) \o KeptOf(c) = LineEnds(c, Kept(x))
      <3>1. Kept(x) \in Seq(CsvCells)
        BY <1>7 DEF CsvLines
      <3>2. CASE c = << <<>> >>
        BY <3>1, <3>2 DEF KeptOf, LineEnds
      <3>3. CASE c # << <<>> >>
        <4>1. KeptOf(c) = <<c>> /\ LineEnds(c, Kept(x)) = Append(Kept(x), c)
          BY <3>3 DEF KeptOf, LineEnds
        <4>. QED  BY <3>1, <4>1
      <3>. QED  BY <3>2, <3>3
    <2>. QED  BY <2>4, <2>5
  <1>. QED  BY <1>6, <1>7, <1>8

LEMMA KeptTyped ==
    ASSUME NEW Item, NEW lines \in Seq(Item)
    PROVE  Kept(lines) \in Seq(Item)
  <1> DEFINE D == [k \in DOMAIN lines |-> KeptOf(lines[k])]
  <1>1. \A k \in 1..Len(lines) : KeptOf(lines[k]) \in Seq(Item)
    BY DEF KeptOf
  <1>2. DOMAIN lines = 1..Len(lines) /\ Len(lines) \in Nat
    OBVIOUS
  <1>3. D \in Seq(Seq(Item))
    BY <1>1, <1>2
  <1>4. Kept(lines) = FlattenSeq(D)
    BY DEF Kept, KeptOf
  <1> HIDE DEF D
  <1>. QED  BY <1>3, <1>4, FlatTyped

\* The lines read when k of the table's have been.
LinesRead(header, lines, k) == <<header>> \o Kept(SubSeq(lines, 1, k))

\* Between lines, and within one.
AtLine(header, lines) == {At("plain", <<>>, <<>>, LinesRead(header, lines, k)) : k \in 0..Len(lines)}
InLine(header, lines) == UNION {MidLine(lines[k], LinesRead(header, lines, k - 1)) : k \in 1..Len(lines)}
TableStates(header, lines) == MidLine(header, <<>>) \cup AtLine(header, lines) \cup InLine(header, lines)

LEMMA LinesReadNext ==
    ASSUME NEW header \in CsvCells, NEW lines \in CsvLines
    PROVE  /\ \A k \in 0..Len(lines) : LinesRead(header, lines, k) \in CsvLines
           /\ LinesRead(header, lines, 0) = <<header>>
           /\ \A k \in 1..Len(lines) :
                 LinesRead(header, lines, k) = LineEnds(lines[k], LinesRead(header, lines, k - 1))
  <1>0. \A k \in 0..Len(lines) : SubSeq(lines, 1, k) \in CsvLines
    BY DEF CsvLines
  <1>1. \A k \in 0..Len(lines) : Kept(SubSeq(lines, 1, k)) \in CsvLines
    BY <1>0, KeptNext
  <1>2. ASSUME NEW k \in 0..Len(lines) PROVE LinesRead(header, lines, k) \in CsvLines
    <2>1. Kept(SubSeq(lines, 1, k)) \in Seq(CsvCells)
      BY <1>1 DEF CsvLines
    <2>. QED  BY <2>1 DEF LinesRead, CsvLines
  <1>3. LinesRead(header, lines, 0) = <<header>>
    <2>1. SubSeq(lines, 1, 0) = <<>>
      BY DEF CsvLines
    <2>2. Kept(SubSeq(lines, 1, 0)) = <<>>
      BY <2>1, KeptNext
    <2>3. <<header>> \o <<>> = <<header>>
      OBVIOUS
    <2>. QED  BY <2>2, <2>3 DEF LinesRead
  <1>4. ASSUME NEW k \in 1..Len(lines)
        PROVE  LinesRead(header, lines, k) = LineEnds(lines[k], LinesRead(header, lines, k - 1))
    <2> DEFINE before == SubSeq(lines, 1, k - 1)
               c == lines[k]
               K == Kept(before)
    <2>1. SubSeq(lines, 1, k) = Append(before, c) /\ c \in CsvCells /\ before \in CsvLines
      BY LongerPrefix DEF CsvLines
    <2>2. K \in Seq(CsvCells) /\ Kept(SubSeq(lines, 1, k)) = LineEnds(c, K)
      BY <2>1, KeptNext DEF CsvLines
    <2> HIDE DEF before, c, K
    <2>3. <<header>> \o LineEnds(c, K) = LineEnds(c, <<header>> \o K)
      <3>1. <<header>> \o Append(K, c) = Append(<<header>> \o K, c)
        BY <2>1, <2>2
      <3>. QED  BY <3>1 DEF LineEnds
    <2>. QED  BY <2>2, <2>3 DEF LinesRead, K, before, c
  <1>. QED  BY <1>2, <1>3, <1>4

LEMMA TableRead ==
    ASSUME NEW header \in CsvCells, header \notin {<<>>, << <<>> >>}, NEW lines \in CsvLines,
           \A k \in 1..Len(lines) : lines[k] # <<>>
    PROVE  /\ SaveTable(header, lines) \in CsvCell
           /\ Scanned(SaveTable(header, lines))
                 = At("plain", <<>>, <<>>, LinesRead(header, lines, Len(lines)))
           /\ Within(<<>>, SaveTable(header, lines), TableStates(header, lines))
  <1> DEFINE n == Len(lines)
             S == TableStates(header, lines)
             start == CsvLine(header)
             Text(k) == start \o LinesText(SubSeq(lines, 1, k))
             L(k) == LinesRead(header, lines, k)
             Good(k) == /\ Text(k) \in CsvCell
                        /\ Scanned(Text(k)) = At("plain", <<>>, <<>>, L(k))
                        /\ Within(<<>>, Text(k), S)
             bad == {k \in 0..n : ~Good(k)}
  <1>0. n \in Nat /\ SubSeq(lines, 1, n) = lines /\ SubSeq(lines, 1, 0) = <<>>
    BY DEF CsvLines
  <1>1. /\ MidLine(header, <<>>) \subseteq S
        /\ \A k \in 0..n : At("plain", <<>>, <<>>, L(k)) \in S
        /\ \A k \in 1..n : MidLine(lines[k], L(k - 1)) \subseteq S
    <2>1. \A k \in 0..n : At("plain", <<>>, <<>>, L(k)) \in AtLine(header, lines)
      BY DEF AtLine
    <2>2. \A k \in 1..n : MidLine(lines[k], L(k - 1)) \subseteq InLine(header, lines)
      BY DEF InLine
    <2>. QED  BY <2>1, <2>2 DEF TableStates
  <1>2. 0 \notin bad
    <2>1. <<>> \in CsvCell /\ <<>> \in CsvLines /\ Scanned(<<>>) = At("plain", <<>>, <<>>, <<>>)
      BY ScannedNext DEF CsvCell, CsvLines, ScanStarts
    <2>2. /\ start \in CsvCell
          /\ Scanned(<<>> \o start) = At("plain", <<>>, <<>>, LineEnds(header, <<>>))
          /\ Within(<<>>, start, MidLine(header, <<>>) \cup {At("plain", <<>>, <<>>, LineEnds(header, <<>>))})
      BY <2>1, CsvLineRead
    <2>3. LineEnds(header, <<>>) = L(0)
      <3>1. LineEnds(header, <<>>) = <<header>>
        BY DEF LineEnds
      <3>. QED  BY <3>1, LinesReadNext
    <2> HIDE DEF start
    <2>4. <<>> \o start = start /\ start \o <<>> = start
      BY <2>2 DEF CsvCell
    <2>5. Text(0) = start
      BY <1>0, <2>4, LinesTextNext
    <2>6. 0 \in 0..n
      BY <1>0
    <2> HIDE DEF L, S, Text
    <2>7. Within(<<>>, start, S)
      BY <1>1, <2>2, <2>3, <2>6, WithinLarger
    <2>. QED  BY <2>2, <2>3, <2>4, <2>5, <2>7
  <1>3. ASSUME NEW k \in 1..n, k - 1 \notin bad
        PROVE  k \notin bad
    <2> DEFINE before == SubSeq(lines, 1, k - 1)
               c == lines[k]
               x == Text(k - 1)
    <2>0. k - 1 \in 0..n /\ k \in 0..n
      BY <1>0
    <2>1. /\ SubSeq(lines, 1, k) = Append(before, c) /\ c \in CsvCells /\ before \in CsvLines /\ c # <<>>
      BY LongerPrefix DEF CsvLines
    <2>2. Good(k - 1)
      BY <1>3, <2>0
    <2>3. L(k - 1) \in CsvLines /\ L(k) = LineEnds(c, L(k - 1))
      BY <2>0, LinesReadNext
    <2>4. LinesText(SubSeq(lines, 1, k)) = LinesText(before) \o CsvLine(c) /\ LinesText(before) \in CsvCell
      BY <2>1, LinesTextNext
    <2>5. start \in CsvCell
      <3>1. LineText(header) \in Seq(Character) /\ NewLine \in Character
        BY LineTextNext, CharactersDiffer DEF CsvCell
      <3>. QED  BY <3>1, CsvLineIs DEF CsvCell
    <2> HIDE DEF L, S, start
    <2>6. /\ x \in CsvCell /\ Scanned(x) = At("plain", <<>>, <<>>, L(k - 1)) /\ Within(<<>>, x, S)
      BY <2>2
    <2>7. x = start \o LinesText(before)
      OBVIOUS
    <2> HIDE DEF before, c
    <2>8. /\ CsvLine(c) \in CsvCell
          /\ Scanned(x \o CsvLine(c)) = At("plain", <<>>, <<>>, LineEnds(c, L(k - 1)))
          /\ Within(x, CsvLine(c), MidLine(c, L(k - 1)) \cup {At("plain", <<>>, <<>>, LineEnds(c, L(k - 1)))})
      <3> HIDE DEF x
      <3>. QED  BY <2>1, <2>3, <2>6, CsvLineRead
    <2>9. Text(k) = x \o CsvLine(c) /\ x \o CsvLine(c) \in CsvCell
      <3>1. /\ start \in Seq(Character) /\ LinesText(before) \in Seq(Character)
            /\ CsvLine(c) \in Seq(Character) /\ x \in Seq(Character)
        BY <2>4, <2>5, <2>6, <2>8 DEF CsvCell
      <3>2. start \o (LinesText(before) \o CsvLine(c)) = (start \o LinesText(before)) \o CsvLine(c)
        BY <3>1, SMTT(30)
      <3>3. Text(k) = start \o (LinesText(before) \o CsvLine(c))
        BY <2>4
      <3>4. x \o CsvLine(c) \in Seq(Character)
        <4> HIDE DEF x
        <4>. QED  BY <3>1
      <3>. QED  BY <2>7, <3>2, <3>3, <3>4 DEF CsvCell
    <2> HIDE DEF x, Text
    <2>10. Within(x, CsvLine(c), S)
      <3>1. MidLine(c, L(k - 1)) \subseteq S /\ At("plain", <<>>, <<>>, LineEnds(c, L(k - 1))) \in S
        BY <1>1, <2>0, <2>3 DEF c
      <3>. QED  BY <2>8, <3>1, WithinLarger
    <2>11. <<>> \o x = x /\ <<>> \in CsvCell
      BY <2>6 DEF CsvCell
    <2>12. Within(<<>>, x \o CsvLine(c), S)
      BY <2>6, <2>8, <2>10, <2>11, WithinConcat
    <2>. QED  BY <2>3, <2>8, <2>9, <2>12
  <1>4. bad = {}
    <2> HIDE DEF bad
    <2>1. bad \in SUBSET (0..n)
      BY DEF bad
    <2>. QED  BY <1>0, <1>2, <1>3, <2>1, FirstBad
  <1>5. Good(n)
    <2>1. n \in 0..n
      BY <1>0
    <2>. QED  BY <1>4, <2>1
  <1>6. SaveTable(header, lines) = Text(n)
    BY <1>0 DEF SaveTable, LinesText
  <1>. QED  BY <1>5, <1>6

----------------------------------------------------------------------------
(* What a file tells *)

\* What the reader gives for the lines of a file, all of whose quotes are closed.
Parse(lines) ==
    IF lines = <<>> \/ \E k \in 2..Len(lines) : ~SameWidth(Head(lines), lines[k])
    THEN [ok |-> FALSE, header |-> <<>>, lines |-> <<>>]
    ELSE [ok |-> TRUE, header |-> [Head(lines) EXCEPT ![1] = StripBom(@)], lines |-> Tail(lines)]

LEMMA ParseFileIs ==
    ASSUME NEW text
    PROVE  /\ Scanned(text).at = "quoted" => ~ParseFile(text).ok
           /\ Scanned(text).at # "quoted" => ParseFile(text) = Parse(ParseCsvBuffer(text))
  <1>1. ASSUME Scanned(text).at = "quoted" PROVE ~ParseFile(text).ok
    BY <1>1 DEF ParseFile
  <1>2. ASSUME Scanned(text).at # "quoted" PROVE ParseFile(text) = Parse(ParseCsvBuffer(text))
    BY <1>2 DEF ParseFile, Parse
  <1>. QED  BY <1>1, <1>2

\* The lines of a text, by the state at its end.
LEMMA ParseCsvBufferIs ==
    ASSUME NEW text, NEW place, NEW cell, NEW cells, NEW lines,
           Scanned(text) = At(place, cell, cells, lines)
    PROVE  /\ cell = <<>> /\ cells = <<>> => ParseCsvBuffer(text) = lines
           /\ ~(cell = <<>> /\ cells = <<>>) =>
                  ParseCsvBuffer(text) = LineEnds(Append(cells, cell), lines)
  <1> DEFINE s == At(place, cell, cells, lines)
  <1>1. s.cell = cell /\ s.cells = cells /\ s.lines = lines
    BY DEF At
  <1>2. FlushedLine(s) = At(place, <<>>, <<>>, LineEnds(Append(cells, cell), lines))
    BY FlushedLineIs
  <1>3. FlushedLine(s).lines = LineEnds(Append(cells, cell), lines)
    BY <1>2 DEF At
  <1> HIDE DEF s
  <1>. QED  BY <1>1, <1>3 DEF ParseCsvBuffer, s

\* A header and rows of its width are what they say.
LEMMA ParseOfTable ==
    ASSUME NEW header \in CsvCells, header # <<>>, NEW lines \in CsvLines,
           \A k \in 1..Len(lines) : Len(lines[k]) = Len(header)
    PROVE  Parse(<<header>> \o lines)
              = [ok |-> TRUE, header |-> [header EXCEPT ![1] = StripBom(@)], lines |-> lines]
  <1> DEFINE all == <<header>> \o lines
  <1>1. /\ all # <<>> /\ Head(all) = header /\ Tail(all) = lines /\ Len(all) = Len(lines) + 1
        /\ Len(lines) \in Nat
        /\ \A k \in 2..Len(lines) + 1 : all[k] = lines[k - 1]
    <2>1. lines \in Seq(CsvCells)
      BY DEF CsvLines
    <2>2. all = <<header>> \o lines /\ all \in Seq(CsvCells) /\ Len(all) = Len(lines) + 1 /\ Len(lines) \in Nat
      BY <2>1
    <2>3. \A k \in 1..Len(lines) + 1 : all[k] = IF k = 1 THEN header ELSE lines[k - 1]
      BY <2>1
    <2> HIDE DEF all
    <2>4. all # <<>> /\ Head(all) = header
      BY <2>2, <2>3
    <2>5. Tail(all) = lines
      <3>1. Tail(all) \in Seq(CsvCells) /\ Len(Tail(all)) = Len(lines)
        BY <2>2, <2>4
      <3>2. ASSUME NEW k \in 1..Len(lines) PROVE Tail(all)[k] = lines[k]
        <4>1. Tail(all)[k] = all[k + 1]
          BY <2>2, <2>4, <3>1
        <4>2. k + 1 \in 1..Len(lines) + 1 /\ k + 1 # 1 /\ (k + 1) - 1 = k
          BY <2>2
        <4>. QED  BY <2>3, <4>1, <4>2
      <3>. QED  BY <2>1, <3>1, <3>2, SeqEqual
    <2>6. \A k \in 2..Len(lines) + 1 : all[k] = lines[k - 1]
      BY <2>2, <2>3
    <2>. QED  BY <2>2, <2>4, <2>5, <2>6
  <1>2. \A k \in 2..Len(all) : SameWidth(Head(all), all[k])
    <2> SUFFICES ASSUME NEW k \in 2..Len(all)
                 PROVE  SameWidth(Head(all), all[k])
      OBVIOUS
    <2>1. k - 1 \in 1..Len(lines) /\ all[k] = lines[k - 1]
      BY <1>1
    <2>. QED  BY <1>1, <2>1 DEF SameWidth
  <1> HIDE DEF all
  <1>3. Parse(all) = [ok |-> TRUE, header |-> [header EXCEPT ![1] = StripBom(@)], lines |-> lines]
    BY <1>1, <1>2 DEF Parse
  <1>. QED  BY <1>3 DEF all

\* Rows that have the header's width, kept, have it.
LEMMA KeptWidth ==
    ASSUME NEW n, NEW lines \in CsvLines, \A k \in 1..Len(lines) : Len(lines[k]) = n
    PROVE  /\ Kept(lines) \in CsvLines
           /\ \A k \in 1..Len(Kept(lines)) : Len(Kept(lines)[k]) = n
  <1> DEFINE Item == {c \in CsvCells : Len(c) = n}
  <1>1. lines \in Seq(Item)
    <2>1. \A k \in 1..Len(lines) : lines[k] \in Item
      BY DEF CsvLines
    <2>2. lines = [k \in 1..Len(lines) |-> lines[k]] /\ Len(lines) \in Nat
      BY DEF CsvLines
    <2> HIDE DEF Item
    <2>. QED  BY <2>1, <2>2
  <1>2. Kept(lines) \in Seq(Item)
    <2> HIDE DEF Item
    <2>. QED  BY <1>1, KeptTyped
  <1>3. \A k \in 1..Len(Kept(lines)) : Kept(lines)[k] \in Item
    <2> HIDE DEF Item
    <2>. QED  BY <1>2
  <1>. QED  BY <1>3, KeptNext

\* Header and rows as CREATE TABLE and the statements make them.
CsvTable(header, lines) ==
    /\ IsHeader(header) /\ lines \in CsvLines
    /\ \A k \in 1..Len(lines) : Len(lines[k]) = Len(header)

LEMMA CsvTableIs ==
    ASSUME NEW header, NEW lines, CsvTable(header, lines)
    PROVE  /\ header \in CsvCells /\ header \notin {<<>>, << <<>> >>} /\ Len(header) \in Nat \ {0}
           /\ lines \in CsvLines /\ \A k \in 1..Len(lines) : lines[k] \in CsvCells /\ lines[k] # <<>>
           /\ \A k \in 1..Len(header) : header[k] \in CsvCell
           /\ StripBom(header[1]) = header[1]
  <1>1. header \in Seq(Seq(Character)) /\ header \notin {<<>>, << <<>> >>}
    BY DEF CsvTable, IsHeader
  <1>2. header \in CsvCells /\ Len(header) \in Nat \ {0} /\ \A k \in 1..Len(header) : header[k] \in CsvCell
    BY <1>1 DEF CsvCells, CsvCell
  <1>3. lines \in CsvLines /\ \A k \in 1..Len(lines) : lines[k] \in CsvCells /\ lines[k] # <<>>
    BY <1>2 DEF CsvTable, CsvLines
  <1>4. StripBom(header[1]) = header[1]
    BY DEF CsvTable, IsHeader, StripBom
  <1>. QED  BY <1>1, <1>2, <1>3, <1>4

\* Every table whose rows have its header's width is read back as it was
\* written, whatever separators, quotes and line ends its cells hold: nothing is
\* lost but the row of one empty cell.
THEOREM EveryTableReadsBack ==
    ASSUME NEW header, NEW lines, CsvTable(header, lines)
    PROVE  ReadsBack(header, lines)
  <1> DEFINE text == SaveTable(header, lines)
             n == Len(lines)
             K == Kept(lines)
  <1>1. /\ header \in CsvCells /\ header \notin {<<>>, << <<>> >>} /\ lines \in CsvLines
        /\ \A k \in 1..n : lines[k] # <<>>
        /\ StripBom(header[1]) = header[1]
    BY CsvTableIs
  <1>2. Scanned(text) = At("plain", <<>>, <<>>, LinesRead(header, lines, n))
    BY <1>1, TableRead
  <1>3. SubSeq(lines, 1, n) = lines
    BY <1>1 DEF CsvLines
  <1>4. LinesRead(header, lines, n) = <<header>> \o K
    BY <1>3 DEF LinesRead
  <1>5. K \in CsvLines /\ \A k \in 1..Len(K) : Len(K[k]) = Len(header)
    <2>1. \A k \in 1..n : Len(lines[k]) = Len(header)
      BY DEF CsvTable
    <2>. QED  BY <1>1, <2>1, KeptWidth
  <1> HIDE DEF text, K
  <1>6. ParseCsvBuffer(text) = <<header>> \o K
    BY <1>2, <1>4, ParseCsvBufferIs
  <1>7. Scanned(text).at # "quoted"
    BY <1>2 DEF At
  <1>8. ParseFile(text) = Parse(<<header>> \o K)
    BY <1>6, <1>7, ParseFileIs
  <1>9. Parse(<<header>> \o K) = [ok |-> TRUE, header |-> [header EXCEPT ![1] = StripBom(@)], lines |-> K]
    BY <1>1, <1>5, ParseOfTable
  <1>10. [header EXCEPT ![1] = StripBom(@)] = header
    <2>1. header = [k \in DOMAIN header |-> header[k]]
      BY <1>1 DEF CsvCells
    <2>. QED  BY <1>1, <2>1
  <1>. QED  BY <1>8, <1>9, <1>10 DEF ReadsBack, text, K

LEMMA TablesAreTables ==
    ASSUME NEW n \in {1, 2}, NEW header \in Headers(n), NEW lines \in CsvRows(n)
    PROVE  CsvTable(header, lines)
  <1>1. IsHeader(header) /\ Len(header) = n
    BY CsvAssumption DEF Headers
  <1>2. lines \in CsvLines /\ \A k \in DOMAIN lines : Len(lines[k]) = n
    BY CsvAssumption DEF CsvLines, CsvCells, CsvCell
  <1>3. DOMAIN lines = 1..Len(lines)
    BY <1>2 DEF CsvLines
  <1>. QED  BY <1>1, <1>2, <1>3 DEF CsvTable

THEOREM TablesReadBack == Spec => []SavedTablesReadBack
  <1>2. \A n \in {1, 2} : AllReadBack[n]
    BY TablesAreTables, EveryTableReadsBack DEF AllReadBack
  <1>3. SavedTablesReadBack
    BY <1>2 DEF SavedTablesReadBack, Width
  <1>. QED  BY <1>3, PTL

----------------------------------------------------------------------------
(* What is read of a file that is cut *)

\* A file of a kind that Durability knows.
Known(file, header, lines) ==
    \/ ~file.ok
    \/ file.lines = <<>> /\ Begins(file.header, header)
    \/ /\ file.header = header
       /\ \E k \in 0..Len(lines) :
            \/ file.lines = Kept(SubSeq(lines, 1, k))
            \/ /\ k > 0 /\ file.lines # <<>>
               /\ Front(file.lines) = Kept(SubSeq(lines, 1, k - 1))
               /\ Len(Last(file.lines)) = Len(lines[k]) /\ Begins(Last(file.lines), lines[k])

LEMMA KnownWhenCutIs ==
    ASSUME NEW header, NEW lines, NEW n
    PROVE  KnownWhenCut(header, lines, n)
              <=> Known(ParseFile(SubSeq(SaveTable(header, lines), 1, n)), header, lines)
  BY DEF KnownWhenCut, Known

\* The first cells of a line, the last of them perhaps cut short.
Beginning(line, j, i) == Append(SubSeq(line, 1, j - 1), SubSeq(line[j], 1, i))

LEMMA BeginningBegins ==
    ASSUME NEW line \in CsvCells, NEW j \in 1..Len(line), NEW i \in 0..Len(line[j])
    PROVE  /\ Beginning(line, j, i) \in CsvCells /\ Len(Beginning(line, j, i)) = j
           /\ Begins(Beginning(line, j, i), line)
           /\ SubSeq(line[j], 1, i) \in CsvCell /\ SubSeq(line, 1, j - 1) \in CsvCells
           /\ Beginning(line, j, i) = << <<>> >> =>
                 SubSeq(line[j], 1, i) = <<>> /\ SubSeq(line, 1, j - 1) = <<>>
           /\ Beginning(line, j, i)[1] = IF j = 1 THEN SubSeq(line[1], 1, i) ELSE line[1]
  <1> DEFINE part == SubSeq(line[j], 1, i)
             before == SubSeq(line, 1, j - 1)
             cells == Append(before, part)
  <1>1. line[j] \in Seq(Character) /\ line \in Seq(CsvCell) /\ j \in Nat \ {0} /\ j <= Len(line)
    BY DEF CsvCells, CsvCell
  <1>2. part \in Seq(Character) /\ Len(part) = i
    BY <1>1
  <1>3. /\ before \in Seq(CsvCell) /\ Len(before) = j - 1
        /\ \A k \in 1..j - 1 : before[k] = line[k]
    BY <1>1
  <1>4. IsPrefix(part, line[j])
    <2> DEFINE full == line[j]
    <2>1. full \in Seq(Character) /\ i \in 0..Len(full)
      BY <1>1
    <2> HIDE DEF full
    <2>2. SubSeq(full, 1, i) \in Seq(Character) /\ Len(SubSeq(full, 1, i)) = i /\ i <= Len(full)
      BY <2>1
    <2>3. SubSeq(SubSeq(full, 1, i), 1, i) = SubSeq(full, 1, i)
      BY <2>2, SubSeqFull
    <2>4. IsPrefix(SubSeq(full, 1, i), full)
      BY <2>2, <2>3 DEF IsPrefix
    <2>. QED  BY <2>4 DEF full
  <1> HIDE DEF part, before
  <1>5. /\ part \in CsvCell /\ cells \in Seq(CsvCell) /\ Len(cells) = j /\ cells[j] = part
        /\ \A k \in 1..j - 1 : cells[k] = line[k]
    BY <1>1, <1>2, <1>3 DEF CsvCell
  <1>6. Front(cells) = before /\ Last(cells) = part /\ cells # <<>>
    <2>1. SubSeq(cells, 1, j - 1) = before
      <3>1. SubSeq(cells, 1, j - 1) \in Seq(CsvCell) /\ Len(SubSeq(cells, 1, j - 1)) = j - 1
        BY <1>1, <1>5
      <3>2. \A k \in 1..j - 1 : SubSeq(cells, 1, j - 1)[k] = cells[k]
        BY <1>1, <1>5
      <3>3. \A k \in 1..j - 1 : SubSeq(cells, 1, j - 1)[k] = before[k]
        BY <1>3, <1>5, <3>2
      <3>. QED  BY <1>3, <3>1, <3>3, SeqEqual
    <2> HIDE DEF cells
    <2>. QED  BY <1>1, <1>5, <2>1 DEF Front, Last
  <1>7. ASSUME cells = << <<>> >> PROVE part = <<>> /\ before = <<>>
    <2>1. Len(cells) = 1 /\ cells[1] = <<>>
      BY <1>7
    <2> HIDE DEF cells
    <2>. QED  BY <1>3, <1>5, <2>1
  <1>8. cells[1] = IF j = 1 THEN part ELSE line[1]
    <2> HIDE DEF cells
    <2>. QED  BY <1>1, <1>5
  <1>9. Beginning(line, j, i) = cells
    BY DEF Beginning, part, before
  <1>10. Begins(cells, line)
    <2> HIDE DEF cells
    <2>. QED  BY <1>1, <1>4, <1>5, <1>6 DEF Begins, before
  <1>11. cells[1] = IF j = 1 THEN SubSeq(line[1], 1, i) ELSE line[1]
    BY <1>8 DEF part
  <1> HIDE DEF cells
  <1>. QED  BY <1>3, <1>5, <1>7, <1>9, <1>10, <1>11 DEF part, before, CsvCells

LEMMA MidCellIs ==
    ASSUME NEW cell, NEW cells, NEW lines, NEW s \in MidCell(cell, cells, lines)
    PROVE  \E place \in {"plain", "quoted", "quote"}, i \in 0..Len(cell) :
               s = At(place, SubSeq(cell, 1, i), cells, lines)
  <1>1. PICK place \in {"plain", "quoted", "quote"}, part \in Beginnings(cell) :
            s = At(place, part, cells, lines)
    BY DEF MidCell
  <1>2. PICK i \in 0..Len(cell) : part = SubSeq(cell, 1, i)
    BY DEF Beginnings
  <1>. QED  BY <1>1, <1>2

\* The file stops in the header.
LEMMA CutInHeader ==
    ASSUME NEW header, NEW lines, CsvTable(header, lines), NEW text,
           Scanned(text) \in MidLine(header, <<>>)
    PROVE  Known(ParseFile(text), header, lines)
  <1>0. header \in CsvCells /\ StripBom(header[1]) = header[1] /\ \A k \in 1..Len(header) : header[k] \in CsvCell
    BY CsvTableIs
  <1>1. PICK j \in 1..Len(header) : Scanned(text) \in MidCell(header[j], SubSeq(header, 1, j - 1), <<>>)
    BY DEF MidLine
  <1>2. PICK place \in {"plain", "quoted", "quote"}, i \in 0..Len(header[j]) :
            Scanned(text) = At(place, SubSeq(header[j], 1, i), SubSeq(header, 1, j - 1), <<>>)
    BY <1>1, MidCellIs
  <1> DEFINE part == SubSeq(header[j], 1, i)
             before == SubSeq(header, 1, j - 1)
             cells == Beginning(header, j, i)
  <1>3. CASE place = "quoted"
    BY <1>2, <1>3, ParseFileIs DEF At, Known
  <1>4. CASE place # "quoted" /\ part = <<>> /\ before = <<>>
    <2>1. ParseCsvBuffer(text) = <<>> /\ Scanned(text).at # "quoted"
      <3>1. ParseCsvBuffer(text) = <<>>
        BY <1>2, <1>4, ParseCsvBufferIs
      <3>. QED  BY <1>2, <1>4, <3>1 DEF At
    <2>2. ParseFile(text) = Parse(<<>>)
      BY <2>1, ParseFileIs
    <2>3. ~Parse(<<>>).ok
      BY DEF Parse
    <2>. QED  BY <2>2, <2>3 DEF Known
  <1>5. CASE place # "quoted" /\ ~(part = <<>> /\ before = <<>>)
    <2>1. ParseCsvBuffer(text) = LineEnds(cells, <<>>)
      <3>1. ParseCsvBuffer(text) = LineEnds(Append(before, part), <<>>)
        <4> HIDE DEF part, before
        <4>1. Scanned(text) = At(place, part, before, <<>>)
          BY <1>2 DEF part, before
        <4>. QED  BY <1>5, <4>1, ParseCsvBufferIs
      <3>. QED  BY <3>1 DEF Beginning
    <2>2. Scanned(text).at # "quoted"
      BY <1>2, <1>5 DEF At
    <2>3. /\ cells \in CsvCells /\ Len(cells) = j /\ Begins(cells, header) /\ cells # << <<>> >>
          /\ cells[1] = IF j = 1 THEN SubSeq(header[1], 1, i) ELSE header[1]
      BY <1>0, <1>5, BeginningBegins
    <2>4. StripBom(cells[1]) = cells[1]
      <3>1. CASE j = 1
        <4> DEFINE name == header[1]
        <4>1. name \in Seq(Character) /\ i \in 0..Len(name) /\ cells[1] = SubSeq(name, 1, i)
          BY <1>0, <2>3, <3>1 DEF CsvCell
        <4>2. name = <<>> \/ Head(name) # ByteOrderMark
          BY DEF CsvTable, IsHeader
        <4> HIDE DEF name, cells
        <4>3. SubSeq(name, 1, i) # <<>> => Head(SubSeq(name, 1, i)) # ByteOrderMark
          <5>1. CASE i = 0
            BY <4>1, <5>1
          <5>2. CASE i # 0
            <6>1. name # <<>> /\ Head(SubSeq(name, 1, i)) = Head(name)
              BY <4>1, <5>2
            <6>. QED  BY <4>2, <6>1
          <5>. QED  BY <5>1, <5>2
        <4>. QED  BY <4>1, <4>3 DEF StripBom
      <3>2. CASE j # 1
        BY <1>0, <2>3, <3>2
      <3>. QED  BY <3>1, <3>2
    <2> HIDE DEF cells, part, before
    <2>5. cells # <<>> /\ [cells EXCEPT ![1] = StripBom(@)] = cells
      <3>1. cells = [k \in DOMAIN cells |-> cells[k]]
        BY <2>3 DEF CsvCells
      <3>2. cells # <<>>
        BY <2>3 DEF Begins
      <3>. QED  BY <2>4, <3>1, <3>2
    <2>6. LineEnds(cells, <<>>) = <<cells>> \o <<>>
      BY <2>3 DEF LineEnds
    <2>7. Parse(<<cells>> \o <<>>) = [ok |-> TRUE, header |-> [cells EXCEPT ![1] = StripBom(@)], lines |-> <<>>]
      <3>1. <<>> \in CsvLines /\ \A k \in 1..Len(<<>>) : Len(<<>>[k]) = Len(cells)
        BY DEF CsvLines
      <3>. QED  BY <2>3, <2>5, <3>1, ParseOfTable
    <2>8. ParseFile(text) = [ok |-> TRUE, header |-> cells, lines |-> <<>>]
      BY <2>1, <2>2, <2>5, <2>6, <2>7, ParseFileIs
    <2>. QED  BY <2>3, <2>8 DEF Known
  <1>. QED  BY <1>3, <1>4, <1>5

\* The file stops after k lines.
LEMMA CutAtLine ==
    ASSUME NEW header, NEW lines, CsvTable(header, lines), NEW text, NEW k \in 0..Len(lines),
           Scanned(text).at # "quoted", ParseCsvBuffer(text) = LinesRead(header, lines, k)
    PROVE  Known(ParseFile(text), header, lines)
  <1>0. /\ header \in CsvCells /\ header # <<>> /\ StripBom(header[1]) = header[1]
        /\ lines \in CsvLines /\ \A m \in 1..Len(lines) : Len(lines[m]) = Len(header)
    BY CsvTableIs DEF CsvTable
  <1> DEFINE first == SubSeq(lines, 1, k)
             K == Kept(first)
  <1>1. first \in CsvLines /\ \A m \in 1..Len(first) : Len(first[m]) = Len(header)
    <2>1. /\ first \in CsvLines /\ Len(first) = k
          /\ \A m \in 1..k : first[m] = lines[m] /\ m \in 1..Len(lines)
      BY <1>0 DEF CsvLines
    <2> HIDE DEF first
    <2>. QED  BY <1>0, <2>1
  <1>2. K \in CsvLines /\ \A m \in 1..Len(K) : Len(K[m]) = Len(header)
    <2> HIDE DEF first
    <2>. QED  BY <1>1, KeptWidth
  <1>3. ParseFile(text) = Parse(<<header>> \o K)
    BY ParseFileIs DEF LinesRead
  <1>4. [header EXCEPT ![1] = StripBom(@)] = header
    <2>1. header = [m \in DOMAIN header |-> header[m]]
      BY <1>0 DEF CsvCells
    <2>. QED  BY <1>0, <2>1
  <1>5. ParseFile(text) = [ok |-> TRUE, header |-> header, lines |-> K]
    <2> HIDE DEF K
    <2>. QED  BY <1>0, <1>2, <1>3, <1>4, ParseOfTable
  <1>. QED  BY <1>5 DEF Known

\* The file stops in a line.
LEMMA CutInLine ==
    ASSUME NEW header, NEW lines, CsvTable(header, lines), NEW text, NEW k \in 1..Len(lines),
           Scanned(text) \in MidLine(lines[k], LinesRead(header, lines, k - 1))
    PROVE  Known(ParseFile(text), header, lines)
  <1>0. /\ header \in CsvCells /\ header # <<>> /\ StripBom(header[1]) = header[1]
        /\ lines \in CsvLines /\ \A m \in 1..Len(lines) : Len(lines[m]) = Len(header)
        /\ lines[k] \in CsvCells /\ Len(header) \in Nat
    BY CsvTableIs DEF CsvTable
  <1> DEFINE line == lines[k]
             L == LinesRead(header, lines, k - 1)
             K == Kept(SubSeq(lines, 1, k - 1))
  <1>1. PICK j \in 1..Len(line) : Scanned(text) \in MidCell(line[j], SubSeq(line, 1, j - 1), L)
    BY DEF MidLine
  <1>2. PICK place \in {"plain", "quoted", "quote"}, i \in 0..Len(line[j]) :
            Scanned(text) = At(place, SubSeq(line[j], 1, i), SubSeq(line, 1, j - 1), L)
    BY <1>1, MidCellIs
  <1> DEFINE part == SubSeq(line[j], 1, i)
             before == SubSeq(line, 1, j - 1)
             cells == Beginning(line, j, i)
  <1>3. k - 1 \in 0..Len(lines) /\ k \in 0..Len(lines) /\ k > 0
    BY <1>0 DEF CsvLines
  <1>4. CASE place = "quoted"
    BY <1>2, <1>4, ParseFileIs DEF At, Known
  <1>5. CASE place # "quoted" /\ part = <<>> /\ before = <<>>
    <2>1. ParseCsvBuffer(text) = L
      BY <1>2, <1>5, ParseCsvBufferIs
    <2>2. Scanned(text).at # "quoted"
      BY <1>2, <1>5 DEF At
    <2>. QED  BY <1>3, <2>1, <2>2, CutAtLine
  <1>6. CASE place # "quoted" /\ ~(part = <<>> /\ before = <<>>)
    <2>1. ParseCsvBuffer(text) = LineEnds(cells, L)
      <3>1. ParseCsvBuffer(text) = LineEnds(Append(before, part), L)
        <4> HIDE DEF part, before, L
        <4>1. Scanned(text) = At(place, part, before, L)
          BY <1>2 DEF part, before
        <4>. QED  BY <1>6, <4>1, ParseCsvBufferIs
      <3>. QED  BY <3>1 DEF Beginning
    <2>2. Scanned(text).at # "quoted"
      BY <1>2, <1>6 DEF At
    <2>3. cells \in CsvCells /\ Len(cells) = j /\ Begins(cells, line) /\ cells # << <<>> >>
      <3> HIDE DEF line
      <3>1. line \in CsvCells
        BY <1>0 DEF line
      <3>. QED  BY <1>6, <3>1, BeginningBegins
    <2>4. K \in CsvLines /\ \A m \in 1..Len(K) : Len(K[m]) = Len(header)
      <3> DEFINE first == SubSeq(lines, 1, k - 1)
      <3>1. /\ first \in CsvLines /\ Len(first) = k - 1
            /\ \A m \in 1..k - 1 : first[m] = lines[m] /\ m \in 1..Len(lines)
        BY <1>0 DEF CsvLines
      <3> HIDE DEF first
      <3>2. \A m \in 1..Len(first) : Len(first[m]) = Len(header)
        BY <1>0, <3>1
      <3>3. Kept(first) \in CsvLines /\ \A m \in 1..Len(Kept(first)) : Len(Kept(first)[m]) = Len(header)
        BY <3>1, <3>2, KeptWidth
      <3>. QED  BY <3>3 DEF first
    <2> DEFINE more == Append(K, cells)
    <2> HIDE DEF cells, part, before, K
    <2>5. LineEnds(cells, L) = Append(L, cells)
      BY <2>3 DEF LineEnds
    <2>6. L = <<header>> \o K
      BY DEF LinesRead, K
    <2>7. Append(L, cells) = <<header>> \o more
      <3>1. K \in Seq(CsvCells)
        BY <2>4 DEF CsvLines
      <3>. QED  BY <1>0, <2>3, <2>6, <3>1, SMTT(30)
    <2>8. /\ more \in CsvLines /\ more # <<>> /\ Front(more) = K /\ Last(more) = cells
          /\ Len(more) = Len(K) + 1 /\ Len(K) \in Nat
          /\ \A m \in 1..Len(K) : more[m] = K[m]
      <3>1. /\ K \in Seq(CsvCells) /\ more \in Seq(CsvCells) /\ Len(more) = Len(K) + 1 /\ Len(K) \in Nat
            /\ \A m \in 1..Len(K) : more[m] = K[m]
            /\ more[Len(K) + 1] = cells
        BY <2>3, <2>4 DEF CsvLines
      <3> HIDE DEF more
      <3>2. Last(more) = cells /\ more # <<>>
        BY <3>1 DEF Last
      <3>3. SubSeq(more, 1, Len(K)) = K
        <4>1. SubSeq(more, 1, Len(K)) \in Seq(CsvCells) /\ Len(SubSeq(more, 1, Len(K))) = Len(K)
          BY <3>1
        <4>2. \A m \in 1..Len(K) : SubSeq(more, 1, Len(K))[m] = K[m]
          BY <3>1
        <4>. QED  BY <3>1, <4>1, <4>2, SeqEqual
      <3>4. Front(more) = K
        BY <3>1, <3>3 DEF Front
      <3>. QED  BY <3>1, <3>2, <3>4 DEF CsvLines
    <2> HIDE DEF more
    <2>9. ParseFile(text) = Parse(<<header>> \o more)
      BY <2>1, <2>2, <2>5, <2>7, ParseFileIs
    <2>10. CASE Len(cells) = Len(header)
      <3>1. \A m \in 1..Len(more) : Len(more[m]) = Len(header)
        <4> SUFFICES ASSUME NEW m \in 1..Len(more)
                     PROVE  Len(more[m]) = Len(header)
          OBVIOUS
        <4>1. CASE m \in 1..Len(K)
          BY <2>4, <2>8, <4>1
        <4>2. CASE m = Len(more)
          BY <2>8, <2>10, <4>2 DEF Last
        <4>. QED  BY <2>8, <4>1, <4>2
      <3>2. [header EXCEPT ![1] = StripBom(@)] = header
        <4>1. header = [m \in DOMAIN header |-> header[m]]
          BY <1>0 DEF CsvCells
        <4>. QED  BY <1>0, <4>1
      <3>3. ParseFile(text) = [ok |-> TRUE, header |-> header, lines |-> more]
        BY <1>0, <2>8, <2>9, <3>1, <3>2, ParseOfTable
      <3>4. Len(cells) = Len(lines[k]) /\ Begins(cells, lines[k])
        BY <1>0, <2>3, <2>10
      <3>. QED  BY <1>3, <2>8, <3>3, <3>4 DEF Known, K
    <2>11. CASE Len(cells) # Len(header)
      <3> DEFINE all == <<header>> \o more
                 last == Len(more) + 1
      <3>1. Head(all) = header /\ all[last] = cells /\ last \in 2..Len(all)
        <4>1. more \in Seq(CsvCells) /\ Len(more) \in Nat \ {0} /\ more[Len(more)] = cells
          BY <2>8 DEF CsvLines, Last
        <4>. QED  BY <1>0, <4>1
      <3>2. ~SameWidth(Head(all), all[last])
        BY <2>11, <3>1 DEF SameWidth
      <3> HIDE DEF all, last
      <3>3. ~Parse(all).ok
        BY <3>1, <3>2 DEF Parse
      <3>. QED  BY <2>9, <3>3 DEF Known, all
    <2>. QED  BY <2>10, <2>11
  <1>. QED  BY <1>4, <1>5, <1>6

\* Wherever the writing of a table file stops, what is left does not read, or is
\* the first columns of the header or the first rows of the table, the last name
\* or cell perhaps cut short.
THEOREM EveryCutIsKnown ==
    ASSUME NEW header, NEW lines, CsvTable(header, lines),
           NEW n \in 0..Len(SaveTable(header, lines))
    PROVE  KnownWhenCut(header, lines, n)
  <1> DEFINE whole == SaveTable(header, lines)
             text == SubSeq(whole, 1, n)
  <1>1. /\ header \in CsvCells /\ header \notin {<<>>, << <<>> >>}
        /\ lines \in CsvLines /\ \A k \in 1..Len(lines) : lines[k] # <<>>
    BY CsvTableIs
  <1>2. whole \in CsvCell /\ Within(<<>>, whole, TableStates(header, lines))
    BY <1>1, TableRead
  <1>3. <<>> \o text = text
    BY <1>2 DEF CsvCell
  <1>4. Scanned(text) \in TableStates(header, lines)
    <2> HIDE DEF whole
    <2>1. Scanned(<<>> \o text) \in TableStates(header, lines)
      BY <1>2 DEF Within, whole
    <2>. QED  BY <1>3, <2>1
  <1> SUFFICES Known(ParseFile(text), header, lines)
    BY KnownWhenCutIs
  <1> HIDE DEF text
  <1>5. CASE Scanned(text) \in MidLine(header, <<>>)
    BY <1>5, CutInHeader
  <1>6. CASE Scanned(text) \in AtLine(header, lines)
    <2>1. PICK k \in 0..Len(lines) : Scanned(text) = At("plain", <<>>, <<>>, LinesRead(header, lines, k))
      BY <1>6 DEF AtLine
    <2>2. ParseCsvBuffer(text) = LinesRead(header, lines, k)
      BY <2>1, ParseCsvBufferIs
    <2>3. Scanned(text).at # "quoted"
      BY <2>1 DEF At
    <2>. QED  BY <2>2, <2>3, CutAtLine
  <1>7. CASE Scanned(text) \in InLine(header, lines)
    BY <1>7, CutInLine DEF InLine
  <1>. QED  BY <1>4, <1>5, <1>6, <1>7 DEF TableStates

THEOREM CutFilesKnown == Spec => []CutFilesAreKnown
  <1>2. ASSUME NEW n \in {1, 2}, NEW header \in Headers(n), NEW lines \in CsvRows(n),
               NEW k \in 0..Len(SaveTable(header, lines)) - 1
        PROVE  KnownWhenCut(header, lines, k)
    <2>1. CsvTable(header, lines)
      BY TablesAreTables
    <2>2. header \in CsvCells /\ header \notin {<<>>, << <<>> >>} /\ lines \in CsvLines
          /\ \A m \in 1..Len(lines) : lines[m] # <<>>
      BY <2>1, CsvTableIs
    <2>3. SaveTable(header, lines) \in CsvCell
      BY <2>2, TableRead
    <2>4. k \in 0..Len(SaveTable(header, lines))
      BY <2>3 DEF CsvCell
    <2>. QED  BY <2>1, <2>4, EveryCutIsKnown
  <1>3. \A n \in {1, 2} : AllKnownWhenCut[n]
    BY <1>2 DEF AllKnownWhenCut
  <1>4. CutFilesAreKnown
    BY <1>3 DEF CutFilesAreKnown, Width
  <1>. QED  BY <1>4, PTL
=============================================================================
