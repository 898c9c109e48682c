------------------------------- MODULE CsvText -------------------------------
(***************************************************************************)
(* The text of a table file (src/src/storage/csv_loader.cpp): how a table  *)
(* is written, how a text is read, and what is read of a file that stops   *)
(* before its end.  Durability, whose files hold layouts and rows instead  *)
(* of characters, rests on both, and takes a file that is cut for one of a *)
(* few kinds: the properties justify that for the file that is open.       *)
(*                                                                         *)
(* A text is a sequence of characters, a table a header and rows, both     *)
(* sequences of cells.  The byte-order mark is one character.              *)
(***************************************************************************)
EXTENDS Durability, SequencesExt

CONSTANTS
    Character,        \* what cells are made of
    CsvHeaders,       \* headers: sequences of names
    CsvRows(_)        \* CsvRows(n): sequences of rows of n cells

Comma == ","
Mark == "\""
NewLine == "\n"
Return == "\r"
ByteOrderMark == "BOM"

\* A header is not one empty name, a line the reader skips, and begins with no
\* byte-order mark, which parseFile strips.
IsHeader(header) ==
    /\ header \in Seq(Seq(Character))
    /\ header \notin {<<>>, << <<>> >>}
    /\ header[1] = <<>> \/ Head(header[1]) # ByteOrderMark

ASSUME CsvAssumption ==
    /\ {Comma, Mark, NewLine, Return} \subseteq Character
    /\ \A header \in CsvHeaders : IsHeader(header)
    /\ \A n \in {1, 2} : \A lines \in CsvRows(n) :
          /\ lines \in Seq(Seq(Seq(Character)))
          /\ \A k \in DOMAIN lines : Len(lines[k]) = n

----------------------------------------------------------------------------
(* saveTable *)

\* Mutant: a carriage return needs no quotes.
EscapeFieldReturn(cell) ==
    IF ToSet(cell) \cap {Comma, Mark, NewLine} = {} THEN cell
    ELSE <<Mark>> \o FlattenSeq([k \in DOMAIN cell |->
                        IF cell[k] = Mark THEN <<Mark, Mark>> ELSE <<cell[k]>>]) \o <<Mark>>

EscapeField(cell) ==
    IF ToSet(cell) \cap {Comma, Mark, NewLine, Return} = {} THEN cell
    ELSE <<Mark>> \o FlattenSeq([k \in DOMAIN cell |->
                        IF cell[k] = Mark THEN <<Mark, Mark>> ELSE <<cell[k]>>]) \o <<Mark>>

CsvLine(cells) ==
    FlattenSeq([k \in DOMAIN cells |->
        (IF k = 1 THEN <<>> ELSE <<Comma>>) \o EscapeField(cells[k])]) \o <<NewLine>>

SaveTable(header, lines) ==
    CsvLine(header) \o FlattenSeq([k \in DOMAIN lines |-> CsvLine(lines[k])])

----------------------------------------------------------------------------
(* parseCsvBuffer and parseFile *)

Flushed(s) == [s EXCEPT !.cells = Append(@, s.cell), !.cell = <<>>]

\* A line of one empty cell is skipped.
FlushedLine(s) ==
    [Flushed(s) EXCEPT !.cells = <<>>,
        !.lines = IF Flushed(s).cells = << <<>> >> THEN @ ELSE Append(@, Flushed(s).cells)]

Plain(s, c) ==
    CASE c = Mark    -> [s EXCEPT !.at = "quoted"]
      [] c = Comma   -> Flushed(s)
      [] c = NewLine -> FlushedLine(s)
      [] c = Return  -> s
      [] OTHER       -> [s EXCEPT !.cell = Append(@, c)]

\* One character.  A quote inside quotes ends them unless another follows.
ParseChar(s, c) ==
    CASE s.at = "plain" -> Plain(s, c)
      [] s.at = "quoted" -> IF c = Mark THEN [s EXCEPT !.at = "quote"]
                            ELSE [s EXCEPT !.cell = Append(@, c)]
      [] s.at = "quote" -> IF c = Mark THEN [s EXCEPT !.at = "quoted", !.cell = Append(@, c)]
                           ELSE Plain([s EXCEPT !.at = "plain"], c)

Scanned(text) ==
    FoldLeft(ParseChar, [at |-> "plain", cell |-> <<>>, cells |-> <<>>, lines |-> <<>>], text)

\* The lines of a text whose quotes are closed.
ParseCsvBuffer(text) ==
    LET s == Scanned(text) IN
    IF s.cell = <<>> /\ s.cells = <<>> THEN s.lines ELSE FlushedLine(s).lines

StripBom(cell) == IF cell # <<>> /\ Head(cell) = ByteOrderMark THEN Tail(cell) ELSE cell

\* Mutant: a row with too few cells is accepted.
SameWidthAtMost(header, line) == Len(line) <= Len(header)

SameWidth(header, line) == Len(line) = Len(header)

\* parseFile: fails for an open quote, an empty file and a row of another width.
ParseFile(text) ==
    LET lines == ParseCsvBuffer(text)
        fails == [ok |-> FALSE, header |-> <<>>, lines |-> <<>>]
    IN IF Scanned(text).at = "quoted" \/ lines = <<>> THEN fails
       ELSE IF \E k \in 2 .. Len(lines) : ~SameWidth(Head(lines), lines[k]) THEN fails
       ELSE [ok |-> TRUE, header |-> [Head(lines) EXCEPT ![1] = StripBom(@)], lines |-> Tail(lines)]

----------------------------------------------------------------------------
(* What a file tells *)

\* The lines that are not skipped.
Kept(lines) == FlattenSeq([k \in DOMAIN lines |-> IF lines[k] = << <<>> >> THEN <<>> ELSE <<lines[k]>>])

ReadsBack(header, lines) ==
    ParseFile(SaveTable(header, lines)) = [ok |-> TRUE, header |-> header, lines |-> Kept(lines)]

\* The first cells of a line, the last of them perhaps cut short.
Begins(cells, line) ==
    /\ cells # <<>> /\ Len(cells) <= Len(line)
    /\ Front(cells) = SubSeq(line, 1, Len(cells) - 1)
    /\ IsPrefix(Last(cells), line[Len(cells)])

\* The file that stops after n characters is of a kind Durability knows.
KnownWhenCut(header, lines, n) ==
    LET file == ParseFile(SubSeq(SaveTable(header, lines), 1, n))
        Whole(k) == file.lines = Kept(SubSeq(lines, 1, k))
        CutShort(k) ==
            /\ k > 0 /\ file.lines # <<>>
            /\ Front(file.lines) = Kept(SubSeq(lines, 1, k - 1))
            /\ Len(Last(file.lines)) = Len(lines[k]) /\ Begins(Last(file.lines), lines[k])
    IN \/ ~file.ok
       \/ file.lines = <<>> /\ Begins(file.header, header)
       \/ file.header = header /\ \E k \in 0 .. Len(lines) : Whole(k) \/ CutShort(k)

Headers(n) == {header \in CsvHeaders : Len(header) = n}

\* For each number of columns, whether every small table is read back, and
\* whether every file of one that is cut is known.
AllReadBack ==
    [n \in {1, 2} |-> \A header \in Headers(n), lines \in CsvRows(n) : ReadsBack(header, lines)]

AllKnownWhenCut ==
    [n \in {1, 2} |-> \A header \in Headers(n), lines \in CsvRows(n) :
        \A k \in 0 .. Len(SaveTable(header, lines)) - 1 : KnownWhenCut(header, lines, k)]

Width(layout) == IF layout \in Narrow THEN 1 ELSE 2

\* The table whose file is open.
Written == mem[Head(pending)]

WritesTable == opened /\ Head(pending) # Metadata

\* A table that is written is read back, cell by cell, whatever separators and
\* quotes its cells hold; only the row of one empty cell is lost.
SavedTablesReadBack == WritesTable => AllReadBack[Width(Written.layout)]

\* A table file whose writing stops early does not read, or has no rows and the
\* first columns of the table's header, the last of them perhaps cut short, or
\* has the first rows of the table, the last perhaps cut short in its last cell.  No row is
\* made up of two and none has a cell of another: these are the kinds that
\* Durability lets a crash leave behind (Partial).
CutFilesAreKnown == WritesTable => AllKnownWhenCut[Width(Written.layout)]
=============================================================================
