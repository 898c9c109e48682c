---------------------------- MODULE MCDurability ----------------------------
(***************************************************************************)
(* A small data directory for Durability: two layouts, of which the one    *)
(* of one column is a prefix of the other, and two rows, of which one is   *)
(* blank and the other reads as it when its last cell is lost; rules that  *)
(* are lost on the way through metadata.json, and rules it refuses.  For   *)
(* CsvText, tables of up to two columns and two rows whose cells are texts *)
(* of a letter and the characters a CSV file treats specially, and a name  *)
(* with a quote in it, as a file written elsewhere may have.               *)
(***************************************************************************)
EXTENDS CsvText

CONSTANTS wide, narrow, full, s1, lossy, refused

MCShorter == {<<narrow, wide>>}

MCCut == {<<full, Blank>>}

MCRules == {Inferred, lossy, refused}

MCReloaded == [r \in MCRules \ {refused} |-> Inferred]

MCLegacyFiles == {Lines(wide, [s \in {s1} |-> full])}

CsvChar == {"x", Comma, Mark, NewLine, Return}

Words(n) == UNION {[1..k -> CsvChar] : k \in 0..n}

MCCharacter == CsvChar \cup {"a", "b", "c", ByteOrderMark}

MCCsvHeaders == {<< <<"a", Mark>> >>, << <<"a">>, <<"b", "c">> >>}

\* A row of cells of up to two characters, or two rows of shorter ones.
MCCsvRows(n) ==
    LET Tables(rows, chars) == UNION {[1..k -> [1..n -> Words(chars)]] : k \in 0..rows}
    IN Tables(1, 2) \cup Tables(2, 1)
=============================================================================
