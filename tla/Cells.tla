------------------------------- MODULE Cells -------------------------------
(***************************************************************************)
(* The values the engine computes with.  Every cell, literal and result is *)
(* a text; what a text means is decided anew by each comparison, and the   *)
(* code has several, which read different texts as numbers.  They are kept *)
(* apart here, each under the name of the code that uses it.               *)
(***************************************************************************)
EXTENDS Orders

CONSTANTS
    Cell,         \* texts
    Empty,        \* the empty text, which also stands for NULL
    IntCell,      \* the texts strtoll reads to their end without overflow
    NumCell,      \* the texts strtold reads to their end without overflow
    Value,        \* Value[c]: the number c spells, in a common unit
    TextRank      \* TextRank[c]: the place of c in the order of std::string

ASSUME CellAssumption ==
    /\ Empty \in Cell
    /\ IntCell \subseteq NumCell
    /\ NumCell \subseteq Cell \ {Empty}
    /\ Value \in [NumCell -> Int]
    /\ TextRank \in [Cell -> Nat]
    /\ \A a, b \in Cell : TextRank[a] = TextRank[b] => a = b

CompareText(a, b) == Sign(TextRank[a], TextRank[b])

\* ExpressionEvaluator::compareValues: integers as numbers, the rest as texts.
CompareInterpreted(a, b) ==
    IF {a, b} \subseteq IntCell THEN Sign(Value[a], Value[b]) ELSE CompareText(a, b)

\* CompiledPredicate::compareValues: any two numbers as numbers.
CompareCompiled(a, b) ==
    IF {a, b} \subseteq NumCell THEN Sign(Value[a], Value[b]) ELSE CompareText(a, b)

\* A total order in which the numbers among S come before all other texts:
\* cmpValues of the merge join, compareForSort, MIN and MAX.
CompareNumbersFirst(a, b, S) ==
    CASE a \in S /\ b \in S       -> Sign(Value[a], Value[b])
      [] a \in S /\ b \notin S    -> -1
      [] a \notin S /\ b \in S    -> 1
      [] a \notin S /\ b \notin S -> CompareText(a, b)

\* How a comparison operator reads the sign.
Satisfies(sign, op) ==
    CASE op = "="  -> sign = 0
      [] op = "#"  -> sign # 0
      [] op = "<"  -> sign < 0
      [] op = ">"  -> sign > 0
      [] op = "<=" -> sign <= 0
      [] op = ">=" -> sign >= 0
=============================================================================
