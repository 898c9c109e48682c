------------------------------ MODULE MCJoins ------------------------------
(***************************************************************************)
(* Small joins for Joins: up to three rows a side over the cells 1, 01,    *)
(* 1.0, a and the empty text, every type, and the names a condition can    *)
(* use.  The thresholds are scaled so that 2 x 2 rows already hash and     *)
(* 3 x 3 sorted rows merge.                                                *)
(***************************************************************************)
EXTENDS Joins, TLC

CONSTANTS MaxRows   \* bound: rows of one input

MCCell == {"", "01", "1", "1.0", "2", "a"}
MCIntCell == {"01", "1", "2"}
MCNumCell == MCIntCell \cup {"1.0"}
MCValue == ("01" :> 10) @@ ("1" :> 10) @@ ("1.0" :> 10) @@ ("2" :> 20)
MCTextRank ==
    ("" :> 0) @@ ("01" :> 1) @@ ("1" :> 2) @@ ("1.0" :> 3) @@ ("2" :> 4) @@ ("a" :> 5)

Rows(cells, n) == UNION {[1..m -> cells] : m \in 0..n}

Name(q, n) == [q |-> q, n |-> n]
OuterTypes == {"INNER", "LEFT", "RIGHT", "FULL"}

\* The usual condition, l.k = r.m, over every content.
Joined(types, algorithms, cells, n) ==
    [type : types, algorithm : algorithms, op : {"="},
     a : {Name("l", "k")}, b : {Name("r", "m")}, rightName : {"m"},
     left : Rows(cells, n), right : Rows(cells, n)]

\* Other conditions: bare, ambiguous, unknown and one-sided names, and <.
Spelled ==
    [type : OuterTypes, algorithm : {"HASH"}, op : {"=", "<"},
     a : {Name("l", "k"), Name("", "k"), Name("r", "k"), Name("x", "m")},
     b : {Name("r", "m"), Name("", "m"), Name("", "k"), Name("r", "k")},
     rightName : {"k", "m"},
     left : Rows({"1", "2"}, 2), right : Rows({"1", "2"}, 2)]

Crossed ==
    [type : {"CROSS"}, algorithm : {"NESTED_LOOP"}, op : {"none"},
     a : {Name("l", "k")}, b : {Name("r", "m")}, rightName : {"m"},
     left : Rows({"1", "a"}, 2), right : Rows({"1", "a"}, 2)]

MCInputs ==
    Joined(OuterTypes, {"HASH", "MERGE"}, {"1", "2", "a"}, MaxRows)
    \cup Joined(OuterTypes, {"HASH", "NESTED_LOOP", "MERGE"}, {"", "01", "1", "1.0"}, 2)
    \cup Spelled \cup Crossed

\* What CostModel::chooseJoinAlgorithm gives an outer join on one equality.
MCPlanned == Joined({"LEFT", "RIGHT", "FULL"}, {"HASH"}, {"1", "2", "a"}, MaxRows)
=============================================================================
