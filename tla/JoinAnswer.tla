----------------------------- MODULE JoinAnswer -----------------------------
(***************************************************************************)
(* The relational join, by which every join of the project is judged.  A   *)
(* row of an answer is a pair of positions in the two inputs; position 0   *)
(* is the side filled with empty cells.                                    *)
(***************************************************************************)
EXTENDS Naturals

\* The answer of a join of this type over inputs of left and right rows, of
\* which the condition holds for pairs.
Answer(type, pairs, left, right) ==
    LET lonelyLeft  == {l \in 1..left : \A r \in 1..right : <<l, r>> \notin pairs}
        lonelyRight == {r \in 1..right : \A l \in 1..left : <<l, r>> \notin pairs}
    IN  pairs
        \cup (IF type \in {"LEFT", "FULL"} THEN {<<l, 0>> : l \in lonelyLeft} ELSE {})
        \cup (IF type \in {"RIGHT", "FULL"} THEN {<<0, r>> : r \in lonelyRight} ELSE {})
=============================================================================
