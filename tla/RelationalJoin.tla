--------------------------- MODULE RelationalJoin ---------------------------
(***************************************************************************)
(* What a join promises the operator above it: rows of the relational     *)
(* join, in some order, and the end of them only when all have been        *)
(* delivered.  A row of the answer is a pair of positions in the two       *)
(* inputs; position 0 is the side filled with empty cells.  Joins, with    *)
(* its three algorithms, implements this specification.                    *)
(***************************************************************************)
EXTENDS JoinAnswer

VARIABLES
    query,        \* [type, pairs, left, right, sound]: see JoinAnswer; sound says
                  \* that the condition names columns the inputs have
    delivered,    \* the rows of the answer delivered so far
    status        \* "open", "ended" (there is no further row), "closed", "failed"

vars == <<query, delivered, status>>

Promised == Answer(query.type, query.pairs, query.left, query.right)

Init ==
    /\ delivered = {}
    /\ status = "open"

Deliver ==
    /\ status = "open"
    /\ \E row \in Promised : delivered' = delivered \cup {row}
    /\ UNCHANGED <<query, status>>

End ==
    /\ status = "open"
    /\ delivered = Promised
    /\ status' = "ended"
    /\ UNCHANGED <<query, delivered>>

\* The consumer may stop early, as LIMIT does.
Close ==
    /\ status \in {"open", "ended"}
    /\ status' = "closed"
    /\ delivered' = {}
    /\ UNCHANGED query

\* Only a condition over columns that are not there makes a join throw.
Fail ==
    /\ status = "open"
    /\ ~query.sound
    /\ status' = "failed"
    /\ UNCHANGED <<query, delivered>>

Next == Deliver \/ End \/ Close \/ Fail

Spec == Init /\ [][Next]_vars
=============================================================================
