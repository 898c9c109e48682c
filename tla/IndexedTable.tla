---------------------------- MODULE IndexedTable ----------------------------
(***************************************************************************)
(* What the storage layer promises a query with one equality, column =     *)
(* literal, over one table: it is answered from the rows the table has     *)
(* when the query runs, whatever was read or written before.  There is no  *)
(* index, no version and no access path here; TableStore, which has them,  *)
(* implements this specification.                                          *)
(***************************************************************************)
EXTENDS Naturals

CONSTANTS
    Table, Column, Cell,
    Equal(_, _)   \* the = of a pushed predicate

VARIABLES
    rows,         \* rows[t]: from row ids to rows, for each table there is
    schema,       \* schema[t]: the columns the rows of t have
    answer        \* whether the last query threw, and the ids of the rows it read

vars == <<rows, schema, answer>>

\* The rows that hold the very spelling of the literal.
Spelt(t, c, v) == {i \in DOMAIN rows[t] : rows[t][i][c] = v}

\* The rows equal to the literal: 1 and 01 are, in any comparison of numbers.
Matching(t, c, v) == {i \in DOMAIN rows[t] : Equal(rows[t][i][c], v)}

Init ==
    /\ rows = <<>>
    /\ schema = <<>>
    /\ answer = [failed |-> FALSE, ids |-> {}]

\* One table is created or given other rows; no other table is touched.
Write(t) ==
    /\ DOMAIN rows' = DOMAIN rows \cup {t}
    /\ DOMAIN schema' = DOMAIN schema \cup {t}
    /\ \A u \in DOMAIN rows \ {t} : rows'[u] = rows[u] /\ schema'[u] = schema[u]
    /\ UNCHANGED answer

\* A literal spelt as the table spells it finds exactly the rows equal to it.
\* Nothing is promised about a column the table does not have.
Query(t, c, v) ==
    /\ t \in DOMAIN rows
    /\ c \in schema[t] =>
         /\ ~answer'.failed
         /\ Spelt(t, c, v) \subseteq answer'.ids
         /\ answer'.ids \subseteq Matching(t, c, v)
    /\ c \notin schema[t] => answer'.ids \subseteq DOMAIN rows[t]
    /\ UNCHANGED <<rows, schema>>

Next ==
    \/ \E t \in Table : Write(t)
    \/ \E t \in Table, c \in Column, v \in Cell : Query(t, c, v)

Spec == Init /\ [][Next]_vars
=============================================================================
