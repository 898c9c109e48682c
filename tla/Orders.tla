------------------------------- MODULE Orders -------------------------------
(***************************************************************************)
(* Orders: the sign of a comparison, and the enumerations of the loops and *)
(* sorts of the executors.                                                 *)
(***************************************************************************)
EXTENDS Integers, FiniteSets

Sign(x, y) == IF x < y THEN -1 ELSE IF x > y THEN 1 ELSE 0

\* The elements of a finite set in the order that puts before[a] before a.
Ranked(S, before) ==
    [p \in 1..Cardinality(S) |-> CHOOSE a \in S : Cardinality(before[a]) = p - 1]

\* A finite set of positions as a loop over them meets them.
Ascending(S) == Ranked(S, [a \in S |-> {b \in S : b < a}])

\* The elements of a sequence at some of its positions, in their order.
Picked(s, S) == LET order == Ascending(S) IN [p \in DOMAIN order |-> s[order[p]]]

\* The positions 1..n in the order of a sign function, equal ones as they
\* stood: what std::stable_sort makes of them under a weak order.
StableOrder(n, Compare(_, _)) ==
    Ranked(1..n, [a \in 1..n |->
                    {b \in 1..n : Compare(b, a) < 0 \/ (Compare(b, a) = 0 /\ b < a)}])
=============================================================================
