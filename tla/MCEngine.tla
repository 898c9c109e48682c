----------------------------- MODULE MCEngine ------------------------------
(***************************************************************************)
(* A small database for Engine: three names of which two differ only in    *)
(* case, two columns a and b, and the column kinds whose constraints       *)
(* interact: an INT key, and an ENUM, stored as text with a CHECK, that    *)
(* references it.                                                          *)
(***************************************************************************)
EXTENDS Engine, TLC

CONSTANTS p, P, q, a, b, one, true, false

MCFold == (p :> p) @@ (P :> p) @@ (q :> q)

Typed(kind) == [kind |-> kind, values |-> {}]

Enum(values) == [kind |-> "ENUM", values |-> values]

Plain(type) ==
    [type |-> type, primaryKey |-> FALSE, unique |-> FALSE,
     notNull |-> FALSE, foreignKey |-> NoRef, check |-> NoCheck]

\* INT PRIMARY KEY; ENUM('1','true') REFERENCES p(a)
MCColumnDefs ==
    {[Plain(Typed("INT")) EXCEPT !.primaryKey = TRUE],
     [Plain(Enum({one, true})) EXCEPT !.foreignKey = <<p, a>>]}

MCNewTypes == {Typed("BOOLEAN"), Enum({one})}

\* CHECK (a <> b)
Differ == [args |-> <<a, b>>, left |-> {1}, compact |-> FALSE,
           accepts |-> {<<u, v>> \in Cell \X (Cell \cup Column) : u # v}]

MCTableChecks == {Differ}

MCLiterals == {one, true}

SlotSymmetry == Permutations(Slot)
=============================================================================
