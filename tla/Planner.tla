------------------------------ MODULE Planner ------------------------------
(***************************************************************************)
(* From a SELECT to the plan that is executed: Planner::createPlan         *)
(* (src/src/planner/plan.cpp) with its reordering of joins, and the passes *)
(* of PlanOptimizer (src/src/planner/optimizer.cpp), each an action.       *)
(*                                                                         *)
(* A plan is its body, the tree of scans, joins and filters; the operators *)
(* above it appear as the set of names they read.  Result is what the      *)
(* executors make of a body, with the algorithm each join runs: a row of   *)
(* an answer is the row number it takes from each table, 0 for the side a  *)
(* join fills with empty cells.  The order of the rows is left out, and so *)
(* is the merge join an inner hash join may turn into over MergeSide       *)
(* sorted rows: both are in module Joins, where the merge answers as the   *)
(* hash join does wherever a number has one spelling, the only inputs      *)
(* these properties speak of.                                              *)
(***************************************************************************)
EXTENDS Sequences, SequencesExt, Cells, TLC

CONSTANTS
    Queries,          \* the SELECT statements
    Databases,        \* the contents of the tables they may be planned on
    Schema,           \* Schema[t]: the columns of table t
    DefaultDivisor,   \* 1 / the selectivity of a predicate nothing is known of (10)
    IndexThreshold,   \* rows from which a lookup goes by index (256)
    TinySide,         \* at most so many rows on a side: nested loop (32)
    TinyProduct,      \* or so many pairs (4096)
    Unit              \* bound: costs are kept in multiples of 1 / Unit

ASSUME PlannerAssumption ==
    /\ DefaultDivisor \in Nat \ {0} /\ IndexThreshold \in Nat /\ Unit \in Nat \ {0}
    /\ TinySide \in Nat /\ TinyProduct \in Nat
    /\ \A a, b \in IntCell : Value[a] = Value[b] => a = b

VARIABLES
    query,            \* the SelectStmt
    data,             \* the database it is planned and executed on
    plan,             \* the body of the plan
    stage             \* the pass that comes next

vars == <<query, data, plan, stage>>

----------------------------------------------------------------------------
(* Names and predicates *)

Name(q, n) == [q |-> q, n |-> n]
Bare(x) == Name("", x.n)
IsBare(x) == x.q = ""

Const(v) == [e |-> "const", v |-> v]
None == [e |-> "none"]

IsLogical(p) == p.e \in {"AND", "OR", "NOT"}

Operands(p) ==
    CASE p.e = "cmp" -> {p.a, p.b}
      [] p.e = "in"  -> {p.a} \cup ToSet(p.items)
      [] OTHER       -> {}

\* The comparisons, IN lists, constants and subqueries of a predicate.
RECURSIVE Atoms(_)
Atoms(p) ==
    CASE p.e \in {"AND", "OR"} -> Atoms(p.a) \cup Atoms(p.b)
      [] p.e = "NOT"           -> Atoms(p.a)
      [] p.e = "none"          -> {}
      [] OTHER                 -> {p}

OperandsIn(p) == UNION {Operands(x) : x \in Atoms(p)}
NamesIn(p) == {o.name : o \in {o \in OperandsIn(p) : o.e = "col"}}
HasSubquery(p) == \E x \in Atoms(p) : x.e = "sub"

\* flattenAndConjuncts and makeAndChain.
RECURSIVE Conjuncts(_)
Conjuncts(p) ==
    CASE p.e = "none" -> <<>>
      [] p.e = "AND"  -> Conjuncts(p.a) \o Conjuncts(p.b)
      [] OTHER        -> <<p>>

And(p, q) == [e |-> "AND", a |-> p, b |-> q]

AndChain(ps) ==
    IF ps = <<>> THEN None ELSE FoldLeft(And, Head(ps), Tail(ps))

\* The value of an operand in a row, or nothing when the name is unknown: a
\* compiled predicate tries the part after the dot as well.
Lookup(o, row, compiled) ==
    IF o.e = "lit" THEN {o.v}
    ELSE IF o.name \in DOMAIN row THEN {row[o.name]}
    ELSE IF compiled /\ Bare(o.name) \in DOMAIN row THEN {row[Bare(o.name)]}
    ELSE {}

Compare(a, b, compiled) ==
    IF compiled THEN CompareCompiled(a, b) ELSE CompareInterpreted(a, b)

\* Does the row satisfy the predicate?  Nothing when evaluating it throws.
RECURSIVE Truth(_, _, _)
Truth(p, row, compiled) ==
    CASE p.e = "none" -> {TRUE}
      [] p.e \in {"const", "sub"} -> {p.v}
      [] p.e = "cmp" ->
            {Satisfies(Compare(a, b, compiled), p.op) :
                a \in Lookup(p.a, row, compiled), b \in Lookup(p.b, row, compiled)}
      [] p.e = "in" ->
            LET reached == {k \in DOMAIN p.items :
                    \A m \in 1..k - 1 : Lookup(p.items[m], row, compiled)
                                        \cap Lookup(p.a, row, compiled) = {}}
            IN IF \/ Lookup(p.a, row, compiled) = {}
                  \/ \E k \in reached : Lookup(p.items[k], row, compiled) = {}
               THEN {}
               ELSE {\E k \in reached :
                        Lookup(p.items[k], row, compiled) = Lookup(p.a, row, compiled)}
      [] p.e = "NOT" -> {~t : t \in Truth(p.a, row, compiled)}
      [] p.e = "AND" -> UNION {IF t THEN Truth(p.b, row, compiled) ELSE {FALSE} :
                                    t \in Truth(p.a, row, compiled)}
      [] p.e = "OR"  -> UNION {IF t THEN {TRUE} ELSE Truth(p.b, row, compiled) :
                                    t \in Truth(p.a, row, compiled)}

----------------------------------------------------------------------------
(* Plans: a scan of the t-th table of the query, a join, a filter *)

Count == Len(query.tables)
Table(t) == query.tables[t].table
As(t) == query.tables[t].as
Rows(t) == data[Table(t)]

Scan(t) == [node |-> "scan", t |-> t, pushed |-> None, empty |-> FALSE,
            columns |-> {}, lookup |-> <<>>]
JoinOf(type, algorithm, on, left, right) ==
    [node |-> "join", type |-> type, algorithm |-> algorithm, on |-> on,
     left |-> left, right |-> right]
Filter(p, child) ==
    IF p = None THEN child ELSE [node |-> "filter", pred |-> p, child |-> child]

RECURSIVE Scans(_)
Scans(b) ==
    CASE b.node = "scan"   -> {b}
      [] b.node = "filter" -> Scans(b.child)
      [] b.node = "join"   -> Scans(b.left) \cup Scans(b.right)

TablesOf(b) == {s.t : s \in Scans(b)}
Qualifiers(b) == {As(t) : t \in TablesOf(b)}

\* The predicates of the nodes of a body.
RECURSIVE Predicates(_)
Predicates(b) ==
    CASE b.node = "scan"   -> {b.pushed}
      [] b.node = "filter" -> {b.pred} \cup Predicates(b.child)
      [] b.node = "join"   -> {b.on} \cup Predicates(b.left) \cup Predicates(b.right)

----------------------------------------------------------------------------
(* What a plan answers *)

\* The columns a scan emits: all of them when none of the required ones is its
\* own; and those deriveQualifiedColumns says it has.
Emitted(s) ==
    LET own == Schema[Table(s.t)] IN IF s.columns \cap own = {} THEN own ELSE s.columns \cap own
Derived(b) ==
    UNION {{<<s.t, c>> : c \in IF s.columns = {} THEN Schema[Table(s.t)] ELSE s.columns} :
              s \in Scans(b)}

\* buildUniqueBareNameMap: the columns of a join whose bare names are unique.
UniqueColumns(b) == {d \in Derived(b) : \A o \in Derived(b) : o[2] = d[2] => o = d}

SourceRow(t, r) == [x \in {Name("", c) : c \in Schema[Table(t)]} |-> Rows(t)[r][x.n]]

\* The cells of a row by name.  A join copies the derived columns, empty when
\* its input has none by that name, and adds the bare names that are unique.
RECURSIVE RowOf(_, _)
RowOf(b, row) ==
    CASE b.node = "filter" -> RowOf(b.child, row)
      [] b.node = "scan" ->
            [x \in {Name(q, c) : q \in {"", As(b.t)}, c \in Emitted(b)} |->
                Rows(b.t)[row[b.t]][x.n]]
      [] b.node = "join" ->
            LET Half(side) ==
                    LET cells == IF \A t \in TablesOf(side) : row[t] = 0 THEN <<>>
                                 ELSE RowOf(side, row)
                    IN [x \in {Name(As(d[1]), d[2]) : d \in Derived(side)} |->
                            IF x \in DOMAIN cells THEN cells[x] ELSE Empty]
                qualified == Half(b.left) @@ Half(b.right)
            IN qualified @@ [x \in {Name("", d[2]) : d \in UniqueColumns(b)} |->
                    LET d == CHOOSE d \in UniqueColumns(b) : d[2] = x.n
                    IN qualified[Name(As(d[1]), d[2])]]

Nowhere(b) == [t \in TablesOf(b) |-> 0]

\* Does this side of a join have the column a name stands for?
Finds(b, side, x) ==
    \/ x \in {Name(As(d[1]), d[2]) : d \in Derived(side)}
    \/ \E d \in UniqueColumns(b) : d[1] \in TablesOf(side) /\ x = Name("", d[2])

IsEquality(p) == p.e = "cmp" /\ p.op = "=" /\ p.a.e = "col" /\ p.b.e = "col"

\* extractEquiJoinKeys: the left and the right key, when ON is nothing but an
\* equality of a column of each side.
EquiKeys(b) ==
    IF ~IsEquality(b.on) THEN {}
    ELSE {k \in {<<b.on.a.name, b.on.b.name>>, <<b.on.b.name, b.on.a.name>>} :
            Finds(b, b.left, k[1]) /\ Finds(b, b.right, k[2])}

\* Few enough rows for a nested loop, in multiples of 1 / unit on the left.
Tiny(left, right, unit) ==
    \/ left <= unit * TinySide \/ right <= TinySide
    \/ left * right <= unit * TinyProduct

\* JoinExecutor::chooseAlgorithm: a hash join runs only if it was planned, over
\* keys, and then for every outer join whatever the sizes.
Hashed(b, left, right) ==
    /\ b.algorithm = "HASH" /\ b.type # "CROSS" /\ EquiKeys(b) # {}
    /\ b.type = "INNER" => ~Tiny(left, right, 1)

\* The key of a row of one side; nothing, and an error, when it is not there.
KeyOf(side, row, x) ==
    LET cells == RowOf(side, row) IN IF x \in DOMAIN cells THEN {cells[x]} ELSE {}

\* The join type by its unmatched rows: the RIGHT of a hash join keeps those of
\* both sides.
KeptAs(b, hashed) == IF hashed /\ b.type = "RIGHT" THEN "FULL" ELSE b.type

\* What ON says of a pair of rows: a hash join asks whether their keys are the
\* same text.  Nothing when an expression throws or a key is not there.
Verdict(b, hashed, l, r) ==
    IF ~hashed THEN Truth(b.on, RowOf(b, l @@ r), TRUE)
    ELSE {keys[1] = keys[2] : keys \in
            UNION {KeyOf(b.left, l, k[1]) \X KeyOf(b.right, r, k[2]) : k \in EquiKeys(b)}}

Keyless(b, left, right) ==
    \E k \in EquiKeys(b) : \/ \E l \in left : KeyOf(b.left, l, k[1]) = {}
                           \/ \E r \in right : KeyOf(b.right, r, k[2]) = {}

\* The pairs that match, and the unmatched rows that are kept.
JoinedRows(b, kept, left, right, pairs) ==
    {p[1] @@ p[2] : p \in pairs}
    \cup (IF kept \in {"LEFT", "FULL"}
          THEN {l @@ Nowhere(b.right) : l \in left \ {p[1] : p \in pairs}} ELSE {})
    \cup (IF kept \in {"RIGHT", "FULL"}
          THEN {Nowhere(b.left) @@ r : r \in right \ {p[2] : p \in pairs}} ELSE {})

Judged(b, hashed, left, right, verdict) ==
    [ok |-> /\ left.ok /\ right.ok
            /\ \A p \in DOMAIN verdict : verdict[p] # {}
            /\ hashed => ~Keyless(b, left.rows, right.rows),
     rows |-> JoinedRows(b, KeptAs(b, hashed), left.rows, right.rows,
                         {p \in DOMAIN verdict : TRUE \in verdict[p]})]

Run(b, hashed, left, right) ==
    Judged(b, hashed, left, right,
           [p \in left.rows \X right.rows |-> Verdict(b, hashed, p[1], p[2])])

JoinResult(b, left, right) ==
    Run(b, Hashed(b, Cardinality(left.rows), Cardinality(right.rows)), left, right)

FilterResult(b, child) ==
    LET passes(row) == Truth(b.pred, RowOf(b.child, row), ~HasSubquery(b.pred)) IN
    [ok |-> child.ok /\ \A row \in child.rows : passes(row) # {},
     rows |-> {row \in child.rows : TRUE \in passes(row)}]

\* The rows of a body; ok is false when an expression throws.
RECURSIVE Result(_)
Result(b) ==
    CASE b.node = "scan" ->
            LET all == IF b.empty THEN {} ELSE DOMAIN Rows(b.t)
                hit(r) == IF b.lookup = <<>> THEN Truth(b.pushed, SourceRow(b.t, r), TRUE)
                          ELSE {Rows(b.t)[r][b.lookup[1]] = b.lookup[2]}
            IN [ok |-> \A r \in all : hit(r) # {},
                rows |-> {b.t :> r : r \in {r \in all : TRUE \in hit(r)}}]
      [] b.node = "filter" -> FilterResult(b, Result(b.child))
      [] b.node = "join"   -> JoinResult(b, Result(b.left), Result(b.right))

\* The same with the values of the names read above: these must be there.
Answered(b, result) ==
    LET cells == [row \in result.rows |-> RowOf(b, row)] IN
    [ok |-> result.ok /\ \A row \in result.rows : query.reads \subseteq DOMAIN cells[row],
     rows |-> {<<row, [x \in query.reads \cap DOMAIN cells[row] |-> cells[row][x]]>> :
                  row \in result.rows}]

Final(b) == Answered(b, Result(b))

----------------------------------------------------------------------------
(* createPlan: the order of the joins *)

On(j) == query.joins[j].on
Joins == DOMAIN query.joins

\* The table a qualifier stands for, and the tables an ON predicate reads.
Known == {As(t) : t \in 1..Count}
TableNamed(q) == CHOOSE t \in 1..Count : As(t) = q /\ \A u \in 1..t - 1 : As(u) # q
Mask(j) == {TableNamed(x.q) : x \in NamesIn(On(j))}

\* Only inner joins whose predicates read qualified columns of their tables.
Reorderable ==
    /\ Joins # {}
    /\ \A j \in Joins :
        /\ query.joins[j].type = "INNER"
        /\ NamesIn(On(j)) # {} /\ ~HasSubquery(On(j))
        /\ \A x \in NamesIn(On(j)) : x.q \in Known

\* Mutant: a predicate is ready as soon as one of its tables is there.
ReadyEarly(j, old, t) == t \in Mask(j)

\* The predicates of the step that adds table t to those of old.
Ready(j, old, t) == t \in Mask(j) /\ Mask(j) \subseteq old \cup {t}

Larger(x, y) == IF x >= y THEN x ELSE y

\* StatisticsCatalog: rows, and different non-empty texts of a column.
BaseRows(t) == Larger(1, Len(Rows(t)))
DistinctCount(x) ==
    LET t == TableNamed(x.q) IN
    IF x.n \in Schema[Table(t)]
    THEN Cardinality({Rows(t)[r][x.n] : r \in DOMAIN Rows(t)} \ {Empty}) ELSE 0

\* extractEquiJoinCols: an equality of two qualified columns.
IsEqui(p) == IF IsEquality(p) THEN ~IsBare(p.a.name) /\ ~IsBare(p.b.name) ELSE FALSE

\* 1 / estimatePredicateSelectivity.
Divisor(p) ==
    LET distinct == {DistinctCount(o.name) : o \in Operands(p)} IN
    IF IsEqui(p) /\ 0 \notin distinct THEN CHOOSE d \in distinct : \A o \in distinct : d >= o
    ELSE DefaultDivisor

\* estimateJoinOutputRows, for rows joined with table t.
JoinRows(rows, t, divisor) == Larger(Unit, (rows * BaseRows(t)) \div divisor)

Divisors(js) == FoldSet(LAMBDA j, d : d * Divisor(On(j)), 1, js)

\* The best way to each set of tables; of two that cost the same, the first
\* found, which adds the later table.
Best[S \in SUBSET (1..Count) \ {{}}] ==
    IF Cardinality(S) = 1
    THEN LET t == CHOOSE t \in S : TRUE IN
         [rows |-> Unit * BaseRows(t), cost |-> Unit * BaseRows(t), order |-> <<t>>]
    ELSE LET Via(t) ==
                LET old == Best[S \ {t}]
                    ready == {j \in Joins : Ready(j, S \ {t}, t)}
                    rows == JoinRows(old.rows, t, Divisors(ready))
                IN [rows |-> rows,
                    cost |-> old.cost + rows
                             + (IF ready = {} THEN old.rows * BaseRows(t) ELSE 0),
                    order |-> Append(old.order, t)]
             way == [t \in S |-> Via(t)]
         IN way[CHOOSE t \in S : \A u \in S :
                    way[t].cost < way[u].cost \/ (way[t].cost = way[u].cost /\ t >= u)]

InOrder == [t \in 1..Count |-> t]
Order == IF Reorderable THEN Best[1..Count].order ELSE InOrder

\* The joins whose predicates the n-th table of an order takes: reordered, those
\* that are ready; otherwise the one the query joins it by.
StepJoins(order, reordered, n) ==
    IF reordered THEN {j \in Joins : Ready(j, {order[m] : m \in 1..n - 1}, order[n])}
    ELSE {n - 1}

StepType(reordered, n) == IF reordered THEN "INNER" ELSE query.joins[n - 1].type

\* stepHasEqui: reordered, a predicate that is an equality; otherwise, one that
\* has an equality anywhere in it.
StepEqui(order, reordered, n) ==
    \E j \in StepJoins(order, reordered, n) :
        IF reordered THEN IsEqui(On(j)) ELSE \E p \in Atoms(On(j)) : IsEqui(p)

StepDivisor(order, reordered, n) ==
    IF reordered THEN Divisors(StepJoins(order, TRUE, n))
    ELSE IF StepEqui(order, FALSE, n) THEN DefaultDivisor ELSE 1

\* currentRows: how many rows the first n tables are expected to give.
RECURSIVE Expected(_, _, _)
Expected(order, reordered, n) ==
    IF n = 1 THEN Unit * BaseRows(order[1])
    ELSE JoinRows(Expected(order, reordered, n - 1), order[n], StepDivisor(order, reordered, n))

\* CostModel::chooseJoinAlgorithm, asked with inputs it takes for unsorted.
Planned(type, equi, left, right) ==
    CASE type = "CROSS" \/ ~equi            -> "NESTED_LOOP"
      [] type = "INNER" /\ equi             -> IF Tiny(left, right, Unit) THEN "NESTED_LOOP" ELSE "HASH"
      [] type \notin {"INNER", "CROSS"} /\ equi -> "HASH"

\* The joins of the first n tables of an order.
RECURSIVE JoinTree(_, _, _)
JoinTree(order, reordered, n) ==
    IF n = 1 THEN Scan(order[1])
    ELSE LET joins == Ascending(StepJoins(order, reordered, n))
             type == StepType(reordered, n)
         IN JoinOf(type,
                   Planned(type, StepEqui(order, reordered, n),
                           Expected(order, reordered, n - 1), BaseRows(order[n])),
                   AndChain([k \in DOMAIN joins |-> On(joins[k])]),
                   JoinTree(order, reordered, n - 1),
                   Scan(order[n]))

\* The body of the plan, before the optimizer sees it.
CreatePlan ==
    /\ stage = "create"
    /\ plan' = Filter(query.where, JoinTree(Order, Reorderable, Count))
    /\ stage' = "fold"
    /\ UNCHANGED <<query, data>>

----------------------------------------------------------------------------
(* foldAndEliminate *)

AllLiterals(p) == \A o \in Operands(p) : o.e = "lit"

\* tryEvalConstPredicate, which compares as the interpreter does.
RECURSIVE Constant(_)
Constant(p) ==
    CASE p.e = "const" -> {p.v}
      [] p.e = "none"  -> {TRUE}
      [] p.e = "cmp"   -> IF AllLiterals(p) THEN Truth(p, <<>>, FALSE) ELSE {}
      [] p.e = "in"    -> Truth(p, <<>>, FALSE)
      [] p.e = "NOT"   -> {~t : t \in Constant(p.a)}
      [] p.e = "AND"   ->
            IF FALSE \in Constant(p.a) \cup Constant(p.b) THEN {FALSE}
            ELSE Constant(p.a) \cap Constant(p.b)
      [] p.e = "OR"    ->
            IF TRUE \in Constant(p.a) \cup Constant(p.b) THEN {TRUE}
            ELSE Constant(p.a) \cap Constant(p.b)
      [] OTHER         -> {}

RECURSIVE Simplify(_)
Simplify(p) ==
    LET folded(q) == IF Constant(q) = {} THEN q ELSE Const(TRUE \in Constant(q)) IN
    IF ~IsLogical(p) THEN folded(p)
    ELSE IF p.e = "NOT" THEN folded([p EXCEPT !.a = Simplify(p.a)])
    ELSE LET a == Simplify(p.a)
             b == Simplify(p.b)
             neutral == IF p.e = "AND" THEN {TRUE} ELSE {FALSE}
         IN CASE Constant(a) = {} /\ Constant(b) = {} -> [p EXCEPT !.a = a, !.b = b]
              [] Constant(a) = neutral -> b
              [] Constant(b) = neutral /\ Constant(a) # neutral -> a
              [] OTHER -> Const(p.e = "OR")

\* A filter that is always true goes; one that is always false empties the scan
\* under it, and stays above any other child.
RECURSIVE Fold(_)
Fold(b) ==
    CASE b.node = "scan" -> b
      [] b.node = "join" -> [b EXCEPT !.left = Fold(b.left), !.right = Fold(b.right)]
      [] b.node = "filter" ->
            LET child == Fold(b.child)
                p == Simplify(b.pred)
            IN CASE Constant(p) = {}     -> Filter(p, child)
                 [] Constant(p) = {TRUE} -> child
                 [] OTHER -> IF child.node = "scan" THEN [child EXCEPT !.empty = TRUE]
                             ELSE Filter(Const(FALSE), child)

FoldAndEliminate ==
    /\ stage = "fold"
    /\ plan' = Fold(plan)
    /\ stage' = "combine"
    /\ UNCHANGED <<query, data>>

----------------------------------------------------------------------------
(* combineFilters *)

RECURSIVE Combine(_)
Combine(b) ==
    CASE b.node = "scan" -> b
      [] b.node = "join" -> [b EXCEPT !.left = Combine(b.left), !.right = Combine(b.right)]
      [] b.node = "filter" ->
            LET child == Combine(b.child) IN
            IF child.node = "filter" THEN Filter(And(child.pred, b.pred), child.child)
            ELSE Filter(b.pred, child)

CombineFilters ==
    /\ stage = "combine"
    /\ plan' = Combine(plan)
    /\ stage' = "pushdown"
    /\ UNCHANGED <<query, data>>

----------------------------------------------------------------------------
(* pushdownPredicates *)

\* classifyPredicateSide: a name no qualifier of one side alone explains, or a
\* subquery, keeps the conjunct where it is, and so does reading nothing.
SideOf(p, left, right) ==
    LET Only(these, others) ==
            \A x \in NamesIn(p) : ~IsBare(x) /\ x.q \in these /\ x.q \notin others
    IN CASE HasSubquery(p) \/ NamesIn(p) = {} -> "above"
         [] Only(left, right) /\ ~HasSubquery(p) /\ NamesIn(p) # {} -> "left"
         [] Only(right, left) /\ ~HasSubquery(p) /\ NamesIn(p) # {} -> "right"
         [] OTHER -> "above"

\* Mutant: a join of any type lets a conjunct through.
TypesThroughAny(side) == {"INNER", "LEFT", "RIGHT", "FULL", "CROSS"}

\* The joins a conjunct on a side may pass: those that keep no unmatched row of
\* the other side.
TypesThrough(side) ==
    CASE side = "left"  -> {"INNER", "CROSS", "LEFT"}
      [] side = "right" -> {"INNER", "CROSS", "RIGHT"}
      [] side = "above" -> {}

\* attachFilterToChild.
Attach(child, p) ==
    IF child.node = "filter" /\ p # None THEN Filter(And(child.pred, p), child.child)
    ELSE Filter(p, child)

\* A filter right above a scan becomes its predicate, unless a subquery is in it.
IntoScan(b) ==
    IF b.node # "filter" THEN b
    ELSE IF b.child.node # "scan" \/ HasSubquery(b.pred) THEN b
    ELSE [b.child EXCEPT !.pushed = AndChain(
            (IF @ = None THEN <<>> ELSE <<@>>) \o <<b.pred>>)]

RECURSIVE Pushdown(_)
Pushdown(b) ==
    CASE b.node = "scan" -> b
      [] b.node = "join" -> [b EXCEPT !.left = Pushdown(b.left), !.right = Pushdown(b.right)]
      [] b.node = "filter" ->
            LET child == Pushdown(b.child) IN
            IF child.node # "join" THEN IntoScan(Filter(b.pred, child))
            ELSE LET left == Qualifiers(child.left)
                     right == Qualifiers(child.right)
                     goes(p) == LET side == SideOf(p, left, right) IN
                                IF child.type \in TypesThrough(side) THEN side ELSE "above"
                     Part(where) == AndChain(SelectSeq(Conjuncts(b.pred),
                                                       LAMBDA p : goes(p) = where))
                 IN Filter(Part("above"),
                        [child EXCEPT !.left = Pushdown(Attach(@, Part("left"))),
                                      !.right = Pushdown(Attach(@, Part("right")))])

PushdownPredicates ==
    /\ stage = "pushdown"
    /\ plan' = Pushdown(plan)
    /\ stage' = "prune"
    /\ UNCHANGED <<query, data>>

----------------------------------------------------------------------------
(* applyColumnPruning *)

\* Mutant: the names of the predicates are forgotten.
NamesReadAbove == query.reads

\* collectPlanColumns.
NamesRead == query.reads \cup UNION {NamesIn(p) : p \in Predicates(plan)}

\* Each scan keeps the columns read under its qualifier and every bare name,
\* whichever table's it is.
RECURSIVE Pruned(_)
Pruned(b) ==
    CASE b.node = "scan" ->
            LET names == {x \in NamesRead : x.q = As(b.t) \/ IsBare(x)} IN
            IF names = {} THEN b ELSE [b EXCEPT !.columns = {x.n : x \in names}]
      [] b.node = "filter" -> [b EXCEPT !.child = Pruned(b.child)]
      [] b.node = "join" -> [b EXCEPT !.left = Pruned(b.left), !.right = Pruned(b.right)]

ApplyColumnPruning ==
    /\ stage = "prune"
    /\ plan' = IF query.star \/ \E p \in Predicates(plan) : HasSubquery(p) THEN plan
               ELSE Pruned(plan)
    /\ stage' = "access"
    /\ UNCHANGED <<query, data>>

----------------------------------------------------------------------------
(* chooseAccessPaths *)

\* extractLookupEquality: the pushed predicate is column = literal, the column
\* bare or qualified by the name the scan puts out.
Lookups(s) ==
    LET columns == {o \in Operands(s.pushed) : o.e = "col"}
        named == {o \in columns : IsBare(o.name) \/ o.name.q = As(s.t)}
        literals == {o \in Operands(s.pushed) : o.e = "lit"}
    IN IF s.pushed.e # "cmp" THEN {}
       ELSE IF s.pushed.op # "=" THEN {}
       ELSE {<<c.name.n, l.v>> : c \in named, l \in literals}

RECURSIVE Accessed(_)
Accessed(b) ==
    CASE b.node = "filter" -> [b EXCEPT !.child = Accessed(b.child)]
      [] b.node = "join" -> [b EXCEPT !.left = Accessed(b.left), !.right = Accessed(b.right)]
      [] b.node = "scan" ->
            IF b.empty \/ Len(Rows(b.t)) < IndexThreshold \/ Lookups(b) = {} THEN b
            ELSE [b EXCEPT !.lookup = CHOOSE l \in Lookups(b) : TRUE, !.pushed = None]

ChooseAccessPaths ==
    /\ stage = "access"
    /\ plan' = Accessed(plan)
    /\ stage' = "done"
    /\ UNCHANGED <<query, data>>

----------------------------------------------------------------------------

Init ==
    /\ query \in Queries /\ data \in Databases
    /\ plan = None
    /\ stage = "create"

Next ==
    \/ CreatePlan \/ FoldAndEliminate \/ CombineFilters \/ PushdownPredicates
    \/ ApplyColumnPruning \/ ChooseAccessPaths

Spec == Init /\ [][Next]_vars

----------------------------------------------------------------------------
(* Properties *)

HasPlan == stage # "create"

\* The query as it is written: its joins from left to right, each with its own
\* predicate and run by the same executors, every column of every table, and
\* WHERE over the joined rows.
Written == JoinTree(InOrder, FALSE, Count)

Meaning == Final(Filter(query.where, Written))

\* The texts among these compare alike in every way the code compares.
OneReading(cells) ==
    \A a, b \in cells : /\ CompareInterpreted(a, b) = CompareCompiled(a, b)
                        /\ CompareCompiled(a, b) = 0 => a = b

Literals == {o.v : o \in {o \in OperandsIn(query.where) : o.e = "lit"}}
CellsUsed ==
    Literals \cup UNION {UNION {{Rows(t)[r][c] : c \in Schema[Table(t)]} : r \in DOMAIN Rows(t)} :
                            t \in 1..Count}

\* The cells of the columns an ON predicate names, under these names.
CellsNamed(p) ==
    UNION {{Rows(t)[r][x.n] : r \in DOMAIN Rows(t)} :
              <<t, x>> \in {y \in (1..Count) \X NamesIn(p) : y[2].n \in Schema[Table(y[1])]}}

\* Folding compares literals as the interpreter does; a subquery makes the
\* interpreter read the whole filter; an index and a hash join compare texts.
Unambiguous ==
    /\ OneReading(Literals)
    /\ HasSubquery(query.where) \/ (\E t \in 1..Count : Len(Rows(t)) >= IndexThreshold)
        => OneReading(CellsUsed)
    /\ \A j \in Joins : IsEquality(On(j)) => OneReading(CellsNamed(On(j)))

\* The predicates no step of the order takes.
Lost == IF Reorderable THEN {j \in Joins : Mask(j) = {Order[1]}} ELSE {}

NamesUsed == query.reads \cup NamesIn(query.where) \cup UNION {NamesIn(On(j)) : j \in Joins}

\* Each qualified name is a column of its table.  Others read as empty cells of
\* a join once the scans are pruned, or as another table's column before.
WellNamed ==
    \A x \in NamesUsed :
        IsBare(x) \/ (x.q \in Known /\ x.n \in Schema[Table(TableNamed(x.q))])

\* The tables of the query a bare name can mean.
Owners(n) == {t \in 1..Count : n \in Schema[Table(t)]}

\* The scans are pruned, each to the bare names of all of them.
PrunedJoin ==
    /\ Joins # {} /\ stage \in {"access", "done"}
    /\ ~query.star /\ ~\E p \in Predicates(plan) : HasSubquery(p)

BareOverPruned == PrunedJoin /\ \E x \in NamesUsed : IsBare(x)

\* A RIGHT join that is an equality of a column of each side runs as a hash join
\* and so keeps the unmatched rows of both.
AnsweredAsFull(j) ==
    /\ query.joins[j].type = "RIGHT" /\ IsEqui(On(j))
    /\ \E x, y \in NamesIn(On(j)) : x.q = As(j + 1) /\ y.q # As(j + 1)

\* A conjunct of WHERE over its right table is pushed below it all the same.
WherePastFull ==
    \E j \in Joins :
        /\ AnsweredAsFull(j)
        /\ \A k \in Joins : k > j => query.joins[k].type \in TypesThrough("left")
        /\ \E p \in ToSet(Conjuncts(Simplify(query.where))) :
             NamesIn(p) # {} /\ ~HasSubquery(p) /\ \A x \in NamesIn(p) : x.q = As(j + 1)

\* A row that has none of the right table of a RIGHT join answered as a FULL one.
LeftAlone(row) == \E j \in Joins : AnsweredAsFull(j) /\ row[j + 1] = 0

\* One answer against what it should be, with the two differences there may be.
Agrees(meaning, final) ==
    meaning.ok =>
        /\ final.ok \/ BareOverPruned
        /\ final.ok => /\ meaning.rows \subseteq final.rows
                       /\ \A answer \in final.rows \ meaning.rows :
                            WherePastFull /\ LeftAlone(answer[1])

\* Whatever order the sizes of the tables suggest and whichever passes have
\* run, a query that answers as it is written still answers, and with the same
\* rows.  Two exceptions, against the comment of mergeRows and the list of
\* features: a bare name over a join whose scans are pruned may become an
\* error, and below a RIGHT join that answers as a FULL one a conjunct no longer
\* filters the rows of the left side alone, of which there may be more, and no
\* others.
PlansAgree ==
    HasPlan /\ WellNamed /\ Unambiguous /\ Lost = {} => Agrees(Meaning, Final(plan))

\* No pass drops a column that is read above it: a query whose names are all
\* qualified, or bare and of one table, never fails, at any stage.  The one
\* exception is a bare name over a join whose scans are pruned.
NamesResolve ==
    HasPlan /\ WellNamed /\ ~BareOverPruned
    /\ (\A x \in NamesUsed : IsBare(x) => Cardinality(Owners(x.n)) = 1)
    => Final(plan).ok

OnsOf(ons) == FlattenSeq([k \in DOMAIN ons |-> Conjuncts(ons[k])])
Occurrences(p, ps) == Cardinality({k \in DOMAIN ps : ps[k] = p})

RECURSIVE JoinPredicates(_)
JoinPredicates(b) ==
    CASE b.node = "scan"   -> <<>>
      [] b.node = "filter" -> JoinPredicates(b.child)
      [] b.node = "join"   -> JoinPredicates(b.left) \o JoinPredicates(b.right) \o <<b.on>>

\* A join order keeps every ON predicate at exactly one join, except those that
\* read only the table the order begins with: no join takes these.
OnAppliedOnce ==
    HasPlan =>
        LET kept == OnsOf(JoinPredicates(plan))
            written == OnsOf([j \in Joins |-> IF j \in Lost THEN None ELSE On(j)])
        IN \A p \in ToSet(kept) \cup ToSet(written) : Occurrences(p, kept) = Occurrences(p, written)

\* What the header of the planner says of a join: the rows an inner join
\* delivers satisfy its ON predicate.
RowsSatisfyOn ==
    stage = "done" /\ (\A j \in Joins : query.joins[j].type = "INNER")
        => \A row \in Result(plan).rows, j \in Joins :
            Truth(On(j), RowOf(Written, row), TRUE) = {TRUE}
=============================================================================
