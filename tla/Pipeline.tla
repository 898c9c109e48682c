------------------------------ MODULE Pipeline ------------------------------
(***************************************************************************)
(* The operators above the joins of a plan, pulling rows from each other:  *)
(* filter, aggregation with HAVING, sort, limit, projection and distinct   *)
(* (src/src/execution), in the order createPlan stacks them.               *)
(*                                                                         *)
(* open() drains the input of the blocking operators, aggregation, sort    *)
(* and distinct; limit and projection hand on one row at a time.  A row    *)
(* maps names to cells; a name is <<"col", c>> for a column and <<f, c>>   *)
(* for an aggregate.  errno is a variable of its own: the numeric parsers  *)
(* report an overflow through it and one of them does not clear it.        *)
(***************************************************************************)
EXTENDS Sequences, SequencesExt, Cells

CONSTANTS
    Queries,          \* the statements, with what they are run on
    RangeCell,        \* texts of numbers that strtold cannot hold: ERANGE
    LongCell,         \* texts that strtoll cannot hold: ERANGE
    One,              \* the number one in the unit of Value
    Spell             \* Spell[n]: toNumericString of the number n

----------------------------------------------------------------------------
(* Names and statements *)

Absent == <<"none", "">>
Star == <<"all", "">>
IsAggregate(name) == name[1] \in {"COUNT", "COUNT_DISTINCT", "SUM", "AVG", "MIN", "MAX"}
IsColumn(name) == name[1] = "col"

\* The names a statement asks the rows for, after they are grouped.
NamesOf(q) == ToSet(q.select) \cup {q.having.name, q.orderBy}

\* The numbers in a column, by the positions of the rows that have one.
Numbers(input, column) ==
    [k \in {m \in DOMAIN input : column \in DOMAIN input[m] /\ input[m][column] \in NumCell}
        |-> Value[input[k][column]]]

\* The input is a sequence of rows of cells, and has the columns of WHERE and
\* GROUP BY.
WellTyped(q) ==
    /\ q.input \in Seq(ToSet(q.input)) /\ q.groupBy \in Seq(ToSet(q.groupBy))
    /\ q.limit \in Nat \cup {-1} /\ q.asc \in BOOLEAN /\ q.overflow \in BOOLEAN
    /\ q.orderBy # Star
    /\ q.having.op # "none" => q.having.name \notin {Absent, Star}
    /\ q.select # <<Star>> => ToSet(q.select) \cap {Absent, Star} = {}
    /\ \A name \in NamesOf(q) \ {Absent, Star} : IsColumn(name) \/ IsAggregate(name)
    /\ \A name \in ToSet(q.groupBy) : IsColumn(name)
    /\ \A row \in ToSet(q.input) :
          /\ \A name \in DOMAIN row : IsColumn(name) /\ row[name] \in Cell
          /\ ToSet(q.groupBy) \subseteq DOMAIN row
          /\ q.where.op # "none" => q.where.name \in DOMAIN row

\* What the statement aggregates: its input and the columns.
Summands(q) == {<<q.input, name[2]>> : name \in {n \in NamesOf(q) : IsAggregate(n)}}

\* Bound: long double holds the numbers of an aggregated column, their sums and
\* averages exactly.
InRange(input, c) ==
    LET column == <<"col", c>>
        numbers == Numbers(input, column)
    IN /\ \A row \in ToSet(input) : column \in DOMAIN row => row[column] \notin RangeCell
       /\ \A S \in SUBSET DOMAIN numbers :
             LET total == SumFunctionOnSet(numbers, S)
             IN total \in DOMAIN Spell /\ (S # {} => total \div Cardinality(S) \in DOMAIN Spell)
       /\ \A n \in 0..Len(input) : One * n \in DOMAIN Spell

ASSUME PipelineAssumption ==
    /\ RangeCell \subseteq Cell \ (NumCell \cup {Empty})
    /\ LongCell \subseteq Cell \ (IntCell \cup {Empty})
    /\ One \in Nat \ {0}
    /\ \A n \in DOMAIN Spell : Spell[n] \in NumCell
    /\ \A q \in Queries : WellTyped(q)
    /\ \A s \in UNION {Summands(q) : q \in Queries} : InRange(s[1], s[2])

VARIABLES
    query,            \* the statement, its input rows, errno as it starts
    phase,            \* the operator at work, or how the statement ended
    read,             \* rows pulled from the input
    groups,           \* AggregationExecutor: the groups, in order of appearance
    results,          \* its results_, when there is an aggregation
    buffer,           \* SortExecutor: buffer_
    cursor,           \* rows handed on by the operator below the limit
    answer,           \* the rows the statement delivers
    overflow          \* errno is ERANGE

vars == <<query, phase, read, groups, results, buffer, cursor, answer, overflow>>

----------------------------------------------------------------------------
(* The plan *)

HasWhere == query.where.op # "none"
HasHaving == query.having.op # "none"
Sorts == query.orderBy # Absent

\* Without an aggregate or GROUP BY no AggregationNode is planned, and HAVING,
\* which is a part of it, is not looked at.
Aggregates == query.groupBy # <<>> \/ \E name \in NamesOf(query) : IsAggregate(name)

\* The aggregates to compute, each once: those of SELECT, HAVING and ORDER BY.
Specs == {name \in NamesOf(query) : IsAggregate(name)}

Input == query.input

----------------------------------------------------------------------------
(* Scan and filter *)

Passes(row) ==
    HasWhere => Satisfies(CompareCompiled(row[query.where.name], query.where.lit), query.where.op)

More == read < Len(Input)
NextRow == Input[read + 1]

\* The comparison of a WHERE clears errno before it parses and leaves it as the
\* last parse did: an empty cell is not parsed, and the literal only after a
\* number.
Pull ==
    /\ More
    /\ read' = read + 1
    /\ overflow' =
         IF HasWhere THEN LET cell == NextRow[query.where.name]
                          IN \/ cell \in RangeCell
                             \/ cell \in NumCell /\ query.where.lit \in RangeCell
                             \/ cell = Empty /\ overflow
         ELSE overflow

----------------------------------------------------------------------------
(* AggregationExecutor *)

Fresh == [count |-> 0, sum |-> 0, best |-> Empty, seen |-> {}]

\* compareValues of the aggregation.
CompareKeys(a, b) == CompareNumbersFirst(a, b, NumCell)

\* Mutant: MIN takes an empty cell for a value.
AccumulateEmpty(fn, s, v) ==
    CASE fn \in {"COUNT", "SUM", "AVG"} -> [s EXCEPT !.count = @ + 1,
                !.sum = @ + (IF v \in NumCell THEN Value[v] ELSE 0)]
      [] fn = "COUNT_DISTINCT" -> [s EXCEPT !.seen = @ \cup {v}]
      [] fn \in {"MIN", "MAX"} -> [s EXCEPT !.best = v]

\* One cell into the state of one aggregate.  Only COUNT and COUNT_DISTINCT take
\* an empty cell into account.
Accumulate(fn, s, v) ==
    CASE fn = "COUNT" -> [s EXCEPT !.count = @ + 1]
      [] fn = "COUNT_DISTINCT" -> [s EXCEPT !.seen = @ \cup {v}]
      [] fn \in {"SUM", "AVG"} ->
            IF v = Empty THEN s ELSE [s EXCEPT !.count = @ + 1, !.sum = @ + Value[v]]
      [] fn = "MIN" ->
            IF v # Empty /\ (s.best = Empty \/ CompareKeys(v, s.best) < 0)
            THEN [s EXCEPT !.best = v] ELSE s
      [] fn = "MAX" ->
            IF v # Empty /\ (s.best = Empty \/ CompareKeys(v, s.best) > 0)
            THEN [s EXCEPT !.best = v] ELSE s

\* finalizeAggregate.
Finish(fn, s) ==
    CASE fn = "COUNT" -> Spell[One * s.count]
      [] fn = "COUNT_DISTINCT" -> Spell[One * Cardinality(s.seen)]
      [] fn = "SUM" -> Spell[s.sum]
      [] fn = "AVG" -> IF s.count = 0 THEN Spell[0] ELSE Spell[s.sum \div s.count]
      [] fn \in {"MIN", "MAX"} -> s.best

\* buildGroupKey; without GROUP BY all rows are of one group.
Key(row) == [k \in DOMAIN query.groupBy |-> row[query.groupBy[k]]]
Argument(row, spec) == IF spec[2] = "*" THEN Empty ELSE row[<<"col", spec[2]>>]

\* Mutant: an empty argument is not skipped.
AccumulatesNumber(spec, row) ==
    /\ spec # <<"COUNT", "*">> => <<"col", spec[2]>> \in DOMAIN row
    /\ spec[1] \in {"SUM", "AVG"} => Argument(row, spec) \in NumCell

\* Only COUNT takes a star; elsewhere it is a column that no row has.
Accumulates(spec, row) ==
    /\ spec # <<"COUNT", "*">> => <<"col", spec[2]>> \in DOMAIN row
    /\ spec[1] \in {"SUM", "AVG"} => Argument(row, spec) \in NumCell \cup {Empty}

Added(group, row) ==
    [group EXCEPT !.states = [s \in Specs |-> Accumulate(s[1], @[s], Argument(row, s))]]

NewGroup(row) == [exemplar |-> row, states |-> [s \in Specs |-> Fresh]]
Groups(row) == {k \in DOMAIN groups : Key(groups[k].exemplar) = Key(row)}

\* One turn of the loop of open(): a row that fails the filter is skipped by it.
AggregateRow ==
    /\ phase = "aggregate" /\ Pull
    /\ IF ~Passes(NextRow) THEN UNCHANGED <<groups, phase>>
       ELSE IF \E s \in Specs : ~Accumulates(s, NextRow) THEN phase' = "failed" /\ UNCHANGED groups
       ELSE /\ groups' = IF Groups(NextRow) = {} THEN Append(groups, Added(NewGroup(NextRow), NextRow))
                         ELSE [k \in DOMAIN groups |->
                                IF k \in Groups(NextRow) THEN Added(groups[k], NextRow) ELSE groups[k]]
            /\ UNCHANGED phase
    /\ UNCHANGED <<query, results, buffer, cursor, answer>>

\* The row of a group: its first row, with the aggregates.
RowOf(group) ==
    [name \in Specs \cup DOMAIN group.exemplar |->
        IF name \in Specs THEN Finish(name[1], group.states[name]) ELSE group.exemplar[name]]

\* An empty input without GROUP BY is one group, of no rows.
AllGroups == IF groups = <<>> /\ query.groupBy = <<>> THEN <<NewGroup(<<>>)>> ELSE groups

GroupRows == [k \in DOMAIN AllGroups |-> RowOf(AllGroups[k])]

\* HAVING compares as the interpreter does: decimals as texts.
HavingHolds(row) ==
    HasHaving => Satisfies(CompareInterpreted(row[query.having.name], query.having.lit),
                           query.having.op)

\* The last comparison of HAVING with a cell that is not empty decides errno.
HavingOverflows(cell) ==
    cell \in LongCell \/ (cell \in IntCell /\ query.having.lit \in LongCell)

AfterHaving ==
    LET parsed == {k \in DOMAIN GroupRows : GroupRows[k][query.having.name] # Empty}
    IN IF parsed = {} THEN overflow
       ELSE \E k \in parsed : /\ \A m \in parsed : m <= k
                              /\ HavingOverflows(GroupRows[k][query.having.name])

AfterAggregate == IF Sorts THEN "sort" ELSE "emit"

AggregateEnd ==
    /\ phase = "aggregate" /\ ~More
    /\ IF HasHaving /\ \E k \in DOMAIN GroupRows : query.having.name \notin DOMAIN GroupRows[k]
       THEN phase' = "failed" /\ UNCHANGED <<results, overflow>>
       ELSE /\ results' = Picked(GroupRows, {k \in DOMAIN GroupRows : HavingHolds(GroupRows[k])})
            /\ overflow' = IF HasHaving THEN AfterHaving ELSE overflow
            /\ phase' = AfterAggregate
    /\ UNCHANGED <<query, read, groups, buffer, cursor, answer>>

----------------------------------------------------------------------------
(* SortExecutor *)

Missing(row) == query.orderBy \notin DOMAIN row

\* Draining the aggregation, or the input.
SortRow ==
    /\ phase = "sort"
    /\ \/ /\ Aggregates /\ cursor < Len(results)
          /\ cursor' = cursor + 1
          /\ UNCHANGED <<read, overflow>>
          /\ IF Missing(results[cursor']) THEN phase' = "failed" /\ UNCHANGED buffer
             ELSE buffer' = Append(buffer, results[cursor']) /\ UNCHANGED phase
       \/ /\ ~Aggregates /\ Pull
          /\ UNCHANGED cursor
          /\ IF ~Passes(NextRow) THEN UNCHANGED <<buffer, phase>>
             ELSE IF Missing(NextRow) THEN phase' = "failed" /\ UNCHANGED buffer
             ELSE buffer' = Append(buffer, NextRow) /\ UNCHANGED phase
    /\ UNCHANGED <<query, groups, results, answer>>

Drained == IF Aggregates THEN cursor = Len(results) ELSE ~More

SortKey(p) == buffer[p][query.orderBy]

\* Mutant: ASC or DESC is not applied.
Undirected(sign) == sign

Directed(sign) == IF query.asc THEN sign ELSE -sign

\* compareForSort while errno is clear, and once it is ERANGE: nothing is a
\* number then.
NumbersFirst(a, b) == Directed(CompareNumbersFirst(a, b, NumCell))
AsTexts(a, b) == Directed(CompareText(a, b))

Arranged(Order(_, _)) ==
    LET place == StableOrder(Len(buffer), LAMBDA p, q : Order(SortKey(p), SortKey(q)))
    IN [p \in DOMAIN buffer |-> buffer[place[p]]]

\* A key that overflows changes the comparison in the middle of the sort, which
\* may then leave the rows in any order.
Sort ==
    LET compares == Len(buffer) > 1
        range == compares /\ \E p \in DOMAIN buffer : SortKey(p) \in RangeCell
    IN /\ overflow' = (overflow \/ range)
       /\ \/ ~compares /\ UNCHANGED buffer
          \/ compares /\ overflow /\ buffer' = Arranged(AsTexts)
          \/ compares /\ ~overflow /\ ~range /\ buffer' = Arranged(NumbersFirst)
          \/ /\ range /\ ~overflow
             /\ \E place \in Bijection(DOMAIN buffer, DOMAIN buffer) :
                  buffer' = [p \in DOMAIN buffer |-> buffer[place[p]]]

SortEnd ==
    /\ phase = "sort" /\ Drained
    /\ Sort
    /\ cursor' = 0
    /\ phase' = "emit"
    /\ UNCHANGED <<query, read, groups, results, answer>>

----------------------------------------------------------------------------
(* LimitExecutor, ProjectionExecutor and DistinctExecutor *)

\* The limit is below the projection and distinct: it counts the rows it hands
\* on, not those that remain.
\* Mutant: the limit counts the rows that are left after DISTINCT.
LimitOfAnswer == query.limit # -1 /\ Len(answer) >= query.limit

LimitReached == query.limit # -1 /\ cursor >= query.limit

Below == IF Sorts THEN buffer ELSE results
Streams == ~Sorts /\ ~Aggregates

\* Does nothing come from below the limit any more?
Exhausted == IF Streams THEN ~More ELSE cursor = Len(Below)

Columns(row) == IF query.select = <<Star>> THEN DOMAIN row ELSE ToSet(query.select)
Projected(row) == [name \in Columns(row) |-> row[name]]

\* A row through the projection and, if the query is DISTINCT, past the rows
\* already seen.
Deliver(row) ==
    IF ~(Columns(row) \subseteq DOMAIN row) THEN phase' = "failed" /\ UNCHANGED answer
    ELSE /\ answer' = IF query.distinct /\ Projected(row) \in ToSet(answer) THEN answer
                      ELSE Append(answer, Projected(row))
         /\ UNCHANGED phase

EmitRow ==
    /\ phase = "emit" /\ ~LimitReached
    /\ \/ /\ ~Streams /\ cursor < Len(Below)
          /\ cursor' = cursor + 1
          /\ Deliver(Below[cursor'])
          /\ UNCHANGED <<read, overflow>>
       \/ /\ Streams /\ Pull
          /\ IF Passes(NextRow) THEN cursor' = cursor + 1 /\ Deliver(NextRow)
             ELSE UNCHANGED <<cursor, answer, phase>>
    /\ UNCHANGED <<query, groups, results, buffer>>

Close ==
    /\ phase = "emit" /\ (LimitReached \/ Exhausted)
    /\ phase' = "done"
    /\ UNCHANGED <<query, read, groups, results, buffer, cursor, answer, overflow>>

----------------------------------------------------------------------------

Init ==
    /\ query \in Queries
    /\ phase = IF Aggregates THEN "aggregate" ELSE AfterAggregate
    /\ read = 0 /\ groups = <<>> /\ results = <<>> /\ buffer = <<>>
    /\ cursor = 0 /\ answer = <<>>
    /\ overflow = query.overflow

Next == AggregateRow \/ AggregateEnd \/ SortRow \/ SortEnd \/ EmitRow \/ Close

Spec == Init /\ [][Next]_vars

----------------------------------------------------------------------------
(* Properties *)

\* The positions of the input that pass the filter, and their rows.
Chosen == {k \in DOMAIN Input : Passes(Input[k])}
Passing == Picked(Input, Chosen)
Members(key) == {k \in Chosen : Key(Input[k]) = key}

\* What an aggregate is over the rows at some positions, said at once.
AggregateOf(spec, members) ==
    LET Cells(S) == {Argument(Input[k], spec) : k \in S}
        filled == {k \in members : Argument(Input[k], spec) # Empty}
        total == SumFunctionOnSet(Numbers(Input, <<"col", spec[2]>>), filled)
    IN CASE spec[1] = "COUNT" -> {Spell[One * Cardinality(members)]}
         [] spec[1] = "COUNT_DISTINCT" -> {Spell[One * Cardinality(Cells(members))]}
         [] spec[1] = "SUM" -> {Spell[total]}
         [] spec[1] = "AVG" -> {IF filled = {} THEN Spell[0] ELSE Spell[total \div Cardinality(filled)]}
         [] spec[1] = "MIN" -> IF filled = {} THEN {Empty}
                               ELSE {a \in Cells(filled) : \A b \in Cells(filled) : CompareKeys(a, b) <= 0}
         [] spec[1] = "MAX" -> IF filled = {} THEN {Empty}
                               ELSE {a \in Cells(filled) : \A b \in Cells(filled) : CompareKeys(a, b) >= 0}

\* Every group of the rows that pass the filter has exactly one result, whose
\* aggregates are those of all its rows, and only HAVING can take it away: the
\* running states of open() against their definition.
GroupsAreExact ==
    Aggregates /\ phase \in {"sort", "emit", "done"} =>
        LET keys == {Key(Input[k]) : k \in Chosen}
            Exact(row, members) == \A s \in Specs : row[s] \in AggregateOf(s, members)
        IN IF Chosen = {} /\ query.groupBy = <<>>
           THEN results = <<>> \/ (Len(results) = 1 /\ Exact(results[1], {}))
           ELSE /\ \A k \in DOMAIN results :
                     /\ Key(results[k]) \in keys
                     /\ Exact(results[k], Members(Key(results[k])))
                     /\ HavingHolds(results[k])
                     /\ \A m \in DOMAIN results : Key(results[m]) = Key(results[k]) => m = k
                /\ ~HasHaving => Len(results) = Cardinality(keys)

\* No number out of range is in the statement, left in errno before it, or met
\* by HAVING.
NothingOverflows ==
    /\ ~query.overflow
    /\ \A row \in ToSet(Input) : \A name \in DOMAIN row : row[name] \notin RangeCell
    /\ HasWhere => query.where.lit \notin RangeCell
    /\ Aggregates /\ HasHaving =>
          \A k \in DOMAIN GroupRows : ~HavingOverflows(GroupRows[k][query.having.name])

\* Unless a number out of range was met, ORDER BY puts numbers first, in their
\* order, then texts, turned round by DESC; and in every case it neither loses
\* nor invents a row.
AnswerOrdered ==
    Sorts /\ phase \in {"emit", "done"} =>
        LET from == IF Aggregates THEN results ELSE Passing
        IN /\ \E place \in Bijection(DOMAIN from, DOMAIN from) :
                buffer = [p \in DOMAIN from |-> from[place[p]]]
           /\ NothingOverflows => \A p, q \in DOMAIN buffer : p < q =>
                    LET sign == CompareNumbersFirst(SortKey(p), SortKey(q), NumCell)
                    IN IF query.asc THEN sign <= 0 ELSE sign >= 0

\* A statement that ends delivers the projection of the first rows up to its
\* LIMIT of all that survive, DISTINCT taken after the limit; and a limit that
\* is reached without a sort or an aggregation stops the scan at its last row.
AnswerComplete ==
    phase = "done" =>
        LET from == IF Streams THEN Passing ELSE Below
            some == IF query.limit = -1 \/ query.limit > Len(from) THEN Len(from) ELSE query.limit
            rows == [k \in 1..some |-> Projected(from[k])]
            First(k) == \A m \in 1..(k - 1) : rows[m] # rows[k]
        IN /\ answer = Picked(rows, {k \in 1..some : query.distinct => First(k)})
           /\ Streams => Cardinality({k \in Chosen : k <= read}) = some

\* A SELECT fails only for SUM or AVG over a text that is no number, in a row
\* that passed the filter, or for a name the rows at hand do not have.
FailureHasACause ==
    phase = "failed" =>
        LET Unknown(row) == \E n \in NamesOf(query) \ {Absent, Star} :
                               ~IsAggregate(n) /\ n \notin DOMAIN row
        IN \/ \E k \in Chosen :
                \/ Unknown(Input[k])
                \/ \E s \in Specs :
                      \/ s # <<"COUNT", "*">> /\ <<"col", s[2]>> \notin DOMAIN Input[k]
                      \/ s[1] \in {"SUM", "AVG"} /\ Argument(Input[k], s) \notin NumCell \cup {Empty}
           \/ Aggregates /\ Chosen = {} /\ query.groupBy = <<>> /\ Unknown(<<>>)
=============================================================================
