--------------------------- MODULE PipelineProofs ---------------------------
(***************************************************************************)
(* Theorems about Pipeline: the rows of the groups, their aggregates, the  *)
(* order and the completeness of the answer, and the causes of failure.    *)
(*                                                                         *)
(* IInv, the inductive invariant, says of each operator what it holds so   *)
(* far: the groups are those of the rows pulled, each state that of the    *)
(* rows of its group; the buffer is a prefix of what the sort drains; the  *)
(* answer is made of the rows the limit has handed on.                     *)
(***************************************************************************)
EXTENDS Pipeline, Traces

----------------------------------------------------------------------------
(* Comparisons of cells *)

\* CompareNumbersFirst is a weak order on cells.
LEMMA NumbersFirstIsWeakOrder ==
    ASSUME NEW S \in SUBSET NumCell, NEW a \in Cell, NEW b \in Cell, NEW c \in Cell
    PROVE  LET Compare(x, y) == CompareNumbersFirst(x, y, S) IN
           /\ Compare(a, b) \in {-1, 0, 1}
           /\ Compare(a, a) = 0
           /\ Compare(a, b) < 0 <=> Compare(b, a) > 0
           /\ Compare(a, b) = 0 <=> Compare(b, a) = 0
           /\ Compare(a, b) <= 0 /\ Compare(b, c) <= 0 => Compare(a, c) <= 0
           /\ Compare(a, b) < 0 /\ Compare(b, c) <= 0 => Compare(a, c) < 0
           /\ Compare(a, b) <= 0 /\ Compare(b, c) < 0 => Compare(a, c) < 0
           /\ Compare(a, b) = 0 /\ Compare(b, c) = 0 => Compare(a, c) = 0
<1> DEFINE place == [x \in Cell |-> IF x \in S THEN Value[x] ELSE TextRank[x]]
           sign == [p \in Cell \X Cell |-> CompareNumbersFirst(p[1], p[2], S)]
<1>1. place \in [Cell -> Int]
  BY CellAssumption
<1>2. \A x, y \in Cell : sign[<<x, y>>] = CompareNumbersFirst(x, y, S)
  OBVIOUS
<1>3. ASSUME NEW x \in Cell, NEW y \in Cell
      PROVE  sign[<<x, y>>] = IF x \in S /\ y \notin S THEN -1
                             ELSE IF x \notin S /\ y \in S THEN 1
                             ELSE Sign(place[x], place[y])
  BY DEF CompareNumbersFirst, CompareText
<1> HIDE DEF place, sign
<1>4. /\ sign[<<a, b>>] \in {-1, 0, 1}
      /\ sign[<<a, a>>] = 0
      /\ sign[<<a, b>>] < 0 <=> sign[<<b, a>>] > 0
      /\ sign[<<a, b>>] = 0 <=> sign[<<b, a>>] = 0
      /\ sign[<<a, b>>] <= 0 /\ sign[<<b, c>>] <= 0 => sign[<<a, c>>] <= 0
      /\ sign[<<a, b>>] < 0 /\ sign[<<b, c>>] <= 0 => sign[<<a, c>>] < 0
      /\ sign[<<a, b>>] <= 0 /\ sign[<<b, c>>] < 0 => sign[<<a, c>>] < 0
      /\ sign[<<a, b>>] = 0 /\ sign[<<b, c>>] = 0 => sign[<<a, c>>] = 0
  <2>1. KindThenPlace(Cell, S, place, sign)
    BY <1>1, <1>3 DEF KindThenPlace
  <2> QED BY <2>1, TwoKindsAreOrdered
<1>5. /\ sign[<<a, a>>] = CompareNumbersFirst(a, a, S)
      /\ sign[<<a, b>>] = CompareNumbersFirst(a, b, S)
      /\ sign[<<b, a>>] = CompareNumbersFirst(b, a, S)
      /\ sign[<<b, c>>] = CompareNumbersFirst(b, c, S)
      /\ sign[<<a, c>>] = CompareNumbersFirst(a, c, S)
  BY <1>2
<1> QED BY <1>4, <1>5

\* The signs of CompareNumbersFirst over a row of keys are a weak order.
LEMMA KeySigns ==
    ASSUME NEW S \in SUBSET NumCell, NEW n \in Nat, NEW keys \in [1..n -> Cell]
    PROVE  IsWeakOrder([a \in 1..n |->
                           [b \in 1..n |-> CompareNumbersFirst(keys[a], keys[b], S)]], n)
<1> DEFINE sign == [a \in 1..n |-> [b \in 1..n |-> CompareNumbersFirst(keys[a], keys[b], S)]]
<1>1. \A a \in 1..n : keys[a] \in Cell
  OBVIOUS
<1>2. \A a, b \in 1..n : sign[a][b] = CompareNumbersFirst(keys[a], keys[b], S)
  OBVIOUS
<1>3. \A a, b \in 1..n : CompareNumbersFirst(keys[a], keys[b], S) \in {-1, 0, 1}
  BY <1>1, NumbersFirstIsWeakOrder
<1>4. sign \in [1..n -> [1..n -> {-1, 0, 1}]]
  BY <1>3
<1> HIDE DEF sign
<1> QED BY <1>1, <1>2, <1>4, NumbersFirstIsWeakOrder DEF IsWeakOrder, sign

----------------------------------------------------------------------------
(* The statement and its input *)

\* What PipelineAssumption says of the statement that runs.
LEMMA QueryShape ==
    ASSUME query \in Queries
    PROVE  /\ WellTyped(query)
           /\ Input \in Seq(ToSet(Input)) /\ Len(Input) \in Nat /\ DOMAIN Input = 1..Len(Input)
           /\ query.groupBy \in Seq(ToSet(query.groupBy))
           /\ \A k \in DOMAIN Input : Input[k] \in ToSet(Input)
           /\ \A s \in Specs : InRange(Input, s[2])
<1>1. WellTyped(query)
  BY PipelineAssumption
<1>2. Input \in Seq(ToSet(Input)) /\ query.groupBy \in Seq(ToSet(query.groupBy))
  BY <1>1 DEF WellTyped, Input
<1>3. \A k \in DOMAIN Input : Input[k] \in ToSet(Input)
  BY DEF ToSet
<1>4. ASSUME NEW s \in Specs
      PROVE  InRange(Input, s[2])
  <2>1. <<query.input, s[2]>> \in Summands(query)
    BY DEF Summands, Specs
  <2>2. \A t \in Summands(query) : InRange(t[1], t[2])
    BY PipelineAssumption
  <2>3. InRange(<<query.input, s[2]>>[1], <<query.input, s[2]>>[2])
    BY <2>1, <2>2, Zenon
  <2> QED BY <2>3 DEF Input
<1> QED BY <1>1, <1>2, <1>3, <1>4

\* A row of the input.
LEMMA RowShape ==
    ASSUME query \in Queries, NEW k \in DOMAIN Input
    PROVE  /\ \A name \in DOMAIN Input[k] : IsColumn(name) /\ Input[k][name] \in Cell
           /\ \A name \in ToSet(query.groupBy) : name \in DOMAIN Input[k] /\ IsColumn(name)
           /\ HasWhere => query.where.name \in DOMAIN Input[k]
BY QueryShape DEF WellTyped, Input, HasWhere

\* The positions that pass the filter.
LEMMA ChosenShape ==
    ASSUME query \in Queries
    PROVE  /\ Chosen \in SUBSET (1..Len(Input)) /\ Len(Input) \in Nat
           /\ IsFiniteSet(Chosen) /\ Cardinality(Chosen) \in Nat
<1>1. Len(Input) \in Nat /\ Chosen \in SUBSET (1..Len(Input))
  BY QueryShape DEF Chosen
<1> QED BY <1>1, Positions

----------------------------------------------------------------------------
(* The state of an aggregate *)

State == [count : Nat, sum : Int, best : Cell, seen : SUBSET Cell]

\* The rows among members whose argument is not empty, and their cells.
Filled(spec, members) == {k \in members : Argument(Input[k], spec) # Empty}
CellsAt(spec, S) == {Argument(Input[k], spec) : k \in S}

\* st is the state after the rows at the positions members, whatever their order.
StateOf(spec, members, st) ==
    LET filled == Filled(spec, members)
        cells == CellsAt(spec, filled)
    IN /\ st \in State
       /\ spec[1] = "COUNT" => st.count = Cardinality(members)
       /\ spec[1] = "COUNT_DISTINCT" => st.seen = CellsAt(spec, members)
       /\ spec[1] \in {"SUM", "AVG"} =>
             /\ st.count = Cardinality(filled)
             /\ st.sum = SumFunctionOnSet(Numbers(Input, <<"col", spec[2]>>), filled)
       /\ spec[1] = "MIN" => IF filled = {} THEN st.best = Empty
                             ELSE st.best \in cells /\ \A a \in cells : CompareKeys(st.best, a) <= 0
       /\ spec[1] = "MAX" => IF filled = {} THEN st.best = Empty
                             ELSE st.best \in cells /\ \A a \in cells : CompareKeys(st.best, a) >= 0

\* Every row at these positions has an argument for the aggregate.
AllAccumulate(spec, members) == \A k \in members : Accumulates(spec, Input[k])

\* What an aggregate reads of a row is a cell.
LEMMA ArgumentCell ==
    ASSUME query \in Queries, NEW spec, NEW k \in DOMAIN Input, Accumulates(spec, Input[k])
    PROVE  Argument(Input[k], spec) \in Cell
<1>1. CASE spec[2] = "*"
  BY <1>1, CellAssumption DEF Argument
<1>2. CASE spec[2] # "*"
  <2>1. spec # <<"COUNT", "*">>
    BY <1>2
  <2>2. <<"col", spec[2]>> \in DOMAIN Input[k]
    BY <2>1 DEF Accumulates
  <2> QED BY <1>2, <2>2, RowShape DEF Argument
<1> QED BY <1>1, <1>2

\* SUM and AVG add numbers of their column.
LEMMA SummandNumber ==
    ASSUME query \in Queries, NEW spec, spec[1] \in {"SUM", "AVG"},
           NEW k \in DOMAIN Input, Accumulates(spec, Input[k]),
           Argument(Input[k], spec) # Empty
    PROVE  LET numbers == Numbers(Input, <<"col", spec[2]>>) IN
           /\ k \in DOMAIN numbers
           /\ numbers[k] = Value[Argument(Input[k], spec)]
<1>1. spec[2] # "*" /\ spec # <<"COUNT", "*">>
  BY DEF Argument
<1>2. <<"col", spec[2]>> \in DOMAIN Input[k] /\ Argument(Input[k], spec) = Input[k][<<"col", spec[2]>>]
  BY <1>1 DEF Accumulates, Argument
<1>3. Argument(Input[k], spec) \in NumCell
  BY DEF Accumulates
<1> QED BY <1>2, <1>3 DEF Numbers

\* The numbers of a column.
LEMMA NumbersShape ==
    ASSUME NEW column
    PROVE  LET numbers == Numbers(Input, column) IN
           /\ numbers \in [DOMAIN numbers -> Int]
           /\ DOMAIN numbers \subseteq DOMAIN Input
BY CellAssumption DEF Numbers

\* The state before any row.
LEMMA FreshState ==
    ASSUME query \in Queries, NEW spec
    PROVE  StateOf(spec, {}, Fresh)
<1>1. Filled(spec, {}) = {} /\ CellsAt(spec, {}) = {} /\ Cardinality({}) = 0
  BY FS_EmptySet DEF Filled, CellsAt
<1>2. SumFunctionOnSet(Numbers(Input, <<"col", spec[2]>>), {}) = 0
  <2> DEFINE numbers == Numbers(Input, <<"col", spec[2]>>)
  <2>1. numbers \in [DOMAIN numbers -> Int] /\ {} \in SUBSET DOMAIN numbers /\ IsFiniteSet({})
    BY NumbersShape, FS_EmptySet
  <2> HIDE DEF numbers
  <2>2. SumFunctionOnSet(numbers, {}) = 0
    BY <2>1, SumUnfolds
  <2> QED BY <2>2 DEF numbers
<1>3. Fresh \in State
  BY CellAssumption DEF Fresh, State
<1> QED BY <1>1, <1>2, <1>3 DEF StateOf, Fresh

\* The order of MIN and MAX.
LEMMA KeyOrder ==
    ASSUME NEW a \in Cell, NEW b \in Cell, NEW c \in Cell
    PROVE  /\ CompareKeys(a, b) \in {-1, 0, 1}
           /\ CompareKeys(a, a) = 0
           /\ CompareKeys(a, b) < 0 <=> CompareKeys(b, a) > 0
           /\ CompareKeys(a, b) <= 0 /\ CompareKeys(b, c) <= 0 => CompareKeys(a, c) <= 0
<1>1. NumCell \in SUBSET NumCell
  OBVIOUS
<1>2. /\ CompareKeys(a, b) \in {-1, 0, 1} /\ CompareKeys(b, c) \in {-1, 0, 1}
      /\ CompareKeys(a, c) \in {-1, 0, 1}
      /\ CompareKeys(a, a) = 0
      /\ CompareKeys(a, b) < 0 <=> CompareKeys(b, a) > 0
      /\ CompareKeys(a, b) < 0 /\ CompareKeys(b, c) <= 0 => CompareKeys(a, c) < 0
      /\ CompareKeys(a, b) <= 0 /\ CompareKeys(b, c) < 0 => CompareKeys(a, c) < 0
      /\ CompareKeys(a, b) = 0 /\ CompareKeys(b, c) = 0 => CompareKeys(a, c) = 0
  BY <1>1, NumbersFirstIsWeakOrder DEF CompareKeys
<1> QED BY <1>2

\* The positions and cells of one row more.
LEMMA FilledNext ==
    ASSUME NEW spec, NEW members, NEW k
    PROVE  LET v == Argument(Input[k], spec) IN
           /\ Filled(spec, members \cup {k}) = IF v = Empty THEN Filled(spec, members)
                                               ELSE Filled(spec, members) \cup {k}
           /\ CellsAt(spec, members \cup {k}) = CellsAt(spec, members) \cup {v}
BY DEF Filled, CellsAt

\* One row more: the running state of AggregationExecutor::open stays that of
\* the rows so far.
LEMMA StateStep ==
    ASSUME query \in Queries, NEW spec \in Specs,
           NEW members \in SUBSET DOMAIN Input, AllAccumulate(spec, members),
           NEW k \in DOMAIN Input, k \notin members, Accumulates(spec, Input[k]),
           NEW st, StateOf(spec, members, st)
    PROVE  StateOf(spec, members \cup {k}, Accumulate(spec[1], st, Argument(Input[k], spec)))
<1> DEFINE v == Argument(Input[k], spec)
           next == Accumulate(spec[1], st, v)
           filled == Filled(spec, members)
           after == Filled(spec, members \cup {k})
           cells == CellsAt(spec, filled)
           numbers == Numbers(Input, <<"col", spec[2]>>)
<1>1. v \in Cell /\ st \in State
  BY ArgumentCell DEF StateOf
<1>2. /\ IsFiniteSet(members) /\ Cardinality(members) \in Nat
      /\ IsFiniteSet(filled) /\ Cardinality(filled) \in Nat
      /\ filled \subseteq members
  <2>1. members \in SUBSET (1..Len(Input)) /\ Len(Input) \in Nat
    BY QueryShape
  <2>2. filled \subseteq members
    BY DEF Filled
  <2> QED BY <2>1, <2>2, Positions
<1>3. /\ after = IF v = Empty THEN filled ELSE filled \cup {k}
      /\ CellsAt(spec, members \cup {k}) = CellsAt(spec, members) \cup {v}
      /\ CellsAt(spec, filled \cup {k}) = cells \cup {v}
  <2>1. /\ after = IF v = Empty THEN filled ELSE filled \cup {k}
        /\ CellsAt(spec, members \cup {k}) = CellsAt(spec, members) \cup {v}
    BY FilledNext
  <2>2. CellsAt(spec, filled \cup {k}) = cells \cup {v}
    BY DEF CellsAt
  <2> QED BY <2>1, <2>2
<1>4. Cardinality(members \cup {k}) = Cardinality(members) + 1
      /\ Cardinality(filled \cup {k}) = Cardinality(filled) + 1
  BY <1>2, FS_AddElement
<1>5. cells \subseteq Cell \ {Empty}
  <2> SUFFICES ASSUME NEW m \in filled PROVE Argument(Input[m], spec) \in Cell \ {Empty}
    BY DEF CellsAt
  <2>1. m \in members /\ Argument(Input[m], spec) # Empty
    BY DEF Filled
  <2> QED BY <2>1, ArgumentCell DEF AllAccumulate
<1>6. filled = {} <=> cells = {}
  BY DEF CellsAt
<1>7. IsAggregate(spec)
  BY DEF Specs
<1> HIDE DEF v, filled, after, cells
<1>8. CASE spec[1] = "COUNT"
  <2>1. next = [st EXCEPT !.count = @ + 1]
    BY <1>8 DEF Accumulate
  <2>2. next \in State /\ next.count = Cardinality(members) + 1
    BY <1>1, <1>2, <1>8, <2>1 DEF State, StateOf
  <2> HIDE DEF next
  <2> QED BY <1>4, <1>8, <2>2 DEF StateOf, next, v
<1>9. CASE spec[1] = "COUNT_DISTINCT"
  <2>1. next = [st EXCEPT !.seen = @ \cup {v}]
    BY <1>9 DEF Accumulate
  <2>2. next \in State /\ next.seen = CellsAt(spec, members) \cup {v}
    BY <1>1, <1>9, <2>1 DEF State, StateOf
  <2> HIDE DEF next
  <2> QED BY <1>3, <1>9, <2>2 DEF StateOf, next, v
<1>10. CASE spec[1] \in {"SUM", "AVG"}
  <2>1. next = IF v = Empty THEN st ELSE [st EXCEPT !.count = @ + 1, !.sum = @ + Value[v]]
    BY <1>10 DEF Accumulate
  <2>2. st.count = Cardinality(filled) /\ st.sum = SumFunctionOnSet(numbers, filled)
    BY <1>10 DEF StateOf, filled
  <2>3. CASE v = Empty
    <3>1. next = st /\ after = filled
      BY <1>3, <2>1, <2>3
    <3> HIDE DEF next
    <3> QED BY <1>1, <1>10, <2>2, <3>1 DEF StateOf, next, v, after
  <2>4. CASE v # Empty
    <3>1. numbers \in [DOMAIN numbers -> Int]
      BY NumbersShape
    <3>2. k \in DOMAIN numbers /\ numbers[k] = Value[v]
      BY <1>10, <2>4, SummandNumber DEF v
    <3>3. filled \in SUBSET DOMAIN numbers
      <4> SUFFICES ASSUME NEW m \in filled PROVE m \in DOMAIN numbers
        OBVIOUS
      <4>1. m \in members /\ Argument(Input[m], spec) # Empty /\ Accumulates(spec, Input[m])
        BY DEF filled, Filled, AllAccumulate
      <4> QED BY <1>10, <4>1, SummandNumber
    <3> HIDE DEF numbers
    <3>4. /\ SumFunctionOnSet(numbers, filled \cup {k}) = SumFunctionOnSet(numbers, filled) + Value[v]
          /\ SumFunctionOnSet(numbers, filled) \in Int
      <4>1. k \in DOMAIN numbers \ filled
        BY <1>2, <3>2
      <4> DEFINE D == DOMAIN numbers
      <4>2. k \in D \ filled /\ filled \in SUBSET D /\ numbers \in [D -> Int]
        BY <3>1, <3>3, <4>1
      <4> HIDE DEF D
      <4>3. SumFunctionOnSet(numbers, filled \cup {k}) = SumFunctionOnSet(numbers, filled) + numbers[k]
        BY <1>2, <4>2, SumAdds
      <4>4. SumFunctionOnSet(numbers, filled) \in Int
        BY <1>2, <4>2, SumUnfolds
      <4> QED BY <3>2, <4>3, <4>4
    <3>5. Value[v] \in Int
      BY <3>1, <3>2
    <3>6. next \in State /\ next.count = Cardinality(filled) + 1
          /\ next.sum = SumFunctionOnSet(numbers, filled) + Value[v]
      <4>1. next = [st EXCEPT !.count = @ + 1, !.sum = @ + Value[v]]
        BY <2>1, <2>4
      <4>2. PICK c \in Nat, t \in Int, b \in Cell, e \in SUBSET Cell :
                st = [count |-> c, sum |-> t, best |-> b, seen |-> e]
        BY <1>1 DEF State
      <4> HIDE DEF next
      <4>3. next = [count |-> c + 1, sum |-> t + Value[v], best |-> b, seen |-> e]
        BY <4>1, <4>2
      <4>4. c + 1 \in Nat /\ t + Value[v] \in Int
        BY <3>5
      <4>5. c = Cardinality(filled) /\ t = SumFunctionOnSet(numbers, filled)
        BY <2>2, <4>2
      <4> QED BY <4>3, <4>4, <4>5 DEF State
    <3>7. after = filled \cup {k}
      BY <1>3, <2>4
    <3> HIDE DEF next
    <3> QED BY <1>4, <1>10, <3>4, <3>6, <3>7 DEF StateOf, next, v, after, numbers
  <2> QED BY <2>3, <2>4
<1>11. CASE spec[1] = "MIN"
  <2>1. next = IF v # Empty /\ (st.best = Empty \/ CompareKeys(v, st.best) < 0)
               THEN [st EXCEPT !.best = v] ELSE st
    BY <1>11 DEF Accumulate
  <2>2. IF filled = {} THEN st.best = Empty
        ELSE st.best \in cells /\ \A a \in cells : CompareKeys(st.best, a) <= 0
    BY <1>11 DEF StateOf, filled, cells
  <2>3. next \in State /\ st.best \in Cell
    BY <1>1, <2>1 DEF State
  <2>4. CASE v = Empty
    <3>1. next = st /\ after = filled
      BY <1>3, <2>1, <2>4
    <3> HIDE DEF next
    <3> QED BY <1>1, <1>11, <2>2, <3>1 DEF StateOf, next, v, after, cells
  <2>5. CASE v # Empty
    <3>1. after = filled \cup {k} /\ CellsAt(spec, after) = cells \cup {v} /\ after # {}
      BY <1>3, <2>5
    <3>2. next.best = IF st.best = Empty \/ CompareKeys(v, st.best) < 0 THEN v ELSE st.best
      BY <1>1, <2>1, <2>5 DEF State
    <3>3. next.best \in cells \cup {v}
      BY <1>6, <2>2, <3>2
    <3>4. ASSUME NEW a \in cells \cup {v}
          PROVE  CompareKeys(next.best, a) <= 0
      <4>1. a \in Cell /\ v \in Cell /\ \A b \in cells : b \in Cell \ {Empty}
        BY <1>1, <1>5
      <4>2. CASE cells = {}
        <5>1. a = v /\ next.best = v
          BY <1>6, <2>2, <3>2, <4>2
        <5>2. CompareKeys(v, v) = 0
          BY <1>1, KeyOrder
        <5> QED BY <5>1, <5>2
      <4>3. CASE cells # {}
        <5>1. st.best \in Cell \ {Empty} /\ \A b \in cells : CompareKeys(st.best, b) <= 0
          BY <1>6, <2>2, <4>1, <4>3
        <5>2. /\ CompareKeys(v, st.best) \in {-1, 0, 1} /\ CompareKeys(st.best, v) \in {-1, 0, 1}
              /\ CompareKeys(v, v) = 0 /\ CompareKeys(v, a) \in {-1, 0, 1}
              /\ CompareKeys(v, st.best) < 0 <=> CompareKeys(st.best, v) > 0
              /\ CompareKeys(v, st.best) <= 0 /\ CompareKeys(st.best, a) <= 0
                    => CompareKeys(v, a) <= 0
          BY <4>1, <5>1, KeyOrder
        <5>3. CASE CompareKeys(v, st.best) < 0
          <6>1. next.best = v
            BY <3>2, <5>3
          <6> QED BY <5>1, <5>2, <5>3, <6>1
        <5>4. CASE ~(CompareKeys(v, st.best) < 0)
          <6>1. next.best = st.best
            BY <3>2, <5>1, <5>4
          <6> QED BY <5>1, <5>2, <5>4, <6>1
        <5> QED BY <5>3, <5>4
      <4> QED BY <4>2, <4>3
    <3> HIDE DEF next
    <3> QED BY <1>11, <2>3, <3>1, <3>3, <3>4 DEF StateOf, next, v, after
  <2> QED BY <2>4, <2>5
<1>12. CASE spec[1] = "MAX"
  <2>1. next = IF v # Empty /\ (st.best = Empty \/ CompareKeys(v, st.best) > 0)
               THEN [st EXCEPT !.best = v] ELSE st
    BY <1>12 DEF Accumulate
  <2>2. IF filled = {} THEN st.best = Empty
        ELSE st.best \in cells /\ \A a \in cells : CompareKeys(st.best, a) >= 0
    BY <1>12 DEF StateOf, filled, cells
  <2>3. next \in State /\ st.best \in Cell
    BY <1>1, <2>1 DEF State
  <2>4. CASE v = Empty
    <3>1. next = st /\ after = filled
      BY <1>3, <2>1, <2>4
    <3> HIDE DEF next
    <3> QED BY <1>1, <1>12, <2>2, <3>1 DEF StateOf, next, v, after, cells
  <2>5. CASE v # Empty
    <3>1. after = filled \cup {k} /\ CellsAt(spec, after) = cells \cup {v} /\ after # {}
      BY <1>3, <2>5
    <3>2. next.best = IF st.best = Empty \/ CompareKeys(v, st.best) > 0 THEN v ELSE st.best
      BY <1>1, <2>1, <2>5 DEF State
    <3>3. next.best \in cells \cup {v}
      BY <1>6, <2>2, <3>2
    <3>4. ASSUME NEW a \in cells \cup {v}
          PROVE  CompareKeys(next.best, a) >= 0
      <4>1. a \in Cell /\ v \in Cell /\ \A b \in cells : b \in Cell \ {Empty}
        BY <1>1, <1>5
      <4>2. CASE cells = {}
        <5>1. a = v /\ next.best = v
          BY <1>6, <2>2, <3>2, <4>2
        <5>2. CompareKeys(v, v) = 0
          BY <1>1, KeyOrder
        <5> QED BY <5>1, <5>2
      <4>3. CASE cells # {}
        <5>1. st.best \in Cell \ {Empty} /\ \A b \in cells : CompareKeys(st.best, b) >= 0
          BY <1>6, <2>2, <4>1, <4>3
        <5>2. /\ \A x, y \in {v, st.best, a} : /\ CompareKeys(x, y) \in {-1, 0, 1}
                                               /\ CompareKeys(x, x) = 0
                                               /\ CompareKeys(x, y) < 0 <=> CompareKeys(y, x) > 0
              /\ CompareKeys(a, st.best) <= 0 /\ CompareKeys(st.best, v) <= 0
                    => CompareKeys(a, v) <= 0
          BY <4>1, <5>1, KeyOrder
        <5>3. /\ CompareKeys(v, st.best) \in {-1, 0, 1} /\ CompareKeys(st.best, v) \in {-1, 0, 1}
              /\ CompareKeys(a, st.best) \in {-1, 0, 1} /\ CompareKeys(st.best, a) \in {-1, 0, 1}
              /\ CompareKeys(v, a) \in {-1, 0, 1} /\ CompareKeys(a, v) \in {-1, 0, 1}
              /\ CompareKeys(st.best, v) < 0 <=> CompareKeys(v, st.best) > 0
              /\ CompareKeys(v, st.best) < 0 <=> CompareKeys(st.best, v) > 0
              /\ CompareKeys(st.best, a) < 0 <=> CompareKeys(a, st.best) > 0
              /\ CompareKeys(v, a) < 0 <=> CompareKeys(a, v) > 0
              /\ CompareKeys(v, v) = 0
          BY <5>2
        <5>4. CASE CompareKeys(v, st.best) > 0
          <6>1. next.best = v
            BY <3>2, <5>4
          <6> QED BY <5>1, <5>2, <5>3, <5>4, <6>1
        <5>5. CASE ~(CompareKeys(v, st.best) > 0)
          <6>1. next.best = st.best
            BY <3>2, <5>1, <5>5
          <6> QED BY <5>1, <5>3, <5>5, <6>1
        <5> QED BY <5>4, <5>5
      <4> QED BY <4>2, <4>3
    <3> HIDE DEF next
    <3> QED BY <1>12, <2>3, <3>1, <3>3, <3>4 DEF StateOf, next, v, after
  <2> QED BY <2>4, <2>5
<1> QED BY <1>7, <1>8, <1>9, <1>10, <1>11, <1>12 DEF IsAggregate, next, v

\* finalizeAggregate makes the aggregate of the rows a state stands for, and a
\* number, an empty text or the cell of one of them.
LEMMA FinishExact ==
    ASSUME query \in Queries, NEW spec \in Specs,
           NEW members \in SUBSET DOMAIN Input, AllAccumulate(spec, members),
           NEW st, StateOf(spec, members, st)
    PROVE  /\ Finish(spec[1], st) \in AggregateOf(spec, members)
           /\ Finish(spec[1], st) \in NumCell \cup {Empty} \cup CellsAt(spec, members)
<1> DEFINE filled == Filled(spec, members)
           numbers == Numbers(Input, <<"col", spec[2]>>)
           total == SumFunctionOnSet(numbers, filled)
           fin == Finish(spec[1], st)
<1> SUFFICES fin \in AggregateOf(spec, members) /\ fin \in NumCell \cup {Empty} \cup CellsAt(spec, members)
  OBVIOUS
<1> HIDE DEF fin
<1>1. /\ IsFiniteSet(members) /\ Cardinality(members) \in 0..Len(Input)
      /\ filled \subseteq members
  <2>1. members \in SUBSET (1..Len(Input)) /\ Len(Input) \in Nat
    BY QueryShape
  <2>2. filled \subseteq members
    BY DEF Filled
  <2>3. IsFiniteSet(members) /\ Cardinality(members) \in Nat /\ Cardinality(members) <= Len(Input)
    BY <2>1, Positions
  <2> QED BY <2>1, <2>2, <2>3
<1>2. InRange(Input, spec[2]) /\ Len(Input) \in Nat
  BY QueryShape
<1>3. \A n \in DOMAIN Spell : Spell[n] \in NumCell
  BY PipelineAssumption
<1>4. \A n \in 0..Len(Input) : Spell[One * n] \in NumCell
  BY <1>2, <1>3 DEF InRange
<1>5. IsAggregate(spec)
  BY DEF Specs
<1>6. CASE spec[1] = "COUNT"
  <2>1. fin = Spell[One * Cardinality(members)]
    BY <1>6 DEF Finish, StateOf, fin
  <2>2. AggregateOf(spec, members) = {Spell[One * Cardinality(members)]}
    BY <1>6 DEF AggregateOf
  <2> QED BY <1>1, <1>4, <2>1, <2>2
<1>7. CASE spec[1] = "COUNT_DISTINCT"
  <2> DEFINE cells == CellsAt(spec, members)
  <2>1. fin = Spell[One * Cardinality(cells)]
    BY <1>7 DEF Finish, StateOf, fin
  <2>2. AggregateOf(spec, members) = {Spell[One * Cardinality(cells)]}
    BY <1>7 DEF AggregateOf, CellsAt
  <2>3. Cardinality(cells) \in 0..Len(Input)
    <3> DEFINE f == [k \in members |-> Argument(Input[k], spec)]
    <3>1. f \in Surjection(members, cells)
      BY DEF CellsAt, Surjection
    <3>2. IsFiniteSet(cells) /\ Cardinality(cells) <= Cardinality(members)
      BY <1>1, <3>1, FS_Surjection
    <3>3. Cardinality(cells) \in Nat
      BY <3>2, FS_CardinalityType
    <3> HIDE DEF cells
    <3> QED BY <1>1, <1>2, <3>2, <3>3
  <2> QED BY <1>4, <2>1, <2>2, <2>3
<1>8. CASE spec[1] \in {"SUM", "AVG"}
  <2>1. filled \in SUBSET DOMAIN numbers
    <3> SUFFICES ASSUME NEW m \in filled PROVE m \in DOMAIN numbers
      OBVIOUS
    <3>1. m \in members /\ Argument(Input[m], spec) # Empty /\ Accumulates(spec, Input[m])
      BY DEF Filled, AllAccumulate
    <3> QED BY <1>8, <3>1, SummandNumber
  <2>2. total \in DOMAIN Spell /\ (filled # {} => total \div Cardinality(filled) \in DOMAIN Spell)
    <3> HIDE DEF filled
    <3> QED BY <1>2, <2>1 DEF InRange
  <2>3. st.count = Cardinality(filled) /\ st.sum = total
    BY <1>8 DEF StateOf
  <2>4. IsFiniteSet(filled)
    BY <1>1, FS_Subset
  <2>5. filled = {} <=> st.count = 0
    BY <2>3, <2>4, FS_EmptySet
  <2>6. Spell[0] \in NumCell
    <3>1. 0 \in 0..Len(Input) /\ One * 0 = 0
      BY <1>2, PipelineAssumption
    <3> QED BY <1>4, <3>1
  <2>7. CASE spec[1] = "SUM"
    <3>1. fin = Spell[total]
      BY <2>3, <2>7 DEF Finish, fin
    <3>2. AggregateOf(spec, members) = {Spell[total]}
      BY <2>7 DEF AggregateOf, Filled
    <3> QED BY <1>3, <2>2, <3>1, <3>2
  <2>8. CASE spec[1] = "AVG"
    <3>1. fin = IF filled = {} THEN Spell[0] ELSE Spell[total \div Cardinality(filled)]
      BY <2>3, <2>5, <2>8 DEF Finish, fin
    <3>2. AggregateOf(spec, members)
             = {IF filled = {} THEN Spell[0] ELSE Spell[total \div Cardinality(filled)]}
      BY <2>8 DEF AggregateOf, Filled
    <3> HIDE DEF total, filled
    <3> QED BY <1>3, <2>2, <2>6, <3>1, <3>2
  <2> QED BY <1>8, <2>7, <2>8
<1>9. CellsAt(spec, filled) \subseteq CellsAt(spec, members)
  BY <1>1 DEF CellsAt
<1>10. CASE spec[1] = "MIN"
  <2>1. fin = st.best
    BY <1>10 DEF Finish, fin
  <2>2. IF filled = {} THEN st.best = Empty
        ELSE st.best \in CellsAt(spec, filled)
             /\ \A a \in CellsAt(spec, filled) : CompareKeys(st.best, a) <= 0
    BY <1>10 DEF StateOf
  <2>3. AggregateOf(spec, members) = IF filled = {} THEN {Empty}
          ELSE {a \in CellsAt(spec, filled) : \A b \in CellsAt(spec, filled) : CompareKeys(a, b) <= 0}
    BY <1>10 DEF AggregateOf, CellsAt, Filled
  <2> HIDE DEF filled
  <2> QED BY <1>9, <2>1, <2>2, <2>3
<1>11. CASE spec[1] = "MAX"
  <2>1. fin = st.best
    BY <1>11 DEF Finish, fin
  <2>2. IF filled = {} THEN st.best = Empty
        ELSE st.best \in CellsAt(spec, filled)
             /\ \A a \in CellsAt(spec, filled) : CompareKeys(st.best, a) >= 0
    BY <1>11 DEF StateOf
  <2>3. AggregateOf(spec, members) = IF filled = {} THEN {Empty}
          ELSE {a \in CellsAt(spec, filled) : \A b \in CellsAt(spec, filled) : CompareKeys(a, b) >= 0}
    BY <1>11 DEF AggregateOf, CellsAt, Filled
  <2> HIDE DEF filled
  <2> QED BY <1>9, <2>1, <2>2, <2>3
<1> QED BY <1>5, <1>6, <1>7, <1>8, <1>10, <1>11 DEF IsAggregate

----------------------------------------------------------------------------
(* The inductive invariant *)

\* The positions that passed the filter so far, and those of them in a group.
Pulled == {k \in Chosen : k <= read}
Within(S, key) == {k \in S : Key(Input[k]) = key}

\* What reaches the sort or, without one, the limit; how much of it is sorted.
From == IF Aggregates THEN results ELSE Passing
Source == IF Streams THEN Passing ELSE Below

Shape ==
    /\ query \in Queries
    /\ phase \in {"aggregate", "sort", "emit", "done", "failed"}
    /\ read \in 0..Len(Input) /\ cursor \in Nat
    /\ phase = "aggregate" => Aggregates /\ cursor = 0 /\ buffer = <<>> /\ answer = <<>>
    /\ phase = "sort" => Sorts /\ answer = <<>>
    /\ Aggregates /\ phase \in {"sort", "emit", "done"} => read = Len(Input)

\* The groups are those of the rows at the positions S, each with its state.
GroupedOver(gs, S) ==
    /\ gs \in Seq([exemplar : ToSet(Input), states : [Specs -> State]])
    /\ \A g \in DOMAIN gs :
          /\ \E k \in S : gs[g].exemplar = Input[k]
          /\ \A s \in Specs : StateOf(s, Within(S, Key(gs[g].exemplar)), gs[g].states[s])
          /\ \A h \in DOMAIN gs : Key(gs[h].exemplar) = Key(gs[g].exemplar) => h = g
    /\ \A k \in S : \E g \in DOMAIN gs : Key(gs[g].exemplar) = Key(Input[k])
    /\ \A s \in Specs : AllAccumulate(s, S)

GroupedSoFar == Aggregates /\ phase # "failed" => GroupedOver(groups, Pulled)

\* The rows of the groups that HAVING keeps.
Kept == {k \in DOMAIN GroupRows : HavingHolds(GroupRows[k])}

Filtered ==
    Aggregates /\ phase \in {"sort", "emit", "done"} =>
        /\ results = Picked(GroupRows, Kept)
        /\ HasHaving => \A k \in DOMAIN GroupRows : query.having.name \in DOMAIN GroupRows[k]

\* What SortExecutor has buffered, and made of it.
Buffered ==
    /\ phase = "sort" =>
          /\ IF Aggregates
             THEN cursor <= Len(results) /\ buffer = [p \in 1..cursor |-> results[p]]
             ELSE buffer = Picked(Input, Pulled)
          /\ \A p \in DOMAIN buffer : query.orderBy \in DOMAIN buffer[p]
    /\ AnswerOrdered

\* Without a number out of range errno is clear until the sort.
QuietInput ==
    /\ ~query.overflow
    /\ \A row \in ToSet(Input) : \A name \in DOMAIN row : row[name] \notin RangeCell
    /\ HasWhere => query.where.lit \notin RangeCell

Quiet ==
    /\ phase = "aggregate" /\ QuietInput => ~overflow
    /\ phase = "sort" /\ NothingOverflows => ~overflow

\* The rows handed on through the limit, and what became of them.
Rows == [k \in 1..Len(Source) |-> Projected(Source[k])]
Delivered == {k \in 1..cursor : query.distinct => \A m \in 1..(k - 1) : Rows[m] # Rows[k]}

Emitted ==
    phase \in {"emit", "done"} =>
        /\ cursor <= Len(Source)
        /\ query.limit # -1 => cursor <= query.limit
        /\ Streams => cursor = Cardinality(Pulled)
        /\ answer = Picked(Rows, Delivered)
        /\ \A k \in 1..cursor : Rows[k] \in ToSet(answer)
        /\ phase = "done" => LimitReached \/ Exhausted

IInv ==
    /\ Shape /\ GroupedSoFar /\ Filtered /\ Buffered /\ Quiet /\ Emitted
    /\ FailureHasACause

----------------------------------------------------------------------------
(* A step keeps the statement *)

\* What depends on the statement alone stays as it is.
LEMMA SameStatement ==
    ASSUME query' = query
    PROVE  /\ Input' = Input /\ Specs' = Specs /\ Chosen' = Chosen /\ Passing' = Passing
           /\ Aggregates' = Aggregates /\ Sorts' = Sorts /\ Streams' = Streams
           /\ HasHaving' = HasHaving /\ HasWhere' = HasWhere
           /\ QuietInput' = QuietInput
<1>1. Input' = Input /\ HasHaving' = HasHaving /\ HasWhere' = HasWhere /\ Sorts' = Sorts
  BY DEF Input, HasHaving, HasWhere, Sorts
<1>2. Specs' = Specs
  BY DEF Specs, NamesOf
<1>3. Aggregates' = Aggregates
  BY DEF Aggregates, NamesOf
<1>4. Chosen' = Chosen
  BY DEF Chosen, Passes, HasWhere, Input
<1>5. Passing' = Passing
  BY <1>1, <1>4 DEF Passing
<1>6. QuietInput' = QuietInput
  BY DEF QuietInput, Input, HasWhere
<1> QED BY <1>1, <1>2, <1>3, <1>4, <1>5, <1>6 DEF Streams

\* What depends on the groups stays with them.
LEMMA SameGroups ==
    ASSUME query' = query, groups' = groups
    PROVE  /\ GroupRows' = GroupRows /\ Kept' = Kept
           /\ \A gs, S : GroupedOver(gs, S)' <=> GroupedOver(gs, S)
<1>1. GroupRows' = GroupRows
  BY DEF GroupRows, AllGroups, RowOf, NewGroup, Specs, NamesOf
<1>2. Kept' = Kept
  BY <1>1 DEF Kept, HavingHolds, HasHaving
<1>3. ASSUME NEW gs, NEW S PROVE GroupedOver(gs, S)' <=> GroupedOver(gs, S)
  <2>1. Specs' = Specs /\ Input' = Input
    BY SameStatement
  <2> QED BY <2>1 DEF GroupedOver, Within, Key, StateOf, Filled, CellsAt, AllAccumulate, Input
<1> QED BY <1>1, <1>2, <1>3

----------------------------------------------------------------------------
(* Scan and filter *)

\* The positions that are pulled, and one more.
LEMMA PulledShape ==
    ASSUME Shape
    PROVE  /\ Pulled \in SUBSET (1..read) /\ Pulled \in SUBSET (1..Len(Input))
           /\ Pulled \in SUBSET DOMAIN Input /\ Pulled \subseteq Chosen
           /\ IsFiniteSet(Pulled) /\ Cardinality(Pulled) \in Nat
           /\ read \in Nat /\ Len(Input) \in Nat /\ DOMAIN Input = 1..Len(Input)
           /\ read = Len(Input) => Pulled = Chosen
<1>1. query \in Queries /\ read \in 0..Len(Input)
  BY DEF Shape
<1>2. Chosen \in SUBSET (1..Len(Input)) /\ Len(Input) \in Nat /\ DOMAIN Input = 1..Len(Input)
  BY <1>1, ChosenShape, QueryShape
<1>0. \A k \in Chosen : k \in Nat /\ 1 <= k /\ k <= Len(Input)
  BY <1>2
<1>3. Pulled \subseteq 1..read /\ Pulled \subseteq Chosen
  <2>1. \A k \in Pulled : k \in Chosen /\ k <= read
    BY DEF Pulled
  <2>2. read \in Nat
    BY <1>1, <1>2
  <2>3. \A k \in Pulled : k \in 1..read
    BY <1>0, <2>1, <2>2
  <2> QED BY <2>1, <2>3
<1>4. read = Len(Input) => Pulled = Chosen
  BY <1>0 DEF Pulled
<1>6. Pulled \subseteq 1..Len(Input) /\ read \in Nat
  BY <1>1, <1>2, <1>3
<1>5. IsFiniteSet(Pulled) /\ Cardinality(Pulled) \in Nat
  BY <1>1, <1>3, Positions
<1> QED BY <1>2, <1>3, <1>4, <1>5, <1>6

\* Pulling a row: the next position, with or without it among the chosen.
LEMMA PullNext ==
    ASSUME Shape, Pull, query' = query
    PROVE  /\ read' = read + 1 /\ read' \in 0..Len(Input) /\ read + 1 \in DOMAIN Input
           /\ read + 1 \notin Pulled /\ NextRow = Input[read + 1]
           /\ Passes(NextRow) => read + 1 \in Chosen /\ Pulled' = Pulled \cup {read + 1}
           /\ ~Passes(NextRow) => Pulled' = Pulled
<1>1. /\ read \in Nat /\ Len(Input) \in Nat /\ DOMAIN Input = 1..Len(Input)
      /\ Pulled \in SUBSET (1..read)
  BY PulledShape
<1>2. read < Len(Input) /\ read' = read + 1 /\ NextRow = Input[read + 1]
  BY DEF Pull, More, NextRow
<1>3. read + 1 \in DOMAIN Input /\ read' \in 0..Len(Input)
  BY <1>1, <1>2
<1>4. Chosen' = Chosen
  BY SameStatement
<1>5. Pulled' = {k \in Chosen : k <= read + 1}
  BY <1>2, <1>4 DEF Pulled
<1>6. Chosen \in SUBSET (1..Len(Input))
  BY ChosenShape DEF Shape
<1>7. Pulled' = IF read + 1 \in Chosen THEN Pulled \cup {read + 1} ELSE Pulled
  <2>1. \A k \in 1..Len(Input) : k <= read + 1 <=> k <= read \/ k = read + 1
    BY <1>1
  <2> QED BY <1>5, <1>6, <2>1 DEF Pulled
<1>8. read + 1 \in Chosen <=> Passes(NextRow)
  BY <1>2, <1>3 DEF Chosen
<1> QED BY <1>1, <1>2, <1>3, <1>7, <1>8

\* A row without numbers out of range leaves errno clear.
LEMMA PullQuiet ==
    ASSUME Shape, Pull, QuietInput, ~overflow
    PROVE  ~overflow'
<1>1. read + 1 \in DOMAIN Input /\ NextRow = Input[read + 1] /\ query \in Queries
  BY PulledShape DEF Pull, More, NextRow, Shape
<1>2. CASE HasWhere
  <2>1. query.where.name \in DOMAIN NextRow /\ NextRow \in ToSet(Input)
    BY <1>1, <1>2, RowShape, QueryShape
  <2>2. NextRow[query.where.name] \notin RangeCell /\ query.where.lit \notin RangeCell
    BY <1>2, <2>1 DEF QuietInput
  <2> QED BY <1>2, <2>2 DEF Pull
<1>3. CASE ~HasWhere
  BY <1>3 DEF Pull
<1> QED BY <1>2, <1>3

----------------------------------------------------------------------------
(* AggregationExecutor *)

GroupType == [exemplar : ToSet(Input), states : [Specs -> State]]

\* A row into a group.
LEMMA AddedShape ==
    ASSUME NEW row, NEW e, NEW states,
           NEW group, group = [exemplar |-> e, states |-> states]
    PROVE  Added(group, row) =
               [exemplar |-> e,
                states |-> [s \in Specs |-> Accumulate(s[1], states[s], Argument(row, s))]]
BY DEF Added

\* A group takes the row of its key.
LEMMA GroupTakes ==
    ASSUME query \in Queries, NEW S \in SUBSET DOMAIN Input, NEW k \in DOMAIN Input, k \notin S,
           \A s \in Specs : AllAccumulate(s, S) /\ Accumulates(s, Input[k]),
           NEW e \in ToSet(Input), Key(e) = Key(Input[k]),
           NEW states, \A s \in Specs : StateOf(s, Within(S, Key(e)), states[s])
    PROVE  LET added == Added([exemplar |-> e, states |-> states], Input[k]) IN
           /\ added \in GroupType /\ added.exemplar = e
           /\ \A s \in Specs : StateOf(s, Within(S \cup {k}, Key(e)), added.states[s])
<1> DEFINE added == Added([exemplar |-> e, states |-> states], Input[k])
           next == [s \in Specs |-> Accumulate(s[1], states[s], Argument(Input[k], s))]
<1>1. added = [exemplar |-> e, states |-> next]
  BY AddedShape
<1>2. Within(S \cup {k}, Key(e)) = Within(S, Key(e)) \cup {k}
  BY DEF Within
<1>3. ASSUME NEW s \in Specs
      PROVE  StateOf(s, Within(S \cup {k}, Key(e)), next[s]) /\ next[s] \in State
  <2>1. /\ Within(S, Key(e)) \in SUBSET DOMAIN Input
        /\ AllAccumulate(s, Within(S, Key(e)))
        /\ k \notin Within(S, Key(e))
    BY DEF Within, AllAccumulate
  <2>2. StateOf(s, Within(S, Key(e)) \cup {k},
                Accumulate(s[1], states[s], Argument(Input[k], s)))
    BY <2>1, StateStep
  <2>3. StateOf(s, Within(S \cup {k}, Key(e)), next[s])
    BY <1>2, <2>2
  <2> QED BY <2>3, Zenon DEF StateOf
<1>4. next \in [Specs -> State]
  <2>1. \A s \in Specs : next[s] \in State
    BY <1>3
  <2> QED BY <2>1
<1> HIDE DEF next, added
<1>5. added \in GroupType /\ added.exemplar = e /\ added.states = next
  BY <1>1, <1>4 DEF GroupType
<1> QED BY <1>3, <1>5 DEF added

\* A group leaves a row of another key alone.
LEMMA WithinOther ==
    ASSUME NEW S, NEW k, NEW key, key # Key(Input[k])
    PROVE  Within(S \cup {k}, key) = Within(S, key)
BY DEF Within

\* One turn of the loop: the groups of the rows so far become those with the row.
LEMMA GroupStep ==
    ASSUME query \in Queries, NEW S \in SUBSET DOMAIN Input, NEW k \in DOMAIN Input, k \notin S,
           NEW gs, GroupedOver(gs, S),
           \A s \in Specs : Accumulates(s, Input[k]),
           NEW hit, hit = {g \in DOMAIN gs : Key(gs[g].exemplar) = Key(Input[k])}
    PROVE  GroupedOver(IF hit = {} THEN Append(gs, Added(NewGroup(Input[k]), Input[k]))
                       ELSE [g \in DOMAIN gs |-> IF g \in hit THEN Added(gs[g], Input[k]) ELSE gs[g]],
                       S \cup {k})
<1> DEFINE row == Input[k]
           key == Key(row)
           after == S \cup {k}
<1>1. /\ gs \in Seq(GroupType) /\ Len(gs) \in Nat /\ DOMAIN gs = 1..Len(gs)
      /\ \A g \in DOMAIN gs : gs[g] \in GroupType
  <2>1. gs \in Seq(GroupType)
    BY Zenon DEF GroupedOver, GroupType
  <2> QED BY <2>1
<1>2. ASSUME NEW g \in DOMAIN gs
      PROVE  /\ \E m \in S : gs[g].exemplar = Input[m]
             /\ \A s \in Specs : StateOf(s, Within(S, Key(gs[g].exemplar)), gs[g].states[s])
             /\ \A h \in DOMAIN gs : Key(gs[h].exemplar) = Key(gs[g].exemplar) => h = g
  BY DEF GroupedOver
<1>3. /\ \A m \in S : \E g \in DOMAIN gs : Key(gs[g].exemplar) = Key(Input[m])
      /\ \A s \in Specs : AllAccumulate(s, S)
  BY DEF GroupedOver
<1>4. row \in ToSet(Input)
  BY QueryShape
<1>5. \A s \in Specs : AllAccumulate(s, after)
  BY <1>3 DEF AllAccumulate
<1>6. CASE hit = {}
  <2> DEFINE new == Added(NewGroup(row), row)
             gs2 == Append(gs, new)
             n == Len(gs) + 1
  <2>1. Within(S, key) = {}
    BY <1>3, <1>6 DEF Within
  <2>2. \A s \in Specs : StateOf(s, Within(S, key), [t \in Specs |-> Fresh][s])
    BY <2>1, FreshState
  <2>3. /\ new \in GroupType /\ new.exemplar = row
        /\ \A s \in Specs : StateOf(s, Within(after, key), new.states[s])
    <3> DEFINE states == [t \in Specs |-> Fresh]
    <3>1. NewGroup(row) = [exemplar |-> row, states |-> states]
      BY DEF NewGroup
    <3> HIDE DEF states
    <3>2. \A s \in Specs : StateOf(s, Within(S, key), states[s])
      BY <2>2 DEF states
    <3> DEFINE added == Added([exemplar |-> row, states |-> states], Input[k])
    <3>3. /\ added \in GroupType /\ added.exemplar = row
          /\ \A s \in Specs : StateOf(s, Within(after, key), added.states[s])
      BY <1>3, <1>4, <3>2, GroupTakes
    <3>4. added = new
      BY <3>1
    <3> HIDE DEF added, new
    <3> QED BY <3>3, <3>4
  <2> HIDE DEF new
  <2>4. /\ gs2 \in Seq(GroupType) /\ DOMAIN gs2 = 1..n /\ gs2[n] = new
        /\ \A g \in DOMAIN gs : g \in DOMAIN gs2 /\ gs2[g] = gs[g]
        /\ \A g \in DOMAIN gs2 : g \in DOMAIN gs \/ g = n
        /\ n \in DOMAIN gs2
    BY <1>1, <2>3
  <2> HIDE DEF gs2, n
  <2>5. ASSUME NEW g \in DOMAIN gs
        PROVE  Key(gs[g].exemplar) # key
    BY <1>6
  <2>6. ASSUME NEW g \in DOMAIN gs2
        PROVE  /\ \E m \in after : gs2[g].exemplar = Input[m]
               /\ \A s \in Specs : StateOf(s, Within(after, Key(gs2[g].exemplar)), gs2[g].states[s])
               /\ \A h \in DOMAIN gs2 : Key(gs2[h].exemplar) = Key(gs2[g].exemplar) => h = g
    <3>1. CASE g = n
      BY <2>3, <2>4, <2>5, <3>1
    <3>2. CASE g \in DOMAIN gs
      <4>1. gs2[g] = gs[g] /\ Key(gs[g].exemplar) # key
        BY <2>4, <2>5, <3>2
      <4>2. Within(after, Key(gs[g].exemplar)) = Within(S, Key(gs[g].exemplar))
        BY <4>1, WithinOther
      <4>3. \A h \in DOMAIN gs2 : Key(gs2[h].exemplar) = Key(gs2[g].exemplar) => h = g
        BY <1>2, <2>3, <2>4, <3>2, <4>1
      <4> QED BY <1>2, <3>2, <4>1, <4>2, <4>3
    <3> QED BY <2>4, <3>1, <3>2
  <2>7. \A m \in after : \E g \in DOMAIN gs2 : Key(gs2[g].exemplar) = Key(Input[m])
    <3>1. ASSUME NEW m \in S PROVE \E g \in DOMAIN gs2 : Key(gs2[g].exemplar) = Key(Input[m])
      BY <1>3, <2>4
    <3>2. Key(gs2[n].exemplar) = Key(Input[k])
      BY <2>3, <2>4
    <3> QED BY <2>4, <3>1, <3>2
  <2>8. GroupedOver(gs2, after)
    BY <1>5, <2>4, <2>6, <2>7, Zenon DEF GroupedOver, GroupType
  <2> QED BY <1>6, <2>8 DEF gs2, new
<1>7. CASE hit # {}
  <2> DEFINE gs2 == [g \in DOMAIN gs |-> IF g \in hit THEN Added(gs[g], row) ELSE gs[g]]
  <2>1. ASSUME NEW g \in DOMAIN gs
        PROVE  /\ gs2[g] \in GroupType /\ gs2[g].exemplar = gs[g].exemplar
               /\ \A s \in Specs : StateOf(s, Within(after, Key(gs[g].exemplar)), gs2[g].states[s])
    <3>1. gs[g].exemplar \in ToSet(Input) /\ gs[g] = [exemplar |-> gs[g].exemplar, states |-> gs[g].states]
      BY <1>1 DEF GroupType
    <3>2. CASE g \in hit
      <4> DEFINE e == gs[g].exemplar
                 states == gs[g].states
                 added == Added([exemplar |-> e, states |-> states], Input[k])
      <4>1. Key(e) = Key(Input[k])
        BY <3>2
      <4>2. /\ added \in GroupType /\ added.exemplar = e
            /\ \A s \in Specs : StateOf(s, Within(after, Key(e)), added.states[s])
        <5>1. \A s \in Specs : StateOf(s, Within(S, Key(e)), states[s])
          BY <1>2
        <5>2. e \in ToSet(Input)
          BY <3>1
        <5> HIDE DEF e, states
        <5> QED BY <1>3, <4>1, <5>1, <5>2, GroupTakes
      <4>3. gs2[g] = added
        BY <3>1, <3>2
      <4> HIDE DEF gs2, added
      <4> QED BY <4>2, <4>3
    <3>3. CASE g \notin hit
      <4>1. gs2[g] = gs[g] /\ Key(gs[g].exemplar) # key
        BY <3>3
      <4>2. Within(after, Key(gs[g].exemplar)) = Within(S, Key(gs[g].exemplar))
        BY <4>1, WithinOther
      <4> HIDE DEF gs2
      <4> QED BY <1>1, <1>2, <4>1, <4>2
    <3> QED BY <3>2, <3>3
  <2>2. gs2 \in Seq(GroupType) /\ DOMAIN gs2 = DOMAIN gs
    BY <1>1, <2>1
  <2> HIDE DEF gs2
  <2>3. ASSUME NEW g \in DOMAIN gs2
        PROVE  /\ \E m \in after : gs2[g].exemplar = Input[m]
               /\ \A s \in Specs : StateOf(s, Within(after, Key(gs2[g].exemplar)), gs2[g].states[s])
               /\ \A h \in DOMAIN gs2 : Key(gs2[h].exemplar) = Key(gs2[g].exemplar) => h = g
    <3>1. \A h \in DOMAIN gs : gs2[h].exemplar = gs[h].exemplar
      BY <2>1
    <3> QED BY <1>2, <2>1, <2>2, <3>1, ZenonT(60)
  <2>4. \A m \in after : \E g \in DOMAIN gs2 : Key(gs2[g].exemplar) = Key(Input[m])
    <3>1. \A h \in DOMAIN gs : gs2[h].exemplar = gs[h].exemplar
      BY <2>1
    <3>2. PICK g \in hit : g \in DOMAIN gs /\ Key(gs[g].exemplar) = Key(Input[k])
      BY <1>7
    <3> QED BY <1>3, <2>2, <3>1, <3>2
  <2>5. GroupedOver(gs2, after)
    BY <1>5, <2>2, <2>3, <2>4, Zenon DEF GroupedOver, GroupType
  <2> QED BY <1>7, <2>5 DEF gs2
<1> QED BY <1>6, <1>7

----------------------------------------------------------------------------
(* The rows of the groups *)

\* row is the row of the group of e over the rows at members.
IsGroupRow(row, e, members) ==
    /\ DOMAIN row = Specs \cup DOMAIN e
    /\ \A name \in DOMAIN row \ Specs : row[name] = e[name]
    /\ members \in SUBSET Chosen
    /\ \A s \in Specs : /\ row[s] \in AggregateOf(s, members)
                        /\ row[s] \in NumCell \cup {Empty} \cup CellsAt(s, members)
                        /\ AllAccumulate(s, members)

\* The row of one group is that of its rows.
LEMMA GroupRow ==
    ASSUME query \in Queries, NEW S \in SUBSET Chosen, NEW group, NEW e,
           group.exemplar = e,
           \A s \in Specs : AllAccumulate(s, S) /\ StateOf(s, S, group.states[s])
    PROVE  IsGroupRow(RowOf(group), e, S)
<1>1. /\ DOMAIN RowOf(group) = Specs \cup DOMAIN e
      /\ \A name \in DOMAIN RowOf(group) \ Specs : RowOf(group)[name] = e[name]
      /\ \A s \in Specs : RowOf(group)[s] = Finish(s[1], group.states[s])
  BY DEF RowOf
<1>2. S \in SUBSET DOMAIN Input
  BY ChosenShape, QueryShape
<1>3. ASSUME NEW s \in Specs
      PROVE  /\ Finish(s[1], group.states[s]) \in AggregateOf(s, S)
             /\ Finish(s[1], group.states[s]) \in NumCell \cup {Empty} \cup CellsAt(s, S)
  BY <1>2, FinishExact
<1> QED BY <1>1, <1>3 DEF IsGroupRow

\* The rows of all the groups, once every row is in: one for each key, or one for
\* an empty input without GROUP BY.
LEMMA GroupRowsShape ==
    ASSUME query \in Queries, GroupedOver(groups, Chosen)
    PROVE  /\ Len(AllGroups) \in Nat /\ DOMAIN AllGroups = 1..Len(AllGroups)
           /\ GroupRows \in Seq({GroupRows[k] : k \in DOMAIN GroupRows})
           /\ DOMAIN GroupRows = DOMAIN AllGroups /\ Len(GroupRows) = Len(AllGroups)
           /\ \/ /\ Chosen = {} /\ query.groupBy = <<>> /\ Len(GroupRows) = 1
                 /\ IsGroupRow(GroupRows[1], <<>>, {})
              \/ /\ Chosen # {} \/ query.groupBy # <<>>
                 /\ AllGroups = groups
                 /\ \A g \in DOMAIN GroupRows :
                      /\ IsGroupRow(GroupRows[g], groups[g].exemplar, Members(Key(groups[g].exemplar)))
                      /\ \E k \in Chosen : groups[g].exemplar = Input[k]
                 /\ \A k \in Chosen : \E g \in DOMAIN GroupRows : Key(groups[g].exemplar) = Key(Input[k])
                 /\ \A g, h \in DOMAIN GroupRows :
                      Key(groups[h].exemplar) = Key(groups[g].exemplar) => h = g
<1>1. /\ groups \in Seq(GroupType)
      /\ \A g \in DOMAIN groups :
          /\ \E k \in Chosen : groups[g].exemplar = Input[k]
          /\ \A s \in Specs : StateOf(s, Within(Chosen, Key(groups[g].exemplar)), groups[g].states[s])
          /\ \A h \in DOMAIN groups : Key(groups[h].exemplar) = Key(groups[g].exemplar) => h = g
      /\ \A k \in Chosen : \E g \in DOMAIN groups : Key(groups[g].exemplar) = Key(Input[k])
      /\ \A s \in Specs : AllAccumulate(s, Chosen)
  BY Zenon DEF GroupedOver, GroupType
<1>2. Len(groups) \in Nat /\ DOMAIN groups = 1..Len(groups)
  BY <1>1
<1>3. \A key : Within(Chosen, key) = Members(key)
  BY DEF Within, Members
<1>4. CASE groups = <<>> /\ query.groupBy = <<>>
  <2>1. AllGroups = <<NewGroup(<<>>)>>
    BY <1>4 DEF AllGroups
  <2>2. Len(AllGroups) = 1 /\ DOMAIN AllGroups = 1..1 /\ AllGroups[1] = NewGroup(<<>>)
    BY <2>1
  <2>3. GroupRows = [k \in 1..1 |-> RowOf(AllGroups[k])]
    BY <2>2 DEF GroupRows
  <2>4. DOMAIN GroupRows = 1..1 /\ GroupRows[1] = RowOf(NewGroup(<<>>)) /\ Len(GroupRows) = 1
    <3> DEFINE T == {RowOf(AllGroups[k]) : k \in 1..1}
    <3>1. GroupRows \in [1..1 -> T]
      BY <2>3
    <3> HIDE DEF T
    <3>2. Len(GroupRows) = 1 /\ DOMAIN GroupRows = 1..1
      BY <3>1
    <3> QED BY <2>2, <2>3, <3>2
  <2>5. Chosen = {}
    BY <1>1, <1>4
  <2>6. IsGroupRow(GroupRows[1], <<>>, {})
    <3> DEFINE states == [s \in Specs |-> Fresh]
    <3>1. NewGroup(<<>>) = [exemplar |-> <<>>, states |-> states]
      BY DEF NewGroup
    <3>2. \A s \in Specs : AllAccumulate(s, {}) /\ StateOf(s, {}, states[s])
      BY FreshState DEF AllAccumulate
    <3> HIDE DEF states
    <3>3. {} \in SUBSET Chosen /\ NewGroup(<<>>).exemplar = <<>> /\ NewGroup(<<>>).states = states
      BY <3>1
    <3>4. \A s \in Specs : AllAccumulate(s, {}) /\ StateOf(s, {}, NewGroup(<<>>).states[s])
      BY <3>2, <3>3
    <3>5. IsGroupRow(RowOf(NewGroup(<<>>)), <<>>, {})
      BY <3>3, <3>4, GroupRow
    <3> QED BY <2>4, <3>5
  <2>7. GroupRows \in Seq({GroupRows[k] : k \in DOMAIN GroupRows})
    BY <2>3, <2>4
  <2> QED BY <1>4, <2>2, <2>4, <2>5, <2>6, <2>7
<1>5. CASE ~(groups = <<>> /\ query.groupBy = <<>>)
  <2>1. AllGroups = groups
    BY <1>5 DEF AllGroups
  <2>2. GroupRows = [k \in 1..Len(groups) |-> RowOf(groups[k])]
    BY <1>2, <2>1 DEF GroupRows
  <2>3. DOMAIN GroupRows = 1..Len(groups) /\ Len(GroupRows) = Len(groups)
        /\ GroupRows \in Seq({GroupRows[k] : k \in DOMAIN GroupRows})
    <3> DEFINE T == {GroupRows[k] : k \in DOMAIN GroupRows}
    <3>1. GroupRows \in [1..Len(groups) -> T]
      BY <2>2
    <3> HIDE DEF T
    <3>2. GroupRows \in Seq(T) /\ Len(GroupRows) = Len(groups)
      BY <1>2, <3>1
    <3> QED BY <2>2, <3>2 DEF T
  <2>4. ASSUME NEW g \in DOMAIN GroupRows
        PROVE  /\ IsGroupRow(GroupRows[g], groups[g].exemplar, Members(Key(groups[g].exemplar)))
               /\ \E k \in Chosen : groups[g].exemplar = Input[k]
    <3> DEFINE S == Members(Key(groups[g].exemplar))
    <3>1. g \in DOMAIN groups /\ GroupRows[g] = RowOf(groups[g])
      BY <1>2, <2>2, <2>3
    <3>2. S \in SUBSET Chosen
      BY DEF Members
    <3>3. \A s \in Specs : StateOf(s, S, groups[g].states[s])
      BY <1>1, <1>3, <3>1
    <3>4. \A s \in Specs : AllAccumulate(s, S)
      BY <1>1, <3>2 DEF AllAccumulate
    <3> HIDE DEF S
    <3>5. IsGroupRow(RowOf(groups[g]), groups[g].exemplar, S)
      BY <3>2, <3>3, <3>4, GroupRow
    <3> QED BY <1>1, <3>1, <3>5 DEF S
  <2>5. Chosen # {} \/ query.groupBy # <<>>
    <3>1. groups # <<>> => Chosen # {}
      <4> SUFFICES ASSUME groups # <<>> PROVE Chosen # {}
        OBVIOUS
      <4>1. 1 \in DOMAIN groups
        BY <1>1, <1>2
      <4> QED BY <1>1, <4>1
    <3> QED BY <1>5, <3>1
  <2>6. DOMAIN GroupRows = DOMAIN groups
    BY <1>2, <2>3
  <2> QED BY <1>1, <1>2, <2>1, <2>3, <2>4, <2>5, <2>6
<1> QED BY <1>4, <1>5

----------------------------------------------------------------------------
(* The rows that reach the sort and the limit *)

OutRow(row) ==
    IF Aggregates THEN \E g \in DOMAIN GroupRows : row = GroupRows[g]
    ELSE \E k \in Chosen : row = Input[k]

Unknown(row) == \E n \in NamesOf(query) \ {Absent, Star} : ~IsAggregate(n) /\ n \notin DOMAIN row

\* What FailureHasACause asks for.
Cause ==
    \/ \E k \in Chosen :
          \/ Unknown(Input[k])
          \/ \E s \in Specs :
                \/ s # <<"COUNT", "*">> /\ <<"col", s[2]>> \notin DOMAIN Input[k]
                \/ s[1] \in {"SUM", "AVG"} /\ Argument(Input[k], s) \notin NumCell \cup {Empty}
    \/ Aggregates /\ Chosen = {} /\ query.groupBy = <<>> /\ Unknown(<<>>)

\* Cause is what FailureHasACause asks of a statement that failed.
LEMMA CauseIsTheCause == FailureHasACause <=> (phase = "failed" => Cause)
BY Zenon DEF FailureHasACause, Cause, Unknown

\* The row of a group is of no row, or of the first row of the group.
LEMMA GroupRowOf ==
    ASSUME query \in Queries, GroupedOver(groups, Chosen), NEW g \in DOMAIN GroupRows
    PROVE  \E e, members :
              /\ IsGroupRow(GroupRows[g], e, members)
              /\ \/ e = <<>> /\ Chosen = {} /\ query.groupBy = <<>>
                 \/ \E k \in Chosen : e = Input[k]
<1>1. CASE Chosen = {} /\ query.groupBy = <<>>
  <2>1. Len(GroupRows) = 1 /\ DOMAIN GroupRows = 1..Len(GroupRows) /\ IsGroupRow(GroupRows[1], <<>>, {})
    BY <1>1, GroupRowsShape
  <2>2. g = 1
    BY <2>1
  <2> QED BY <1>1, <2>1, <2>2
<1>2. CASE ~(Chosen = {} /\ query.groupBy = <<>>)
  BY <1>2, GroupRowsShape
<1> QED BY <1>1, <1>2

\* The cells of these rows.
LEMMA OutRowCells ==
    ASSUME query \in Queries, Aggregates => GroupedOver(groups, Chosen),
           NEW row, OutRow(row), NEW name \in DOMAIN row
    PROVE  row[name] \in Cell /\ (QuietInput => row[name] \notin RangeCell)
<1>1. Chosen \subseteq DOMAIN Input
  BY DEF Chosen
<1>2. ASSUME NEW k \in Chosen, NEW n \in DOMAIN Input[k]
      PROVE  Input[k][n] \in Cell /\ (QuietInput => Input[k][n] \notin RangeCell)
  <2>1. Input[k] \in ToSet(Input) /\ k \in DOMAIN Input
    BY <1>1, QueryShape
  <2> QED BY <2>1, RowShape DEF QuietInput
<1>3. CASE ~Aggregates
  BY <1>2, <1>3 DEF OutRow
<1>4. CASE Aggregates
  <2>1. PICK g \in DOMAIN GroupRows : row = GroupRows[g]
    BY <1>4 DEF OutRow
  <2>2. PICK e, members : /\ IsGroupRow(row, e, members)
                          /\ \/ e = <<>> /\ Chosen = {} /\ query.groupBy = <<>>
                             \/ \E k \in Chosen : e = Input[k]
    BY <1>4, <2>1, GroupRowOf
  <2>3. CASE name \in Specs
    <3>1. /\ row[name] \in NumCell \cup {Empty} \cup CellsAt(name, members)
          /\ AllAccumulate(name, members) /\ members \in SUBSET Chosen
      BY <2>2, <2>3 DEF IsGroupRow
    <3>2. NumCell \cup {Empty} \subseteq Cell /\ RangeCell \cap (NumCell \cup {Empty}) = {}
      BY CellAssumption, PipelineAssumption
    <3>3. ASSUME row[name] \in CellsAt(name, members), row[name] # Empty
          PROVE  row[name] \in Cell /\ (QuietInput => row[name] \notin RangeCell)
      <4>1. PICK k \in members : row[name] = Argument(Input[k], name)
        BY <3>3 DEF CellsAt
      <4>2. k \in Chosen /\ Accumulates(name, Input[k])
        BY <3>1, <4>1 DEF AllAccumulate
      <4>3. name[2] # "*" /\ name # <<"COUNT", "*">>
        BY <3>3, <4>1 DEF Argument
      <4>4. <<"col", name[2]>> \in DOMAIN Input[k] /\ row[name] = Input[k][<<"col", name[2]>>]
        BY <4>1, <4>2, <4>3 DEF Accumulates, Argument
      <4> QED BY <1>2, <4>2, <4>4
    <3> QED BY <3>1, <3>2, <3>3
  <2>4. CASE name \notin Specs
    <3>1. name \in DOMAIN e /\ row[name] = e[name]
      BY <2>2, <2>4 DEF IsGroupRow
    <3>2. DOMAIN <<>> = {}
      OBVIOUS
    <3> QED BY <1>2, <2>2, <3>1, <3>2
  <2> QED BY <2>3, <2>4
<1> QED BY <1>3, <1>4

\* A name that one of these rows does not have.
LEMMA OutRowCause ==
    ASSUME query \in Queries, Aggregates => GroupedOver(groups, Chosen),
           NEW row, OutRow(row),
           NEW name \in NamesOf(query) \ {Absent, Star}, name \notin DOMAIN row
    PROVE  Cause
<1>1. CASE ~Aggregates
  <2>1. ~IsAggregate(name)
    BY <1>1 DEF Aggregates
  <2> QED BY <1>1, <2>1 DEF OutRow, Cause, Unknown
<1>2. CASE Aggregates
  <2>1. PICK g \in DOMAIN GroupRows : row = GroupRows[g]
    BY <1>2 DEF OutRow
  <2>2. PICK e, members : /\ IsGroupRow(row, e, members)
                          /\ \/ e = <<>> /\ Chosen = {} /\ query.groupBy = <<>>
                             \/ \E k \in Chosen : e = Input[k]
    BY <1>2, <2>1, GroupRowOf
  <2>3. ~IsAggregate(name) /\ name \notin DOMAIN e
    BY <2>2 DEF IsGroupRow, Specs
  <2>4. Unknown(e)
    BY <2>3 DEF Unknown
  <2> QED BY <1>2, <2>2, <2>4 DEF Cause
<1> QED BY <1>1, <1>2

\* The names a statement asks for, where it asks for them.
LEMMA NamesAsked ==
    ASSUME query \in Queries
    PROVE  /\ Sorts => query.orderBy \in NamesOf(query) \ {Absent, Star}
           /\ HasHaving => query.having.name \in NamesOf(query) \ {Absent, Star}
           /\ query.select # <<Star>> => ToSet(query.select) \subseteq NamesOf(query) \ {Absent, Star}
<1>1. WellTyped(query)
  BY QueryShape
<1> QED BY <1>1 DEF WellTyped, NamesOf, Sorts, HasHaving

\* A cause is one of the statement and stays one.
LEMMA SameCause ==
    ASSUME query' = query
    PROVE  /\ Cause' = Cause
           /\ FailureHasACause' <=> (phase' = "failed" => Cause)
<1>1. Chosen' = Chosen /\ Specs' = Specs /\ Input' = Input /\ Aggregates' = Aggregates
  BY SameStatement
<1>2. Cause' = Cause
  BY <1>1 DEF Cause, Unknown, NamesOf, Input
<1>3. FailureHasACause' <=> (phase' = "failed" => Cause')
  BY Zenon DEF FailureHasACause, Cause, Unknown
<1> QED BY <1>2, <1>3

\* After the aggregation, all rows are in their groups.
LEMMA AllGrouped ==
    ASSUME Shape, GroupedSoFar, phase \in {"sort", "emit", "done"}
    PROVE  Aggregates => GroupedOver(groups, Chosen)
BY PulledShape DEF Shape, GroupedSoFar

\* The rows that HAVING or WHERE leaves.
LEMMA FromRows ==
    ASSUME Shape, GroupedSoFar, Filtered, phase \in {"sort", "emit", "done"}
    PROVE  /\ Len(From) \in Nat /\ DOMAIN From = 1..Len(From)
           /\ From \in Seq({row \in {From[p] : p \in DOMAIN From} : OutRow(row)})
           /\ \A p \in DOMAIN From : OutRow(From[p])
           /\ From = IF Aggregates THEN Picked(GroupRows, Kept) ELSE Picked(Input, Chosen)
<1>1. query \in Queries
  BY DEF Shape
<1>2. CASE Aggregates
  <2>1. From = Picked(GroupRows, Kept)
    BY <1>2 DEF From, Filtered
  <2>2. DOMAIN GroupRows = 1..Len(AllGroups) /\ Len(AllGroups) \in Nat
    BY <1>1, <1>2, AllGrouped, GroupRowsShape
  <2>3. Kept \in SUBSET (1..Len(AllGroups))
    BY <2>2 DEF Kept
  <2>4. /\ From = [p \in 1..Cardinality(Kept) |-> GroupRows[Ascending(Kept)[p]]]
        /\ Len(From) = Cardinality(Kept) /\ DOMAIN From = 1..Cardinality(Kept)
        /\ \A p \in 1..Cardinality(Kept) : Ascending(Kept)[p] \in Kept
        /\ Cardinality(Kept) \in Nat
    BY <2>1, <2>2, <2>3, PickedElements, Positions
  <2>5. \A p \in DOMAIN From : From[p] = GroupRows[Ascending(Kept)[p]] /\ Ascending(Kept)[p] \in Kept
    BY <2>4, Zenon
  <2>6. \A p \in DOMAIN From : OutRow(From[p])
    BY <1>2, <2>5 DEF OutRow, Kept
  <2>7. From \in [1..Cardinality(Kept) -> {row \in {From[p] : p \in DOMAIN From} : OutRow(row)}]
    <3> HIDE DEF From
    <3> QED BY <2>4, <2>6
  <2> QED BY <1>2, <2>1, <2>4, <2>6, <2>7
<1>3. CASE ~Aggregates
  <2>1. From = Picked(Input, Chosen)
    BY <1>3 DEF From, Passing
  <2>2. Chosen \in SUBSET (1..Len(Input)) /\ Len(Input) \in Nat
    BY <1>1, ChosenShape
  <2>4. /\ From = [p \in 1..Cardinality(Chosen) |-> Input[Ascending(Chosen)[p]]]
        /\ Len(From) = Cardinality(Chosen) /\ DOMAIN From = 1..Cardinality(Chosen)
        /\ \A p \in 1..Cardinality(Chosen) : Ascending(Chosen)[p] \in Chosen
        /\ Cardinality(Chosen) \in Nat
    BY <2>1, <2>2, PickedElements, Positions
  <2>5. \A p \in DOMAIN From : From[p] = Input[Ascending(Chosen)[p]] /\ Ascending(Chosen)[p] \in Chosen
    BY <2>4, Zenon
  <2>6. \A p \in DOMAIN From : OutRow(From[p])
    BY <1>3, <2>5 DEF OutRow
  <2>7. From \in [1..Cardinality(Chosen) -> {row \in {From[p] : p \in DOMAIN From} : OutRow(row)}]
    <3> HIDE DEF From
    <3> QED BY <2>4, <2>6
  <2> QED BY <1>3, <2>1, <2>4, <2>6, <2>7
<1> QED BY <1>2, <1>3

\* The rows that the limit meets.
LEMMA SourceRows ==
    ASSUME Shape, GroupedSoFar, Filtered, Buffered, phase \in {"emit", "done"}
    PROVE  /\ Len(Source) \in Nat /\ DOMAIN Source = 1..Len(Source)
           /\ \A p \in DOMAIN Source : OutRow(Source[p])
           /\ ~Sorts => Source = From
           /\ Streams => Len(Source) = Cardinality(Chosen)
<1>1. /\ Len(From) \in Nat /\ DOMAIN From = 1..Len(From)
      /\ \A p \in DOMAIN From : OutRow(From[p])
  BY FromRows
<1>2. CASE ~Sorts
  <2>1. Source = From
    BY <1>2 DEF Source, From, Streams, Below
  <2>2. Streams => Len(From) = Cardinality(Chosen)
    <3>1. Chosen \in SUBSET (1..Len(Input)) /\ Len(Input) \in Nat
      BY ChosenShape DEF Shape
    <3>2. Len(Passing) = Cardinality(Chosen)
      BY <3>1, PickedElements DEF Passing
    <3> QED BY <3>2 DEF Streams, From
  <2> QED BY <1>1, <1>2, <2>1, <2>2
<1>3. CASE Sorts
  <2>1. Source = buffer /\ ~Streams
    BY <1>3 DEF Source, Streams, Below
  <2>2. PICK place \in Bijection(DOMAIN From, DOMAIN From) :
            buffer = [p \in DOMAIN From |-> From[place[p]]]
    BY <1>3 DEF Buffered, AnswerOrdered, From
  <2>3. place \in [DOMAIN From -> DOMAIN From]
    BY <2>2 DEF Bijection, Injection
  <2>4. \A p \in DOMAIN From : buffer[p] = From[place[p]] /\ OutRow(buffer[p])
    BY <1>1, <2>2, <2>3
  <2>5. buffer \in [1..Len(From) -> {From[q] : q \in DOMAIN From}]
    BY <1>1, <2>2, <2>3
  <2>6. Len(buffer) = Len(From) /\ DOMAIN buffer = 1..Len(From)
    <3> DEFINE T == {From[q] : q \in DOMAIN From}
               n == Len(From)
    <3> HIDE DEF T
    <3>1. buffer \in [1..n -> T] /\ n \in Nat
      BY <1>1, <2>5 DEF T
    <3> HIDE DEF n
    <3>2. Len(buffer) = n /\ DOMAIN buffer = 1..n
      BY <3>1
    <3> QED BY <3>2 DEF n
  <2> QED BY <1>1, <1>3, <2>1, <2>4, <2>6
<1> QED BY <1>2, <1>3

\* Delivering starts with nothing delivered.
LEMMA EmittedStart ==
    ASSUME cursor' = 0, answer' = <<>>, phase' # "done", query' \in Queries,
           Len(Source') \in Nat, Streams' => Pulled' = {}
    PROVE  Emitted'
<1>1. Delivered' = {}
  BY DEF Delivered
<1>2. Picked(Rows', {}) = <<>>
  BY PickedNone
<1>3. query'.limit # -1 => 0 <= query'.limit
  BY PipelineAssumption DEF WellTyped
<1>4. Cardinality({}) = 0
  BY FS_EmptySet
<1> QED BY <1>1, <1>2, <1>3, <1>4, SMTT(30) DEF Emitted

----------------------------------------------------------------------------
(* Each step keeps the invariant *)

\* A statement starts with nothing pulled, grouped, buffered or delivered.
LEMMA InitIInv == Init => IInv
<1> SUFFICES ASSUME Init PROVE IInv
  OBVIOUS
<1>1. /\ query \in Queries /\ phase = (IF Aggregates THEN "aggregate" ELSE AfterAggregate)
      /\ read = 0 /\ groups = <<>> /\ buffer = <<>> /\ cursor = 0 /\ answer = <<>>
      /\ overflow = query.overflow
  BY DEF Init
<1>2. phase \in {"aggregate", "sort", "emit"} /\ (Aggregates <=> phase = "aggregate")
      /\ (phase = "sort" => Sorts) /\ (phase = "emit" => ~Sorts)
  BY <1>1 DEF AfterAggregate
<1>3. Chosen \in SUBSET (1..Len(Input)) /\ Len(Input) \in Nat
  BY <1>1, ChosenShape
<1>4. Shape
  BY <1>1, <1>2, <1>3 DEF Shape
<1>5. Pulled = {}
  <2>1. Pulled \in SUBSET (1..0)
    BY <1>1, <1>4, PulledShape
  <2> QED BY <2>1
<1>6. GroupedSoFar
  <2>1. groups \in Seq(GroupType) /\ DOMAIN groups = {}
    BY <1>1
  <2>2. GroupedOver(groups, {})
    BY <2>1 DEF GroupedOver, GroupType, AllAccumulate
  <2> QED BY <1>5, <2>2 DEF GroupedSoFar
<1>7. Filtered
  BY <1>2 DEF Filtered
<1>8. Buffered
  <2>1. Picked(Input, {}) = <<>> /\ DOMAIN buffer = {}
    BY <1>1, PickedNone
  <2> QED BY <1>1, <1>2, <1>5, <2>1 DEF Buffered, AnswerOrdered
<1>9. Quiet
  BY <1>1 DEF Quiet, QuietInput, NothingOverflows
<1>10. Emitted
  <2> SUFFICES ASSUME phase = "emit" PROVE Emitted
    BY <1>2 DEF Emitted
  <2>1. Streams /\ Source = Passing
    BY <1>2 DEF Streams, Source
  <2>2. Len(Source) \in Nat
    BY <1>4, <1>6, <1>7, <1>8, SourceRows
  <2>3. Delivered = {} /\ Picked(Rows, {}) = <<>> /\ Cardinality({}) = 0
    BY <1>1, PickedNone, FS_EmptySet DEF Delivered
  <2>4. query.limit # -1 => 0 <= query.limit
    BY <1>1, PipelineAssumption DEF WellTyped
  <2> QED BY <1>1, <1>5, <2>2, <2>3, <2>4 DEF Emitted
<1>11. FailureHasACause
  BY <1>2, CauseIsTheCause
<1> QED BY <1>4, <1>6, <1>7, <1>8, <1>9, <1>10, <1>11 DEF IInv

\* What holds of the next groups holds after the step.
LEMMA NextGrouping ==
    ASSUME query' = query, GroupedOver(groups', Pulled')
    PROVE  GroupedOver(groups, Pulled)'
<1>1. PICK gs : gs = groups'
  OBVIOUS
<1>2. PICK T : T = Pulled'
  OBVIOUS
<1>3. Specs' = Specs /\ Input' = Input
  BY SameStatement
<1>4. GroupedOver(gs, T)' <=> GroupedOver(gs, T)
  <2>1. ASSUME NEW row PROVE Key(row)' = Key(row)
    BY DEF Key
  <2>2. ASSUME NEW key PROVE Within(T, key)' = Within(T, key)
    BY <1>3, <2>1 DEF Within
  <2>3. ASSUME NEW spec, NEW S PROVE AllAccumulate(spec, S)' <=> AllAccumulate(spec, S)
    BY <1>3 DEF AllAccumulate
  <2>4. ASSUME NEW spec, NEW S, NEW st PROVE StateOf(spec, S, st)' <=> StateOf(spec, S, st)
    <3>1. ASSUME NEW U PROVE CellsAt(spec, U)' = CellsAt(spec, U) /\ Filled(spec, U)' = Filled(spec, U)
      BY <1>3 DEF CellsAt, Filled
    <3> QED BY <1>3, <3>1, Zenon DEF StateOf
  <2>5. /\ (gs \in Seq([exemplar : ToSet(Input), states : [Specs -> State]]))'
           <=> gs \in Seq([exemplar : ToSet(Input), states : [Specs -> State]])
        /\ (\A s \in Specs : AllAccumulate(s, T))' <=> \A s \in Specs : AllAccumulate(s, T)
    BY <1>3, <2>3
  <2>6. (\A k \in T : \E g \in DOMAIN gs : Key(gs[g].exemplar) = Key(Input[k]))'
           <=> \A k \in T : \E g \in DOMAIN gs : Key(gs[g].exemplar) = Key(Input[k])
    BY <1>3, <2>1
  <2>7. ASSUME NEW g
        PROVE  (\A s \in Specs : StateOf(s, Within(T, Key(gs[g].exemplar)), gs[g].states[s]))'
                  <=> \A s \in Specs : StateOf(s, Within(T, Key(gs[g].exemplar)), gs[g].states[s])
    <3>1. Within(T, Key(gs[g].exemplar))' = Within(T, Key(gs[g].exemplar))
      BY <2>1, <2>2
    <3> QED BY <1>3, <2>4, <3>1
  <2>8. ASSUME NEW g
        PROVE  /\ (\E k \in T : gs[g].exemplar = Input[k])' <=> \E k \in T : gs[g].exemplar = Input[k]
               /\ (\A h \in DOMAIN gs : Key(gs[h].exemplar) = Key(gs[g].exemplar) => h = g)'
                     <=> \A h \in DOMAIN gs : Key(gs[h].exemplar) = Key(gs[g].exemplar) => h = g
    BY <1>3, <2>1
  <2> QED BY <2>5, <2>6, <2>7, <2>8, Zenon DEF GroupedOver
<1>5. GroupedOver(gs, T)
  BY <1>1, <1>2
<1>6. GroupedOver(gs, T)'
  BY <1>4, <1>5
<1> QED BY <1>1, <1>2, <1>6

\* A row goes into its group, is skipped, or ends the statement.
LEMMA AggregateRowIInv ==
    ASSUME IInv, AggregateRow
    PROVE  IInv'
<1> DEFINE k == read + 1
<1>1. /\ Shape /\ GroupedSoFar /\ Quiet /\ query \in Queries /\ phase = "aggregate" /\ Aggregates
      /\ Pull /\ query' = query /\ results' = results /\ buffer' = buffer /\ cursor' = cursor
      /\ answer' = answer /\ buffer = <<>> /\ cursor = 0 /\ answer = <<>>
  BY DEF IInv, Shape, AggregateRow
<1>2. /\ read' \in 0..Len(Input) /\ k \in DOMAIN Input /\ k \notin Pulled /\ NextRow = Input[k]
      /\ Passes(NextRow) => k \in Chosen /\ Pulled' = Pulled \cup {k}
      /\ ~Passes(NextRow) => Pulled' = Pulled
  BY <1>1, PullNext
<1>3. Input' = Input /\ Aggregates' = Aggregates /\ (QuietInput' = QuietInput) /\ Specs' = Specs
  BY <1>1, SameStatement
<1>4. phase' \in {"aggregate", "failed"}
  BY <1>1 DEF AggregateRow
<1>5. Shape'
  BY <1>1, <1>2, <1>3, <1>4 DEF Shape
<1>6. GroupedOver(groups, Pulled)
  BY <1>1 DEF GroupedSoFar
<1>7. phase' # "failed" => GroupedOver(groups', Pulled')
  <2> SUFFICES ASSUME phase' # "failed" PROVE GroupedOver(groups', Pulled')
    OBVIOUS
  <2>1. CASE ~Passes(NextRow)
    BY <1>2, <1>6, <2>1 DEF AggregateRow
  <2>2. CASE Passes(NextRow)
    <3>1. \A s \in Specs : Accumulates(s, NextRow)
      BY <2>2 DEF AggregateRow
    <3>2. groups' = IF Groups(NextRow) = {} THEN Append(groups, Added(NewGroup(NextRow), NextRow))
                    ELSE [g \in DOMAIN groups |->
                           IF g \in Groups(NextRow) THEN Added(groups[g], NextRow) ELSE groups[g]]
      BY <2>2, <3>1, Zenon DEF AggregateRow
    <3> DEFINE hit == Groups(Input[k])
    <3>3. hit = {g \in DOMAIN groups : Key(groups[g].exemplar) = Key(Input[k])}
      BY DEF Groups
    <3> HIDE DEF hit
    <3>4. Pulled \in SUBSET DOMAIN Input
      BY <1>1, PulledShape
    <3>7. \A s \in Specs : Accumulates(s, Input[k])
      BY <1>2, <3>1
    <3>8. k \in DOMAIN Input /\ k \notin Pulled /\ query \in Queries
      BY <1>1, <1>2
    <3> HIDE DEF k
    <3>5. GroupedOver(IF hit = {} THEN Append(groups, Added(NewGroup(Input[k]), Input[k]))
                      ELSE [g \in DOMAIN groups |->
                              IF g \in hit THEN Added(groups[g], Input[k]) ELSE groups[g]],
                      Pulled \cup {k})
      BY <1>6, <3>3, <3>4, <3>7, <3>8, GroupStep, ZenonT(60)
    <3>6. groups' = IF hit = {} THEN Append(groups, Added(NewGroup(Input[k]), Input[k]))
                    ELSE [g \in DOMAIN groups |->
                            IF g \in hit THEN Added(groups[g], Input[k]) ELSE groups[g]]
      BY <1>2, <3>2 DEF hit
    <3> QED BY <1>2, <2>2, <3>5, <3>6
  <2> QED BY <2>1, <2>2
<1>8. GroupedSoFar'
  <2> SUFFICES ASSUME phase' # "failed" PROVE GroupedOver(groups, Pulled)'
    BY DEF GroupedSoFar
  <2>1. GroupedOver(groups', Pulled')
    BY <1>7
  <2> QED BY <1>1, <2>1, NextGrouping
<1>9. Filtered' /\ Emitted'
  BY <1>4 DEF Filtered, Emitted
<1>10. Buffered'
  BY <1>4 DEF Buffered, AnswerOrdered
<1>11. Quiet'
  <2>1. ASSUME QuietInput PROVE ~overflow'
    <3>1. ~overflow
      BY <1>1, <2>1 DEF Quiet
    <3> QED BY <1>1, <2>1, <3>1, PullQuiet
  <2>2. QuietInput' <=> QuietInput
    BY <1>3
  <2> QED BY <1>4, <2>1, <2>2 DEF Quiet
<1>12. FailureHasACause'
  <2>1. ASSUME phase' = "failed" PROVE Cause
    <3>1. Passes(NextRow) /\ \E s \in Specs : ~Accumulates(s, NextRow)
      BY <1>1, <2>1 DEF AggregateRow
    <3>2. k \in Chosen /\ NextRow = Input[k]
      BY <1>2, <3>1
    <3> QED BY <3>1, <3>2 DEF Cause, Accumulates
  <2> QED BY <1>1, <2>1, SameCause
<1> QED BY <1>5, <1>8, <1>9, <1>10, <1>11, <1>12 DEF IInv

\* Later steps do not change what overflows.
LEMMA SameOverflows ==
    ASSUME query' = query, groups' = groups
    PROVE  NothingOverflows' <=> NothingOverflows
<1>1. /\ GroupRows' = GroupRows /\ Input' = Input /\ HasHaving' = HasHaving
      /\ HasWhere' = HasWhere /\ Aggregates' = Aggregates
  BY SameGroups, SameStatement
<1>2. \A k \in DOMAIN GroupRows : HavingOverflows(GroupRows[k][query.having.name])'
                                    <=> HavingOverflows(GroupRows[k][query.having.name])
  BY <1>1 DEF HavingOverflows
<1> QED BY <1>1, <1>2 DEF NothingOverflows, HavingOverflows

\* Once the groups are made, they stay as they are.
LEMMA LaterGroups ==
    ASSUME Shape, GroupedSoFar, query' = query, groups' = groups, read' = read
    PROVE  /\ Pulled' = Pulled
           /\ phase # "failed" => GroupedSoFar'
<1>1. Pulled' = Pulled /\ Aggregates' = Aggregates
  BY SameStatement DEF Pulled
<1>2. ASSUME Aggregates, phase # "failed" PROVE GroupedOver(groups, Pulled)'
  <2>1. GroupedOver(groups', Pulled')
    BY <1>1, <1>2 DEF GroupedSoFar
  <2> QED BY <2>1, NextGrouping
<1> QED BY <1>1, <1>2 DEF GroupedSoFar

\* At the end of its input the aggregation makes the rows of the groups.
LEMMA AggregateEndIInv ==
    ASSUME IInv, AggregateEnd
    PROVE  IInv'
<1>1. /\ Shape /\ GroupedSoFar /\ Quiet /\ query \in Queries /\ phase = "aggregate" /\ Aggregates
      /\ ~More /\ query' = query /\ read' = read /\ groups' = groups /\ buffer' = buffer
      /\ cursor' = cursor /\ answer' = answer /\ buffer = <<>> /\ cursor = 0 /\ answer = <<>>
  BY DEF IInv, Shape, AggregateEnd
<1>2. /\ Input' = Input /\ Aggregates' = Aggregates /\ Sorts' = Sorts /\ Streams' = Streams
      /\ HasHaving' = HasHaving /\ QuietInput' = QuietInput
      /\ GroupRows' = GroupRows /\ Kept' = Kept
  BY <1>1, SameStatement, SameGroups
<1>3. read = Len(Input) /\ Pulled = Chosen /\ GroupedOver(groups, Chosen)
  <2>1. read = Len(Input)
    <3>1. Len(Input) \in Nat /\ read \in 0..Len(Input) /\ ~(read < Len(Input))
      BY <1>1, PulledShape DEF More, Shape
    <3> QED BY <3>1
  <2> QED BY <1>1, <2>1, PulledShape DEF GroupedSoFar
<1>4. phase' \in {"sort", "emit", "failed"} /\ (phase' = "sort" => Sorts) /\ (phase' = "emit" => ~Sorts)
  BY <1>1 DEF AggregateEnd, AfterAggregate
<1>5. Shape'
  BY <1>1, <1>2, <1>3, <1>4 DEF Shape
<1>6. GroupedSoFar'
  BY <1>1, LaterGroups
<1>7. phase' # "failed" =>
         /\ results' = Picked(GroupRows, Kept)
         /\ overflow' = IF HasHaving THEN AfterHaving ELSE overflow
         /\ HasHaving => \A k \in DOMAIN GroupRows : query.having.name \in DOMAIN GroupRows[k]
  <2>1. CASE HasHaving /\ \E k \in DOMAIN GroupRows : query.having.name \notin DOMAIN GroupRows[k]
    BY <2>1 DEF AggregateEnd
  <2>2. CASE ~(HasHaving /\ \E k \in DOMAIN GroupRows : query.having.name \notin DOMAIN GroupRows[k])
    <3>1. /\ results' = Picked(GroupRows, {k \in DOMAIN GroupRows : HavingHolds(GroupRows[k])})
          /\ overflow' = IF HasHaving THEN AfterHaving ELSE overflow
      BY <2>2, Zenon DEF AggregateEnd
    <3> QED BY <2>2, <3>1 DEF Kept
  <2> QED BY <2>1, <2>2
<1>8. Filtered'
  BY <1>1, <1>2, <1>4, <1>7 DEF Filtered
<1>9. phase' # "failed" => Len(results') \in Nat
  <2>1. DOMAIN GroupRows = 1..Len(AllGroups) /\ Len(AllGroups) \in Nat
    BY <1>1, <1>3, GroupRowsShape
  <2>2. Kept \in SUBSET (1..Len(AllGroups))
    BY <2>1 DEF Kept
  <2>3. Len(Picked(GroupRows, Kept)) = Cardinality(Kept) /\ Cardinality(Kept) \in Nat
    BY <2>1, <2>2, PickedElements, Positions
  <2> QED BY <1>7, <2>3
<1>10. Buffered'
  <2>1. phase' = "sort" => /\ cursor' <= Len(results') /\ buffer' = [p \in 1..cursor' |-> results'[p]]
                           /\ DOMAIN buffer' = {}
    BY <1>1, <1>9
  <2>2. AnswerOrdered'
    BY <1>2, <1>4 DEF AnswerOrdered
  <2> QED BY <1>1, <1>2, <2>1, <2>2 DEF Buffered
<1>11. Quiet'
  <2>1. ASSUME phase' = "sort", NothingOverflows PROVE ~overflow'
    <3>1. QuietInput
      BY <2>1 DEF NothingOverflows, QuietInput
    <3>2. ~overflow
      BY <1>1, <3>1 DEF Quiet
    <3>3. CASE HasHaving
      <4>1. \A k \in DOMAIN GroupRows : ~HavingOverflows(GroupRows[k][query.having.name])
        BY <1>1, <2>1, <3>3 DEF NothingOverflows
      <4>2. overflow' = AfterHaving
        BY <1>7, <2>1, <3>3
      <4>3. ~AfterHaving
        BY <3>2, <4>1 DEF AfterHaving
      <4> QED BY <4>2, <4>3
    <3>4. CASE ~HasHaving
      BY <1>7, <2>1, <3>2, <3>4
    <3> QED BY <3>3, <3>4
  <2>2. NothingOverflows' <=> NothingOverflows
    BY <1>1, SameOverflows
  <2> QED BY <1>4, <2>1, <2>2 DEF Quiet
<1>12. Emitted'
  <2>1. CASE phase' = "emit"
    <3>1. Source' = results' /\ ~Streams'
      BY <1>1, <1>2, <1>4, <2>1 DEF Source, Streams, Below
    <3>2. Len(Source') \in Nat
      BY <1>9, <2>1, <3>1
    <3> QED BY <1>1, <2>1, <3>1, <3>2, EmittedStart
  <2>2. CASE phase' # "emit"
    BY <1>4, <2>2 DEF Emitted
  <2> QED BY <2>1, <2>2
<1>13. FailureHasACause'
  <2>1. ASSUME phase' = "failed" PROVE Cause
    <3>1. HasHaving /\ \E k \in DOMAIN GroupRows : query.having.name \notin DOMAIN GroupRows[k]
      BY <2>1 DEF AggregateEnd, AfterAggregate
    <3>2. PICK k \in DOMAIN GroupRows : query.having.name \notin DOMAIN GroupRows[k]
      BY <3>1
    <3>3. OutRow(GroupRows[k])
      BY <1>1 DEF OutRow
    <3>4. query.having.name \in NamesOf(query) \ {Absent, Star}
      BY <1>1, <3>1, NamesAsked
    <3> QED BY <1>1, <1>3, <3>2, <3>3, <3>4, OutRowCause
  <2> QED BY <1>1, <2>1, SameCause
<1> QED BY <1>5, <1>6, <1>8, <1>10, <1>11, <1>12, <1>13 DEF IInv

\* A row goes into the buffer of the sort, is skipped, or ends the statement.
LEMMA SortRowIInv ==
    ASSUME IInv, SortRow
    PROVE  IInv'
<1>1. /\ Shape /\ GroupedSoFar /\ Filtered /\ Buffered /\ Quiet /\ query \in Queries
      /\ phase = "sort" /\ Sorts /\ answer = <<>> /\ query' = query /\ groups' = groups
      /\ results' = results /\ answer' = answer
  BY DEF IInv, Shape, SortRow
<1>2. /\ Input' = Input /\ Aggregates' = Aggregates /\ Sorts' = Sorts
      /\ HasHaving' = HasHaving /\ QuietInput' = QuietInput
      /\ GroupRows' = GroupRows /\ Kept' = Kept
  BY <1>1, SameStatement, SameGroups
<1>3. phase' \in {"sort", "failed"}
  BY <1>1 DEF SortRow
<1>4. /\ Len(From) \in Nat /\ DOMAIN From = 1..Len(From) /\ \A p \in DOMAIN From : OutRow(From[p])
      /\ Aggregates => GroupedOver(groups, Chosen)
  BY <1>1, FromRows, AllGrouped
<1>5. query.orderBy \in NamesOf(query) \ {Absent, Star}
  BY <1>1, NamesAsked
<1>6. Filtered' /\ Emitted'
  BY <1>1, <1>2, <1>3 DEF Filtered, Emitted
<1>7. AnswerOrdered'
  BY <1>3 DEF AnswerOrdered
<1>8. NothingOverflows' <=> NothingOverflows
  BY <1>1, SameOverflows
<1>9. \A p \in DOMAIN buffer : query.orderBy \in DOMAIN buffer[p]
  BY <1>1 DEF Buffered
<1>10. CASE Aggregates
  <2> DEFINE row == results[cursor + 1]
  <2>1. /\ cursor < Len(results) /\ cursor' = cursor + 1 /\ read' = read /\ overflow' = overflow
        /\ IF Missing(row) THEN phase' = "failed" /\ buffer' = buffer
           ELSE buffer' = Append(buffer, row) /\ phase' = phase
    BY <1>10 DEF SortRow
  <2>2. /\ cursor \in Nat /\ Len(results) \in Nat /\ From = results
        /\ buffer = [p \in 1..cursor |-> results[p]]
    BY <1>1, <1>4, <1>10 DEF Shape, Buffered, From
  <2>3. OutRow(row)
    BY <1>4, <2>1, <2>2
  <2>4. Shape'
    BY <1>1, <1>2, <1>3, <2>1, <2>2 DEF Shape
  <2>5. GroupedSoFar'
    BY <1>1, <2>1, LaterGroups
  <2>6. ASSUME phase' = "sort"
        PROVE  /\ buffer' = [p \in 1..cursor' |-> results'[p]]
               /\ \A p \in DOMAIN buffer' : query.orderBy \in DOMAIN buffer'[p]
    <3>1. buffer' = Append(buffer, row) /\ query.orderBy \in DOMAIN row
      BY <2>1, <2>6 DEF Missing
    <3>2. buffer \in Seq({results[p] : p \in 1..cursor}) /\ Len(buffer) = cursor
      BY <2>2
    <3>3. Append(buffer, row) = [p \in 1..cursor + 1 |-> results[p]]
      BY <2>2, <3>2
    <3>4. \A p \in 1..cursor + 1 : p \in DOMAIN buffer \/ p = cursor + 1
      BY <2>2
    <3>5. \A p \in 1..cursor + 1 : query.orderBy \in DOMAIN results[p]
      BY <1>9, <2>2, <3>1, <3>4
    <3> QED BY <1>1, <2>1, <3>1, <3>3, <3>5
  <2>7. Buffered'
    <3>1. phase' = "sort" => cursor' <= Len(results')
      BY <1>1, <2>1, <2>2
    <3> QED BY <1>1, <1>2, <1>7, <1>10, <2>6, <3>1 DEF Buffered
  <2>8. Quiet'
    BY <1>1, <1>3, <1>8, <2>1 DEF Quiet
  <2>9. FailureHasACause'
    <3>1. ASSUME phase' = "failed" PROVE Cause
      <4>1. query.orderBy \notin DOMAIN row
        BY <1>1, <2>1, <3>1 DEF Missing
      <4> HIDE DEF row
      <4> QED BY <1>1, <1>4, <1>5, <2>3, <4>1, OutRowCause
    <3> QED BY <1>1, <3>1, SameCause
  <2> QED BY <1>6, <2>4, <2>5, <2>7, <2>8, <2>9 DEF IInv
<1>11. CASE ~Aggregates
  <2> DEFINE k == read + 1
  <2>1. /\ Pull /\ cursor' = cursor
        /\ IF ~Passes(NextRow) THEN buffer' = buffer /\ phase' = phase
           ELSE IF Missing(NextRow) THEN phase' = "failed" /\ buffer' = buffer
           ELSE buffer' = Append(buffer, NextRow) /\ phase' = phase
    BY <1>11 DEF SortRow
  <2>2. /\ read' \in 0..Len(Input) /\ NextRow = Input[k] /\ k \in DOMAIN Input
        /\ Passes(NextRow) => k \in Chosen /\ Pulled' = Pulled \cup {k}
        /\ ~Passes(NextRow) => Pulled' = Pulled
    BY <1>1, <2>1, PullNext
  <2>3. buffer = Picked(Input, Pulled) /\ Pulled \in SUBSET (1..read) /\ read \in Nat
    BY <1>1, <1>11, PulledShape DEF Buffered
  <2>4. Shape'
    BY <1>1, <1>2, <1>3, <1>11, <2>1, <2>2 DEF Shape
  <2>5. GroupedSoFar'
    BY <1>2, <1>11 DEF GroupedSoFar
  <2>6. ASSUME phase' = "sort"
        PROVE  /\ buffer' = Picked(Input, Pulled')
               /\ \A p \in DOMAIN buffer' : query.orderBy \in DOMAIN buffer'[p]
    <3>1. CASE ~Passes(NextRow)
      BY <1>9, <2>1, <2>2, <2>3, <3>1
    <3>2. CASE Passes(NextRow)
      <4>1. buffer' = Append(buffer, NextRow) /\ query.orderBy \in DOMAIN NextRow
        BY <2>1, <2>6, <3>2 DEF Missing
      <4>2. /\ Picked(Input, Pulled \cup {read + 1}) = Append(Picked(Input, Pulled), Input[read + 1])
        BY <2>3, PickedNext
      <4>3. buffer' = Picked(Input, Pulled')
        BY <2>2, <2>3, <3>2, <4>1, <4>2
      <4>4. \E n \in Nat : DOMAIN buffer = 1..n /\ Len(buffer) = n /\ buffer \in Seq({Input[m] : m \in Pulled})
        <5>1. /\ DOMAIN buffer = 1..Cardinality(Pulled) /\ Len(buffer) = Cardinality(Pulled)
              /\ \A T : (\A m \in Pulled : Input[m] \in T) => buffer \in Seq(T)
          BY <2>3, PickedElements
        <5>2. Cardinality(Pulled) \in Nat
          BY <2>3, Positions
        <5> QED BY <5>1, <5>2
      <4>5. \A p \in DOMAIN Append(buffer, NextRow) :
               query.orderBy \in DOMAIN Append(buffer, NextRow)[p]
        BY <1>9, <4>1, <4>4
      <4> QED BY <4>1, <4>3, <4>5
    <3> QED BY <3>1, <3>2
  <2>7. Buffered'
    BY <1>1, <1>2, <1>7, <1>11, <2>6 DEF Buffered
  <2>8. Quiet'
    <3>1. ASSUME NothingOverflows PROVE ~overflow'
      <4>1. QuietInput /\ ~overflow
        BY <1>1, <3>1 DEF Quiet, NothingOverflows, QuietInput
      <4> QED BY <1>1, <2>1, <4>1, PullQuiet
    <3> QED BY <1>3, <1>8, <3>1 DEF Quiet
  <2>9. FailureHasACause'
    <3>1. ASSUME phase' = "failed" PROVE Cause
      <4>1. Passes(NextRow) /\ query.orderBy \notin DOMAIN NextRow
        BY <1>1, <2>1, <3>1 DEF Missing
      <4>2. OutRow(NextRow)
        BY <1>11, <2>2, <4>1 DEF OutRow
      <4> QED BY <1>1, <1>4, <1>5, <4>1, <4>2, OutRowCause
    <3> QED BY <1>1, <3>1, SameCause
  <2> QED BY <1>6, <2>4, <2>5, <2>7, <2>8, <2>9 DEF IInv
<1> QED BY <1>10, <1>11

\* A weak order turned round is one.
LEMMA ReversedSigns ==
    ASSUME NEW n \in Nat, NEW sign, IsWeakOrder(sign, n)
    PROVE  IsWeakOrder([a \in 1..n |-> [b \in 1..n |-> -sign[a][b]]], n)
<1> DEFINE back == [a \in 1..n |-> [b \in 1..n |-> -sign[a][b]]]
<1>1. \A a, b \in 1..n : sign[a][b] \in {-1, 0, 1} /\ back[a][b] = -sign[a][b]
  BY DEF IsWeakOrder
<1>2. back \in [1..n -> [1..n -> {-1, 0, 1}]]
  <2>1. \A a, b \in 1..n : -sign[a][b] \in {-1, 0, 1}
    BY <1>1
  <2> QED BY <2>1
<1> HIDE DEF back
<1>3. \A a \in 1..n : back[a][a] = 0
  BY <1>1 DEF IsWeakOrder
<1>4. ASSUME NEW a \in 1..n, NEW b \in 1..n
      PROVE  /\ back[a][b] < 0 <=> back[b][a] > 0
             /\ back[a][b] = 0 <=> back[b][a] = 0
  <2>1. /\ sign[a][b] < 0 <=> sign[b][a] > 0
        /\ sign[b][a] < 0 <=> sign[a][b] > 0
        /\ sign[a][b] = 0 <=> sign[b][a] = 0
    BY DEF IsWeakOrder
  <2>2. /\ sign[a][b] \in {-1, 0, 1} /\ back[a][b] = -sign[a][b]
        /\ sign[b][a] \in {-1, 0, 1} /\ back[b][a] = -sign[b][a]
    BY <1>1
  <2> QED BY <2>1, <2>2
<1>5. ASSUME NEW a \in 1..n, NEW b \in 1..n, NEW c \in 1..n
      PROVE  /\ back[a][b] < 0 /\ back[b][c] <= 0 => back[a][c] < 0
             /\ back[a][b] <= 0 /\ back[b][c] < 0 => back[a][c] < 0
             /\ back[a][b] = 0 /\ back[b][c] = 0 => back[a][c] = 0
  <2>1. /\ sign[c][b] < 0 /\ sign[b][a] <= 0 => sign[c][a] < 0
        /\ sign[c][b] <= 0 /\ sign[b][a] < 0 => sign[c][a] < 0
        /\ sign[c][b] = 0 /\ sign[b][a] = 0 => sign[c][a] = 0
    BY DEF IsWeakOrder
  <2>2. /\ back[a][b] = -sign[a][b] /\ back[b][c] = -sign[b][c] /\ back[a][c] = -sign[a][c]
        /\ sign[a][b] \in {-1, 0, 1} /\ sign[b][c] \in {-1, 0, 1} /\ sign[a][c] \in {-1, 0, 1}
        /\ sign[b][a] \in {-1, 0, 1} /\ sign[c][b] \in {-1, 0, 1} /\ sign[c][a] \in {-1, 0, 1}
    BY <1>1
  <2>3. /\ sign[b][a] < 0 <=> sign[a][b] > 0
        /\ sign[c][b] < 0 <=> sign[b][c] > 0
        /\ sign[c][a] < 0 <=> sign[a][c] > 0
        /\ sign[b][a] = 0 <=> sign[a][b] = 0
        /\ sign[c][b] = 0 <=> sign[b][c] = 0
        /\ sign[c][a] = 0 <=> sign[a][c] = 0
    BY DEF IsWeakOrder
  <2> QED BY <2>1, <2>2, <2>3
<1>6. IsWeakOrder(back, n)
  BY <1>2, <1>3, <1>4, <1>5 DEF IsWeakOrder
<1> QED BY <1>6 DEF back

\* Sorting the rows of ORDER BY, numbers among S first, in the direction asked for.
LEMMA SortArranges ==
    ASSUME query.asc \in BOOLEAN, NEW S \in SUBSET NumCell, NEW n \in Nat, NEW keys \in [1..n -> Cell]
    PROVE  LET order == Ranked(1..n, [a \in 1..n |->
                            {b \in 1..n : \/ Directed(CompareNumbersFirst(keys[b], keys[a], S)) < 0
                                          \/ /\ Directed(CompareNumbersFirst(keys[b], keys[a], S)) = 0
                                             /\ b < a}])
           IN  /\ order \in Bijection(1..n, 1..n)
               /\ \A p, q \in 1..n : p < q =>
                     LET c == CompareNumbersFirst(keys[order[p]], keys[order[q]], S)
                     IN IF query.asc THEN c <= 0 ELSE c >= 0
<1> DEFINE plain == [a \in 1..n |-> [b \in 1..n |-> CompareNumbersFirst(keys[a], keys[b], S)]]
           back == [a \in 1..n |-> [b \in 1..n |-> -plain[a][b]]]
           sign == IF query.asc THEN plain ELSE back
           bySign == [a \in 1..n |-> {b \in 1..n : sign[b][a] < 0 \/ (sign[b][a] = 0 /\ b < a)}]
           asked == [a \in 1..n |->
                            {b \in 1..n : \/ Directed(CompareNumbersFirst(keys[b], keys[a], S)) < 0
                                          \/ /\ Directed(CompareNumbersFirst(keys[b], keys[a], S)) = 0
                                             /\ b < a}]
<1>1. \A a, b \in 1..n : plain[a][b] = CompareNumbersFirst(keys[a], keys[b], S)
  OBVIOUS
<1>2. IsWeakOrder(plain, n)
  BY KeySigns
<1> HIDE DEF plain
<1>3. IsWeakOrder(back, n) /\ \A a, b \in 1..n : back[a][b] = -plain[a][b]
  BY <1>2, ReversedSigns
<1> HIDE DEF back
<1>4. IsWeakOrder(sign, n)
        /\ \A a, b \in 1..n : sign[a][b] = Directed(CompareNumbersFirst(keys[a], keys[b], S))
  BY <1>1, <1>2, <1>3 DEF Directed
<1> HIDE DEF sign
<1>10. IsWeakOrder(sign, n)
  BY <1>4
<1>5. bySign = asked
  BY <1>4
<1> DEFINE order == Ranked(1..n, bySign)
<1>6. /\ order \in [1..n -> 1..n] /\ Lists(order, 1..n)
      /\ \A p, q \in 1..n : p <= q => sign[order[p]][order[q]] <= 0
  BY <1>10, StableSorts
<1>7. order = Ranked(1..n, asked)
  BY <1>5
<1> HIDE DEF order, bySign, asked
<1>8. order \in Bijection(1..n, 1..n)
  <2>1. IsInjective(order) /\ Range(order) = 1..n
    BY <1>6 DEF Lists
  <2> QED BY <1>6, <2>1 DEF IsInjective, Range, Bijection, Injection, Surjection
<1>9. ASSUME NEW p \in 1..n, NEW q \in 1..n, p < q
      PROVE  LET c == CompareNumbersFirst(keys[order[p]], keys[order[q]], S)
             IN IF query.asc THEN c <= 0 ELSE c >= 0
  <2> DEFINE c == CompareNumbersFirst(keys[order[p]], keys[order[q]], S)
  <2>1. order[p] \in 1..n /\ order[q] \in 1..n
    BY <1>6
  <2>2. sign[order[p]][order[q]] <= 0 /\ p <= q
    BY <1>6, <1>9
  <2>3. Directed(c) <= 0
    BY <1>4, <2>1, <2>2
  <2>4. c \in {-1, 0, 1}
    BY <2>1, NumbersFirstIsWeakOrder
  <2> HIDE DEF c
  <2>5. IF query.asc THEN c <= 0 ELSE c >= 0
    BY <2>3, <2>4 DEF Directed
  <2> QED BY <2>5 DEF c
<1> QED BY <1>7, <1>8, <1>9 DEF asked

\* The rows of the buffer, from their keys.
LEMMA ArrangedRows ==
    ASSUME query.asc \in BOOLEAN, NEW n \in Nat, DOMAIN buffer = 1..n, Len(buffer) = n,
           \A p \in 1..n : SortKey(p) \in Cell
    PROVE  /\ \E place \in Bijection(1..n, 1..n) :
                 /\ Arranged(NumbersFirst) = [p \in 1..n |-> buffer[place[p]]]
                 /\ \A p, q \in 1..n : p < q =>
                       LET c == CompareNumbersFirst(SortKey(place[p]), SortKey(place[q]), NumCell)
                       IN IF query.asc THEN c <= 0 ELSE c >= 0
           /\ \E place \in Bijection(1..n, 1..n) :
                 Arranged(AsTexts) = [p \in 1..n |-> buffer[place[p]]]
<1> DEFINE keys == [p \in 1..n |-> SortKey(p)]
           Order(S) == Ranked(1..n, [a \in 1..n |->
                            {b \in 1..n : \/ Directed(CompareNumbersFirst(keys[b], keys[a], S)) < 0
                                          \/ /\ Directed(CompareNumbersFirst(keys[b], keys[a], S)) = 0
                                             /\ b < a}])
<1>1. keys \in [1..n -> Cell]
  OBVIOUS
<1>2. \A p \in 1..n : keys[p] = SortKey(p)
  OBVIOUS
<1> HIDE DEF keys
<1>3. NumCell \in SUBSET NumCell /\ {} \in SUBSET NumCell
  OBVIOUS
<1>4. /\ Order(NumCell) \in Bijection(1..n, 1..n)
      /\ \A p, q \in 1..n : p < q =>
            LET c == CompareNumbersFirst(keys[Order(NumCell)[p]], keys[Order(NumCell)[q]], NumCell)
            IN IF query.asc THEN c <= 0 ELSE c >= 0
  BY <1>1, <1>3, SortArranges, ZenonT(60)
<1>5. Order({}) \in Bijection(1..n, 1..n)
  BY <1>1, <1>3, SortArranges
<1>6. Arranged(NumbersFirst) = [p \in 1..n |-> buffer[Order(NumCell)[p]]]
  BY <1>2, ZenonT(60) DEF Arranged, StableOrder, NumbersFirst
<1>7. Arranged(AsTexts) = [p \in 1..n |-> buffer[Order({})[p]]]
  <2> DEFINE order == Ranked(1..n, [a \in 1..n |->
                            {b \in 1..n : \/ AsTexts(SortKey(b), SortKey(a)) < 0
                                          \/ AsTexts(SortKey(b), SortKey(a)) = 0 /\ b < a}])
  <2>1. \A a, b \in 1..n : Directed(CompareNumbersFirst(keys[b], keys[a], {}))
                               = AsTexts(SortKey(b), SortKey(a))
    BY <1>2 DEF CompareNumbersFirst, AsTexts
  <2>2. order = Order({})
    BY <2>1
  <2>3. Arranged(AsTexts) = [p \in 1..n |-> buffer[order[p]]]
    BY DEF Arranged, StableOrder
  <2> QED BY <2>2, <2>3
<1> HIDE DEF Order
<1>8. Order(NumCell) \in [1..n -> 1..n]
  BY <1>4 DEF Bijection, Injection
<1>9. \A p, q \in 1..n : p < q =>
            LET c == CompareNumbersFirst(SortKey(Order(NumCell)[p]), SortKey(Order(NumCell)[q]), NumCell)
            IN IF query.asc THEN c <= 0 ELSE c >= 0
  BY <1>2, <1>4, <1>8
<1> QED BY <1>4, <1>5, <1>6, <1>7, <1>9

\* Drained, the buffer holds all rows.
LEMMA DrainedBuffer ==
    ASSUME Shape, GroupedSoFar, Filtered, Buffered, phase = "sort", Drained
    PROVE  /\ buffer = From /\ Len(From) \in Nat /\ DOMAIN From = 1..Len(From)
           /\ From = [p \in 1..Len(From) |-> From[p]]
           /\ \A p \in 1..Len(From) :
                 SortKey(p) \in Cell /\ (QuietInput => SortKey(p) \notin RangeCell)
<1>1. /\ Len(From) \in Nat /\ DOMAIN From = 1..Len(From) /\ \A p \in DOMAIN From : OutRow(From[p])
      /\ Aggregates => GroupedOver(groups, Chosen)
  BY FromRows, AllGrouped
<1>4. From = [p \in 1..Len(From) |-> From[p]]
  <2>1. From \in Seq({row \in {From[p] : p \in DOMAIN From} : OutRow(row)})
    BY FromRows
  <2> QED BY <1>1, <2>1
<1>2. buffer = From
  <2>1. CASE Aggregates
    <3>1. cursor = Len(results) /\ buffer = [p \in 1..cursor |-> results[p]] /\ From = results
      BY <2>1 DEF Buffered, Drained, From
    <3> QED BY <1>4, <3>1
  <2>2. CASE ~Aggregates
    <3>1. read = Len(Input)
      <4>1. Len(Input) \in Nat /\ read \in 0..Len(Input) /\ ~(read < Len(Input))
        BY <2>2, PulledShape DEF Drained, More, Shape
      <4> QED BY <4>1
    <3>2. Pulled = Chosen
      BY <3>1, PulledShape
    <3> QED BY <2>2, <3>2 DEF Buffered, From, Passing
  <2> QED BY <2>1, <2>2
<1>3. ASSUME NEW p \in 1..Len(From)
      PROVE  SortKey(p) \in Cell /\ (QuietInput => SortKey(p) \notin RangeCell)
  <2>1. OutRow(buffer[p]) /\ query.orderBy \in DOMAIN buffer[p] /\ query \in Queries
    BY <1>1, <1>2 DEF Buffered, Shape
  <2> QED BY <1>1, <2>1, OutRowCells DEF SortKey
<1> QED BY <1>1, <1>2, <1>3, <1>4

\* The sort keeps every row and, with errno clear and no key out of range, orders them.
LEMMA SortSorts ==
    ASSUME query.asc \in BOOLEAN, Sort, NEW n \in Nat, DOMAIN buffer = 1..n, Len(buffer) = n,
           buffer = [p \in 1..n |-> buffer[p]], \A p \in 1..n : SortKey(p) \in Cell,
           NEW quiet, quiet => ~overflow /\ \A p \in 1..n : SortKey(p) \notin RangeCell
    PROVE  \E place \in Bijection(1..n, 1..n) :
              /\ buffer' = [p \in 1..n |-> buffer[place[p]]]
              /\ quiet => \A p, q \in 1..n : p < q =>
                    LET c == CompareNumbersFirst(SortKey(place[p]), SortKey(place[q]), NumCell)
                    IN IF query.asc THEN c <= 0 ELSE c >= 0
<1>1. CASE ~(n > 1) /\ buffer' = buffer
  <2> DEFINE place == [p \in 1..n |-> p]
  <2>1. place \in Bijection(1..n, 1..n)
    BY DEF Bijection, Injection, Surjection, IsInjective
  <2>2. \A p \in 1..n : place[p] = p
    OBVIOUS
  <2> HIDE DEF place
  <2>4. [p \in 1..n |-> buffer[place[p]]] = [p \in 1..n |-> buffer[p]]
    BY <2>2
  <2>5. \A p, q \in 1..n : ~(p < q)
    BY <1>1
  <2> QED BY <1>1, <2>1, <2>4, <2>5
<1>2. CASE n > 1 /\ overflow /\ buffer' = Arranged(AsTexts)
  <2>1. ~quiet
    BY <1>2
  <2> QED BY <1>2, <2>1, ArrangedRows
<1>3. CASE buffer' = Arranged(NumbersFirst)
  BY <1>3, ArrangedRows
<1>4. CASE /\ \E p \in DOMAIN buffer : SortKey(p) \in RangeCell
           /\ \E place \in Bijection(DOMAIN buffer, DOMAIN buffer) :
                 buffer' = [p \in DOMAIN buffer |-> buffer[place[p]]]
  <2>1. ~quiet
    BY <1>4
  <2> QED BY <1>4, <2>1
<1> QED BY <1>1, <1>2, <1>3, <1>4 DEF Sort

\* The sort turns what it drained into its order, and the limit starts over it.
LEMMA SortEndIInv ==
    ASSUME IInv, SortEnd
    PROVE  IInv'
<1>1. /\ Shape /\ GroupedSoFar /\ Filtered /\ Buffered /\ Quiet /\ query \in Queries
      /\ phase = "sort" /\ Sorts /\ answer = <<>> /\ query' = query /\ groups' = groups
      /\ results' = results /\ answer' = answer /\ read' = read /\ cursor' = 0 /\ phase' = "emit"
      /\ Drained /\ Sort
  BY DEF IInv, Shape, SortEnd
<1>2. /\ Input' = Input /\ Aggregates' = Aggregates /\ Sorts' = Sorts /\ Streams' = Streams
      /\ HasHaving' = HasHaving /\ Passing' = Passing
      /\ GroupRows' = GroupRows /\ Kept' = Kept
  BY <1>1, SameStatement, SameGroups
<1>3. Shape'
  BY <1>1, <1>2 DEF Shape
<1>4. GroupedSoFar'
  BY <1>1, LaterGroups
<1>5. Filtered'
  BY <1>1, <1>2 DEF Filtered
<1>6. Quiet' /\ FailureHasACause'
  BY <1>1, SameCause DEF Quiet
<1> DEFINE n == Len(From)
<1>7. /\ buffer = From /\ n \in Nat /\ DOMAIN From = 1..n
      /\ buffer = [p \in 1..n |-> buffer[p]]
      /\ \A p \in 1..n : SortKey(p) \in Cell /\ (QuietInput => SortKey(p) \notin RangeCell)
  BY <1>1, DrainedBuffer
<1> DEFINE Ordered(place) == \A p, q \in 1..n : p < q =>
                    LET c == CompareNumbersFirst(SortKey(place[p]), SortKey(place[q]), NumCell)
                    IN IF query.asc THEN c <= 0 ELSE c >= 0
<1>8. PICK place \in Bijection(1..n, 1..n) :
              /\ buffer' = [p \in 1..n |-> buffer[place[p]]]
              /\ NothingOverflows => Ordered(place)
  <2>1. query.asc \in BOOLEAN
    BY <1>1, QueryShape DEF WellTyped
  <2>2. PICK quiet : quiet <=> NothingOverflows
    OBVIOUS
  <2>3. quiet => ~overflow /\ \A p \in 1..n : SortKey(p) \notin RangeCell
    <3>1. NothingOverflows => QuietInput
      BY DEF NothingOverflows, QuietInput
    <3> QED BY <1>1, <1>7, <2>2, <3>1 DEF Quiet
  <2>4. /\ DOMAIN buffer = 1..n /\ Len(buffer) = n /\ buffer = [p \in 1..n |-> buffer[p]]
        /\ \A p \in 1..n : SortKey(p) \in Cell
    BY <1>7
  <2> HIDE DEF n
  <2>5. n \in Nat
    BY <1>7
  <2>6. \E place \in Bijection(1..n, 1..n) :
              /\ buffer' = [p \in 1..n |-> buffer[place[p]]]
              /\ quiet => \A p, q \in 1..n : p < q =>
                    LET c == CompareNumbersFirst(SortKey(place[p]), SortKey(place[q]), NumCell)
                    IN IF query.asc THEN c <= 0 ELSE c >= 0
    BY <1>1, <2>1, <2>3, <2>4, <2>5, SortSorts
  <2> QED BY <2>2, <2>6
<1>9. place \in [1..n -> 1..n]
  BY <1>8 DEF Bijection, Injection
<1>10. From' = From
  BY <1>1, <1>2 DEF From
<1>11. AnswerOrdered'
  <2>1. buffer' = [p \in DOMAIN From |-> From[place[p]]] /\ place \in Bijection(DOMAIN From, DOMAIN From)
    BY <1>7, <1>8
  <2>2. ASSUME NothingOverflows, NEW p \in DOMAIN buffer', NEW q \in DOMAIN buffer', p < q
        PROVE  LET sign == CompareNumbersFirst(buffer'[p][query.orderBy], buffer'[q][query.orderBy], NumCell)
               IN IF query.asc THEN sign <= 0 ELSE sign >= 0
    <3>1. p \in 1..n /\ q \in 1..n /\ buffer'[p] = buffer[place[p]] /\ buffer'[q] = buffer[place[q]]
      BY <1>8
    <3>2. SortKey(place[p]) = buffer'[p][query.orderBy] /\ SortKey(place[q]) = buffer'[q][query.orderBy]
      BY <3>1 DEF SortKey
    <3> HIDE DEF n
    <3>3. LET c == CompareNumbersFirst(SortKey(place[p]), SortKey(place[q]), NumCell)
          IN IF query.asc THEN c <= 0 ELSE c >= 0
      BY <1>8, <2>2, <3>1
    <3> QED BY <3>2, <3>3
  <2>3. NothingOverflows' <=> NothingOverflows
    BY <1>1, SameOverflows
  <2>4. (IF Aggregates THEN results ELSE Passing)' = From
    BY <1>10 DEF From
  <2> HIDE DEF n, Ordered
  <2> QED BY <1>1, <2>1, <2>2, <2>3, <2>4 DEF AnswerOrdered, SortKey
<1>12. Buffered'
  BY <1>1, <1>11 DEF Buffered
<1>13. Emitted'
  <2>1. Source' = buffer' /\ ~Streams'
    BY <1>1, <1>2 DEF Source, Streams, Below
  <2>2. Len(Source') \in Nat
    <3>1. Shape' /\ GroupedSoFar' /\ Filtered' /\ Buffered' /\ phase' = "emit"
      BY <1>1, <1>3, <1>4, <1>5, <1>12
    <3>2. buffer' \in [1..n -> {From[q] : q \in 1..n}]
      BY <1>7, <1>8, <1>9
    <3> DEFINE T == {From[q] : q \in 1..n}
    <3> HIDE DEF T
    <3>3. buffer' \in [1..n -> T] /\ n \in Nat
      BY <1>7, <3>2 DEF T
    <3> HIDE DEF n
    <3>4. Len(buffer') = n
      BY <3>3
    <3> QED BY <2>1, <3>3, <3>4
  <2> QED BY <1>1, <2>1, <2>2, EmittedStart
<1> QED BY <1>3, <1>4, <1>5, <1>6, <1>12, <1>13 DEF IInv

\* The operators above the limit do not change what is below them.
LEMMA SameSource ==
    ASSUME query' = query, results' = results, buffer' = buffer
    PROVE  Source' = Source /\ Rows' = Rows /\ Below' = Below
<1>1. Source' = Source /\ Below' = Below
  BY SameStatement DEF Source, Below
<1>2. Rows' = Rows
  BY <1>1 DEF Rows, Projected, Columns
<1> QED BY <1>1, <1>2

\* A row more through the projection and distinct.
LEMMA DeliverRow ==
    ASSUME cursor \in Nat, Len(Source) \in Nat, cursor + 1 <= Len(Source), Rows' = Rows,
           query' = query, cursor' = cursor + 1,
           answer = Picked(Rows, Delivered), \A k \in 1..cursor : Rows[k] \in ToSet(answer),
           NEW row, row = Source[cursor + 1], Deliver(row), phase' # "failed"
    PROVE  /\ answer' = Picked(Rows, Delivered')
           /\ \A k \in 1..cursor' : Rows[k] \in ToSet(answer')
           /\ phase' = phase
<1> DEFINE last == cursor + 1
           fresh == query.distinct => \A m \in 1..cursor : Rows[m] # Rows[last]
<1>1. Rows[last] = Projected(row)
  <2>1. last \in 1..Len(Source)
    OBVIOUS
  <2> QED BY <2>1 DEF Rows
<1>2. /\ phase' = phase
      /\ answer' = IF query.distinct /\ Rows[last] \in ToSet(answer) THEN answer
                   ELSE Append(answer, Rows[last])
  <2>1. CASE ~(Columns(row) \subseteq DOMAIN row)
    BY <2>1 DEF Deliver
  <2>2. CASE Columns(row) \subseteq DOMAIN row
    BY <1>1, <2>2 DEF Deliver
  <2> QED BY <2>1, <2>2
<1>3. Delivered \in SUBSET (1..cursor)
  BY DEF Delivered
<1>4. /\ DOMAIN answer = 1..Cardinality(Delivered) /\ Len(answer) = Cardinality(Delivered)
      /\ answer \in Seq({Rows[k] : k \in Delivered})
      /\ Cardinality(Delivered) \in Nat
  BY <1>3, PickedElements, Positions
<1>5. ToSet(answer) \subseteq {Rows[k] : k \in 1..cursor}
  BY <1>3, <1>4 DEF ToSet
<1>6. query.distinct /\ Rows[last] \in ToSet(answer) <=> ~fresh
  BY <1>5
<1>7. Delivered' = IF fresh THEN Delivered \cup {last} ELSE Delivered
  <2>1. 1..cursor' = 1..cursor \cup {last} /\ last \notin 1..cursor
    OBVIOUS
  <2>2. Delivered' = {k \in 1..cursor' : query.distinct => \A m \in 1..(k - 1) : Rows[m] # Rows[k]}
    BY DEF Delivered
  <2>3. last - 1 = cursor
    OBVIOUS
  <2>4. \A k \in 1..cursor' : k \in Delivered' <=> IF k = last THEN fresh ELSE k \in Delivered
    BY <2>1, <2>2, <2>3 DEF Delivered
  <2>5. Delivered' \subseteq 1..cursor' /\ Delivered \subseteq 1..cursor
    BY <2>2, <1>3
  <2> HIDE DEF fresh, last
  <2> QED BY <2>1, <2>4, <2>5
<1> HIDE DEF fresh
<1>8. CASE fresh
  <2>1. answer' = Append(answer, Rows[last]) /\ Delivered' = Delivered \cup {last}
    BY <1>2, <1>6, <1>7, <1>8
  <2>2. Picked(Rows, Delivered \cup {cursor + 1}) = Append(Picked(Rows, Delivered), Rows[cursor + 1])
    BY <1>3, PickedNext
  <2>3. \A k \in 1..cursor' : k \in 1..cursor \/ k = last
    OBVIOUS
  <2> HIDE DEF last
  <2>4. \A x : x \in ToSet(answer) \/ x = Rows[last] => x \in ToSet(Append(answer, Rows[last]))
    <3> DEFINE n == Cardinality(Delivered)
               T == {Rows[k] : k \in Delivered} \cup {Rows[last]}
               e == Rows[last]
               longer == Append(answer, e)
    <3>1. answer \in Seq(T) /\ e \in T /\ Len(answer) = n /\ n \in Nat /\ DOMAIN answer = 1..n
      BY <1>4
    <3> HIDE DEF n, T, e
    <3>2. /\ DOMAIN longer = 1..n + 1 /\ longer[n + 1] = e
          /\ \A i \in 1..n : i \in DOMAIN longer /\ longer[i] = answer[i]
          /\ n + 1 \in DOMAIN longer
      BY <3>1
    <3> HIDE DEF longer
    <3>3. \A x : x \in ToSet(answer) \/ x = e => x \in ToSet(longer)
      BY <3>1, <3>2 DEF ToSet
    <3> QED BY <3>3 DEF longer, e
  <2> QED BY <1>2, <2>1, <2>2, <2>3, <2>4 DEF last
<1>9. CASE ~fresh
  <2>1. answer' = answer /\ Delivered' = Delivered /\ Rows[last] \in ToSet(answer)
    BY <1>2, <1>6, <1>7, <1>9
  <2>2. \A k \in 1..cursor' : k \in 1..cursor \/ k = last
    OBVIOUS
  <2> QED BY <1>2, <2>1, <2>2
<1> QED BY <1>8, <1>9

\* The scan under a limit: its next row that passes is the next to be handed on.
LEMMA StreamNext ==
    ASSUME query \in Queries, Shape, read + 1 \in Chosen
    PROVE  /\ Cardinality(Pulled) + 1 <= Cardinality(Chosen)
           /\ Passing[Cardinality(Pulled) + 1] = Input[read + 1]
           /\ Cardinality(Pulled \cup {read + 1}) = Cardinality(Pulled) + 1
<1>1. Chosen \in SUBSET (1..Len(Input)) /\ Len(Input) \in Nat /\ read \in Nat
      /\ Pulled \in SUBSET (1..read) /\ Cardinality(Pulled) \in Nat
  BY ChosenShape, PulledShape
<1>2. {m \in Chosen : m < read + 1} = Pulled
  <2>1. \A m \in Chosen : m \in Nat /\ (m < read + 1 <=> m <= read)
    BY <1>1
  <2> QED BY <2>1 DEF Pulled
<1>3. PICK k : k = read + 1
  OBVIOUS
<1>6. /\ Cardinality({m \in Chosen : m < k}) + 1 \in 1..Cardinality(Chosen)
      /\ Picked(Input, Chosen)[Cardinality({m \in Chosen : m < k}) + 1] = Input[k]
  <2>1. k \in Chosen
    BY <1>3
  <2>2. \A m \in Chosen : LET p == Cardinality({l \in Chosen : l < m}) + 1
                         IN p \in 1..Cardinality(Chosen) /\ Picked(Input, Chosen)[p] = Input[m]
    BY <1>1, PickedElements
  <2> QED BY <2>1, <2>2, Zenon
<1>7. {m \in Chosen : m < k} = Pulled
  BY <1>2, <1>3
<1>8. /\ Cardinality(Pulled) + 1 \in 1..Cardinality(Chosen)
      /\ Passing[Cardinality(Pulled) + 1] = Input[read + 1]
  BY <1>3, <1>6, <1>7 DEF Passing
<1>4. Cardinality(Pulled \cup {read + 1}) = Cardinality(Pulled) + 1
  BY <1>1, PickedNext
<1>5. Cardinality(Chosen) \in Nat
  BY ChosenShape
<1> QED BY <1>4, <1>5, <1>8

\* A row goes through limit, projection and distinct, or is skipped by WHERE.
LEMMA EmitRowIInv ==
    ASSUME IInv, EmitRow
    PROVE  IInv'
<1>1. /\ Shape /\ GroupedSoFar /\ Filtered /\ Buffered /\ Emitted /\ query \in Queries
      /\ phase = "emit" /\ ~LimitReached /\ query' = query /\ groups' = groups
      /\ results' = results /\ buffer' = buffer
  BY DEF IInv, Shape, EmitRow
<1>2. /\ Input' = Input /\ Aggregates' = Aggregates /\ Sorts' = Sorts /\ Streams' = Streams
      /\ HasHaving' = HasHaving /\ Passing' = Passing
      /\ GroupRows' = GroupRows /\ Kept' = Kept
      /\ Source' = Source /\ Rows' = Rows /\ Below' = Below
  BY <1>1, SameStatement, SameGroups, SameSource
<1>3. /\ Len(Source) \in Nat /\ DOMAIN Source = 1..Len(Source) /\ cursor \in Nat
      /\ \A p \in DOMAIN Source : OutRow(Source[p])
      /\ Streams => Len(Source) = Cardinality(Chosen)
      /\ Aggregates => GroupedOver(groups, Chosen)
  BY <1>1, SourceRows, AllGrouped DEF Shape
<1>4. /\ cursor <= Len(Source) /\ (query.limit # -1 => cursor <= query.limit)
      /\ (Streams => cursor = Cardinality(Pulled)) /\ answer = Picked(Rows, Delivered)
      /\ \A k \in 1..cursor : Rows[k] \in ToSet(answer)
  BY <1>1 DEF Emitted
<1>5. query.limit # -1 => query.limit \in Nat /\ cursor + 1 <= query.limit
  <2>1. query.limit \in Nat \cup {-1}
    BY <1>1, QueryShape DEF WellTyped
  <2> QED BY <1>1, <1>3, <2>1 DEF LimitReached
\* What every row handed on does.
<1>6. ASSUME NEW row, cursor + 1 <= Len(Source), row = Source[cursor + 1], Deliver(row),
             cursor' = cursor + 1
      PROVE  /\ phase' \in {"emit", "failed"}
             /\ phase' = "failed" => Cause
             /\ phase' = "emit" => /\ answer' = Picked(Rows', Delivered')
                                   /\ \A k \in 1..cursor' : Rows'[k] \in ToSet(answer')
  <2>1. OutRow(row)
    BY <1>3, <1>6
  <2>2. phase' \in {"emit", "failed"}
    BY <1>1, <1>6 DEF Deliver
  <2>3. ASSUME phase' = "failed" PROVE Cause
    <3>1. ~(Columns(row) \subseteq DOMAIN row)
      BY <1>1, <1>6, <2>3 DEF Deliver
    <3>2. query.select # <<Star>> /\ Columns(row) = ToSet(query.select)
      BY <3>1 DEF Columns
    <3>3. PICK name \in ToSet(query.select) : name \notin DOMAIN row
      BY <3>1, <3>2
    <3>4. name \in NamesOf(query) \ {Absent, Star}
      BY <1>1, <3>2, <3>3, NamesAsked
    <3> QED BY <1>1, <1>3, <2>1, <3>3, <3>4, OutRowCause
  <2>4. ASSUME phase' = "emit"
        PROVE  answer' = Picked(Rows, Delivered') /\ \A k \in 1..cursor' : Rows[k] \in ToSet(answer')
    <3>1. phase' # "failed"
      BY <2>4
    <3> QED BY <1>1, <1>2, <1>3, <1>4, <1>6, <3>1, DeliverRow
  <2> QED BY <1>2, <2>2, <2>3, <2>4
<1>7. Filtered'
  <2>1. results' = results /\ GroupRows' = GroupRows /\ Kept' = Kept /\ query' = query
        /\ Aggregates' = Aggregates /\ HasHaving' = HasHaving
    BY <1>1, <1>2
  <2> QED BY <1>1, <2>1 DEF Filtered
<1>8. AnswerOrdered
  BY <1>1 DEF Buffered
<1>9. ASSUME phase' \in {"emit", "failed"} PROVE Buffered' /\ Quiet'
  <2>1. NothingOverflows' <=> NothingOverflows
    BY <1>1, SameOverflows
  <2>2. AnswerOrdered'
    BY <1>1, <1>2, <1>8, <1>9, <2>1 DEF AnswerOrdered, SortKey
  <2> QED BY <1>9, <2>2 DEF Buffered, Quiet
<1>10. CASE ~Streams
  <2>1. /\ cursor < Len(Below) /\ cursor' = cursor + 1 /\ Deliver(Below[cursor + 1])
        /\ read' = read /\ Source = Below
    BY <1>10 DEF EmitRow, Source
  <2>2. cursor + 1 <= Len(Source) /\ Below[cursor + 1] = Source[cursor + 1]
    BY <1>3, <2>1
  <2>3. /\ phase' \in {"emit", "failed"} /\ (phase' = "failed" => Cause)
        /\ phase' = "emit" => /\ answer' = Picked(Rows', Delivered')
                              /\ \A k \in 1..cursor' : Rows'[k] \in ToSet(answer')
    BY <1>6, <2>1, <2>2
  <2>4. Shape'
    BY <1>1, <1>2, <2>1, <2>3 DEF Shape
  <2>5. GroupedSoFar'
    BY <1>1, <2>1, LaterGroups
  <2>6. Emitted'
    <3>1. cursor' <= Len(Source') /\ (query'.limit # -1 => cursor' <= query'.limit)
      BY <1>1, <1>2, <1>5, <2>1, <2>2
    <3> QED BY <1>2, <1>10, <2>3, <3>1 DEF Emitted
  <2>7. FailureHasACause'
    BY <1>1, <2>3, SameCause
  <2> QED BY <1>7, <1>9, <2>3, <2>4, <2>5, <2>6, <2>7 DEF IInv
<1>11. CASE Streams
  <2> DEFINE k == read + 1
  <2>1. /\ Pull /\ ~Aggregates /\ Source = Passing
        /\ IF Passes(NextRow) THEN cursor' = cursor + 1 /\ Deliver(NextRow)
           ELSE cursor' = cursor /\ answer' = answer /\ phase' = phase
    BY <1>11 DEF EmitRow, Source, Streams
  <2>2. /\ read' \in 0..Len(Input) /\ NextRow = Input[k] /\ k \in DOMAIN Input
        /\ Passes(NextRow) => k \in Chosen /\ Pulled' = Pulled \cup {k}
        /\ ~Passes(NextRow) => Pulled' = Pulled
    BY <1>1, <2>1, PullNext
  <2>3. GroupedSoFar'
    BY <1>2, <2>1 DEF GroupedSoFar
  <2>4. CASE Passes(NextRow)
    <3>1. /\ Cardinality(Pulled) + 1 <= Cardinality(Chosen)
          /\ Passing[Cardinality(Pulled) + 1] = Input[read + 1]
          /\ Cardinality(Pulled \cup {read + 1}) = Cardinality(Pulled) + 1
      BY <1>1, <2>2, <2>4, StreamNext
    <3>2. cursor + 1 <= Len(Source) /\ NextRow = Source[cursor + 1]
      BY <1>3, <1>4, <1>11, <2>1, <2>2, <3>1
    <3>3. /\ phase' \in {"emit", "failed"} /\ (phase' = "failed" => Cause)
          /\ phase' = "emit" => /\ answer' = Picked(Rows', Delivered')
                                /\ \A m \in 1..cursor' : Rows'[m] \in ToSet(answer')
      BY <1>6, <2>1, <2>4, <3>2
    <3>4. Shape'
      BY <1>1, <1>2, <1>3, <2>1, <2>2, <2>4, <3>3 DEF Shape
    <3>5. Emitted'
      <4>1. cursor' <= Len(Source') /\ (query'.limit # -1 => cursor' <= query'.limit)
        BY <1>1, <1>2, <1>5, <2>1, <2>4, <3>2
      <4>2. cursor' = Cardinality(Pulled')
        BY <1>4, <1>11, <2>1, <2>2, <2>4, <3>1
      <4> QED BY <3>3, <4>1, <4>2 DEF Emitted
    <3>6. FailureHasACause'
      BY <1>1, <3>3, SameCause
    <3> QED BY <1>7, <1>9, <2>3, <3>3, <3>4, <3>5, <3>6 DEF IInv
  <2>5. CASE ~Passes(NextRow)
    <3>1. cursor' = cursor /\ answer' = answer /\ phase' = "emit" /\ Pulled' = Pulled
      BY <1>1, <2>1, <2>2, <2>5
    <3>2. Shape'
      BY <1>1, <1>2, <1>3, <2>1, <2>2, <3>1 DEF Shape
    <3>3. Delivered' = Delivered
      BY <1>1, <1>2, <3>1 DEF Delivered
    <3>4. Emitted'
      BY <1>1, <1>2, <1>4, <3>1, <3>3 DEF Emitted
    <3>5. FailureHasACause'
      BY <1>1, <3>1, SameCause
    <3> QED BY <1>7, <1>9, <2>3, <3>1, <3>2, <3>4, <3>5 DEF IInv
  <2> QED BY <2>4, <2>5
<1> QED BY <1>10, <1>11

\* The statement ends where the limit or its input does.
LEMMA CloseIInv ==
    ASSUME IInv, Close
    PROVE  IInv'
<1>1. /\ Shape /\ GroupedSoFar /\ Filtered /\ Buffered /\ Emitted
      /\ phase = "emit" /\ (LimitReached \/ Exhausted) /\ phase' = "done"
      /\ query' = query /\ read' = read /\ groups' = groups /\ results' = results
      /\ buffer' = buffer /\ cursor' = cursor /\ answer' = answer
  BY DEF IInv, Close
<1>2. /\ Input' = Input /\ Aggregates' = Aggregates /\ Sorts' = Sorts /\ Streams' = Streams
      /\ HasHaving' = HasHaving /\ Passing' = Passing
      /\ GroupRows' = GroupRows /\ Kept' = Kept
      /\ Source' = Source /\ Rows' = Rows /\ Below' = Below
  BY <1>1, SameStatement, SameGroups, SameSource
<1>3. Shape'
  BY <1>1, <1>2 DEF Shape
<1>4. GroupedSoFar' /\ Pulled' = Pulled
  BY <1>1, LaterGroups
<1>5. Filtered'
  BY <1>1, <1>2 DEF Filtered
<1>6. Buffered'
  <2>1. NothingOverflows' <=> NothingOverflows
    BY <1>1, SameOverflows
  <2>2. AnswerOrdered
    BY <1>1 DEF Buffered
  <2>3. AnswerOrdered'
    BY <1>1, <1>2, <2>1, <2>2 DEF AnswerOrdered, SortKey
  <2> QED BY <1>1, <2>3 DEF Buffered
<1>7. Quiet' /\ FailureHasACause'
  BY <1>1, SameCause DEF Quiet
<1>8. Emitted'
  <2>1. Delivered' = Delivered
    BY <1>1, <1>2 DEF Delivered
  <2>2. LimitReached' <=> LimitReached
    BY <1>1 DEF LimitReached
  <2>3. Exhausted' <=> Exhausted
    BY <1>1, <1>2 DEF Exhausted, More
  <2> QED BY <1>1, <1>2, <1>4, <2>1, <2>2, <2>3 DEF Emitted
<1> QED BY <1>3, <1>4, <1>5, <1>6, <1>7, <1>8 DEF IInv

\* A step of nothing keeps the invariant.
LEMMA StutterIInv ==
    ASSUME IInv, UNCHANGED vars
    PROVE  IInv'
<1>1. /\ query' = query /\ phase' = phase /\ read' = read /\ groups' = groups
      /\ results' = results /\ buffer' = buffer /\ cursor' = cursor /\ answer' = answer
      /\ overflow' = overflow
      /\ Shape /\ GroupedSoFar /\ Filtered /\ Buffered /\ Quiet /\ Emitted /\ FailureHasACause
  BY DEF vars, IInv
<1>2. /\ Input' = Input /\ Aggregates' = Aggregates /\ Sorts' = Sorts /\ Streams' = Streams
      /\ HasHaving' = HasHaving /\ Passing' = Passing /\ QuietInput' = QuietInput
      /\ GroupRows' = GroupRows /\ Kept' = Kept
      /\ Source' = Source /\ Rows' = Rows /\ Below' = Below
  BY <1>1, SameStatement, SameGroups, SameSource
<1>3. NothingOverflows' <=> NothingOverflows
  BY <1>1, SameOverflows
<1>4. Pulled' = Pulled /\ GroupedSoFar'
  <2>1. Pulled' = Pulled
    BY <1>1, LaterGroups
  <2>2. phase = "failed" => GroupedSoFar'
    BY <1>1 DEF GroupedSoFar
  <2> QED BY <1>1, <2>1, <2>2, LaterGroups
<1>5. Shape'
  BY <1>1, <1>2 DEF Shape
<1>6. Filtered'
  BY <1>1, <1>2 DEF Filtered
<1>7. Buffered'
  <2>1. AnswerOrdered
    BY <1>1 DEF Buffered
  <2>2. AnswerOrdered'
    BY <1>1, <1>2, <1>3, <2>1 DEF AnswerOrdered, SortKey
  <2> QED BY <1>1, <1>2, <1>4, <2>2 DEF Buffered
<1>8. Quiet'
  BY <1>1, <1>2, <1>3 DEF Quiet
<1>9. Emitted'
  <2>1. Delivered' = Delivered
    BY <1>1, <1>2 DEF Delivered
  <2>2. LimitReached' <=> LimitReached
    BY <1>1 DEF LimitReached
  <2>3. Exhausted' <=> Exhausted
    BY <1>1, <1>2 DEF Exhausted, More
  <2> QED BY <1>1, <1>2, <1>4, <2>1, <2>2, <2>3 DEF Emitted
<1>10. FailureHasACause'
  BY <1>1, SameCause, CauseIsTheCause
<1> QED BY <1>4, <1>5, <1>6, <1>7, <1>8, <1>9, <1>10 DEF IInv

\* IInv is an invariant of every statement.
THEOREM Invariance == Spec => []IInv
<1>1. Init => IInv
  BY InitIInv
<1>2. IInv /\ [Next]_vars => IInv'
  BY AggregateRowIInv, AggregateEndIInv, SortRowIInv, SortEndIInv, EmitRowIInv, CloseIInv,
     StutterIInv DEF Next
<1> QED BY <1>1, <1>2, PTL DEF Spec

----------------------------------------------------------------------------
(* What a SELECT delivers *)

\* A SELECT fails only for a text that SUM or AVG cannot add up or a name the
\* rows do not have: createPlan and open() give no other reason.
THEOREM FailuresHaveACause == Spec => []FailureHasACause
<1>1. IInv => FailureHasACause
  BY DEF IInv
<1> QED BY <1>1, Invariance, PTL

\* SortExecutor loses and invents no row and, with errno clear, orders them.
THEOREM AnswersAreOrdered == Spec => []AnswerOrdered
<1>1. IInv => AnswerOrdered
  BY DEF IInv, Buffered
<1> QED BY <1>1, Invariance, PTL

\* A SELECT that ends delivers the first rows up to LIMIT, without repetitions if
\* DISTINCT, and a limit stops the scan at its last row.
THEOREM AnswersAreComplete == Spec => []AnswerComplete
<1>1. IInv => AnswerComplete
  <2> SUFFICES ASSUME IInv, phase = "done" PROVE AnswerComplete
    BY DEF AnswerComplete
  <2>1. Shape /\ GroupedSoFar /\ Filtered /\ Buffered /\ Emitted /\ query \in Queries
    BY DEF IInv, Shape
  <2>2. /\ Len(Source) \in Nat /\ DOMAIN Source = 1..Len(Source)
        /\ Streams => Len(Source) = Cardinality(Chosen)
    BY <2>1, SourceRows
  <2>3. /\ cursor <= Len(Source) /\ (query.limit # -1 => cursor <= query.limit)
        /\ (Streams => cursor = Cardinality(Pulled)) /\ answer = Picked(Rows, Delivered)
        /\ LimitReached \/ Exhausted
    BY <2>1 DEF Emitted
  <2>4. cursor \in Nat /\ query.limit \in Nat \cup {-1} /\ read \in 0..Len(Input) /\ Len(Input) \in Nat
    BY <2>1, QueryShape DEF Shape, WellTyped
  <2> DEFINE some == IF query.limit = -1 \/ query.limit > Len(Source) THEN Len(Source) ELSE query.limit
             rows == [k \in 1..some |-> Projected(Source[k])]
             First(k) == \A m \in 1..(k - 1) : rows[m] # rows[k]
  <2>5. some = cursor
    <3>1. CASE LimitReached
      <4>1. query.limit # -1 /\ cursor >= query.limit /\ query.limit \in Nat
        BY <2>4, <3>1 DEF LimitReached
      <4>2. query.limit = cursor /\ ~(query.limit > Len(Source))
        BY <2>2, <2>3, <2>4, <4>1
      <4> QED BY <4>1, <4>2
    <3>2. CASE Exhausted
      <4>1. cursor = Len(Source)
        <5>1. CASE Streams
          <6>1. read = Len(Input)
            BY <2>4, <3>2, <5>1 DEF Exhausted, More
          <6>2. Pulled = Chosen
            BY <2>1, <6>1, PulledShape
          <6> QED BY <2>2, <2>3, <5>1, <6>2
        <5>2. CASE ~Streams
          BY <3>2, <5>2 DEF Exhausted, Source
        <5> QED BY <5>1, <5>2
      <4>2. query.limit = -1 \/ (query.limit \in Nat /\ cursor <= query.limit)
        BY <2>3, <2>4
      <4>3. query.limit = -1 \/ query.limit > Len(Source) \/ query.limit = Len(Source)
        BY <2>2, <2>4, <4>1, <4>2
      <4> QED BY <4>1, <4>3
    <3> QED BY <2>3, <3>1, <3>2
  <2>6. \A k \in 1..cursor : rows[k] = Rows[k]
    <3> SUFFICES ASSUME NEW k \in 1..cursor PROVE rows[k] = Rows[k]
      OBVIOUS
    <3> HIDE DEF some
    <3>1. k \in 1..some /\ k \in 1..Len(Source)
      BY <2>2, <2>3, <2>4, <2>5
    <3> QED BY <3>1 DEF Rows
  <2>7. {k \in 1..some : query.distinct => First(k)} = Delivered
    <3> HIDE DEF rows, some
    <3>1. ASSUME NEW k \in 1..cursor
          PROVE  First(k) <=> \A m \in 1..(k - 1) : Rows[m] # Rows[k]
      <4>1. \A m \in 1..(k - 1) : m \in 1..cursor
        BY <2>4
      <4> QED BY <2>6, <4>1
    <3> HIDE DEF First
    <3> QED BY <2>5, <3>1 DEF Delivered
  <2>8. answer = Picked(rows, {k \in 1..some : query.distinct => First(k)})
    <3> HIDE DEF rows, some
    <3>1. Delivered \in SUBSET (1..cursor)
      BY DEF Delivered
    <3>2. \A k \in Delivered : Rows[k] = rows[k]
      BY <2>6, <3>1
    <3>3. Picked(Rows, Delivered) = Picked(rows, Delivered)
      BY <2>4, <3>1, <3>2, PickedAlike
    <3> QED BY <2>3, <2>7, <3>3
  <2>9. Streams => Cardinality({k \in Chosen : k <= read}) = some
    BY <2>3, <2>5 DEF Pulled
  <2>10. Source = IF Streams THEN Passing ELSE Below
    BY DEF Source
  <2> QED BY <2>8, <2>9, <2>10 DEF AnswerComplete
<1> QED BY <1>1, Invariance, PTL

\* The row of a group has the key of the group.
LEMMA KeyOfGroupRow ==
    ASSUME query \in Queries, NEW row, NEW k \in DOMAIN Input, NEW S, IsGroupRow(row, Input[k], S)
    PROVE  Key(row) = Key(Input[k])
<1>1. ASSUME NEW name \in ToSet(query.groupBy)
      PROVE  row[name] = Input[k][name]
  <2>1. name \in DOMAIN Input[k] /\ IsColumn(name)
    BY RowShape
  <2>2. ~IsAggregate(name)
    BY <2>1 DEF IsColumn, IsAggregate
  <2> QED BY <2>1, <2>2 DEF IsGroupRow, Specs
<1>2. \A p \in DOMAIN query.groupBy : query.groupBy[p] \in ToSet(query.groupBy)
  BY DEF ToSet
<1> QED BY <1>1, <1>2 DEF Key

\* AggregationExecutor delivers one row for each group that HAVING keeps, with
\* the aggregates of exactly the rows of the group.
THEOREM GroupsAreAlwaysExact == Spec => []GroupsAreExact
<1>1. IInv => GroupsAreExact
  <2> SUFFICES ASSUME IInv, Aggregates, phase \in {"sort", "emit", "done"} PROVE GroupsAreExact
    BY DEF GroupsAreExact
  <2>1. Shape /\ GroupedSoFar /\ Filtered /\ query \in Queries /\ GroupedOver(groups, Chosen)
    BY AllGrouped DEF IInv, Shape
  <2>2. results = Picked(GroupRows, Kept)
    BY <2>1 DEF Filtered
  <2> DEFINE keys == {Key(Input[k]) : k \in Chosen}
             Exact(row, members) == \A s \in Specs : row[s] \in AggregateOf(s, members)
             n == Len(AllGroups)
  <2>3. n \in Nat /\ DOMAIN GroupRows = 1..n /\ Len(GroupRows) = n
    BY <2>1, GroupRowsShape
  <2>4. Kept \in SUBSET (1..n)
    BY <2>3 DEF Kept
  <2>5. /\ DOMAIN results = 1..Cardinality(Kept) /\ Len(results) = Cardinality(Kept)
        /\ results = [p \in 1..Cardinality(Kept) |-> GroupRows[Ascending(Kept)[p]]]
        /\ \A p \in 1..Cardinality(Kept) : Ascending(Kept)[p] \in Kept
        /\ \A T : (\A k \in Kept : GroupRows[k] \in T) => results \in Seq(T)
    <3> HIDE DEF n
    <3> QED BY <2>2, <2>3, <2>4, PickedElements
  <2>6. /\ \A p, q \in 1..Cardinality(Kept) : Ascending(Kept)[p] = Ascending(Kept)[q] => p = q
        /\ Cardinality(Kept) \in Nat
    <3> HIDE DEF n
    <3>1. Kept \in SUBSET Int /\ IsFiniteSet(Kept) /\ Cardinality(Kept) \in Nat
      BY <2>3, <2>4, Positions
    <3>2. \A p, q \in 1..Cardinality(Kept) : p < q => Ascending(Kept)[p] < Ascending(Kept)[q]
      BY <3>1, AscendingLists
    <3>3. \A p \in 1..Cardinality(Kept) : Ascending(Kept)[p] \in Int
      BY <2>5, <3>1
    <3>4. ASSUME NEW p \in 1..Cardinality(Kept), NEW q \in 1..Cardinality(Kept), p # q
          PROVE  Ascending(Kept)[p] # Ascending(Kept)[q]
      <4>1. p < q \/ q < p
        BY <3>1, <3>4
      <4> QED BY <3>2, <3>3, <4>1
    <3> QED BY <3>1, <3>4
  <2> HIDE DEF n
  <2>7. CASE Chosen = {} /\ query.groupBy = <<>>
    <3>1. IsGroupRow(GroupRows[1], <<>>, {}) /\ n = 1
      BY <2>1, <2>3, <2>7, GroupRowsShape
    <3>2. Exact(GroupRows[1], {})
      BY <3>1 DEF IsGroupRow
    <3>3. results = <<>> \/ (Len(results) = 1 /\ results[1] = GroupRows[1])
      <4>1. Kept = {} \/ Kept = {1}
        <5>1. Kept \subseteq 1..1
          BY <2>4, <3>1
        <5>2. 1..1 = {1}
          OBVIOUS
        <5> QED BY <5>1, <5>2
      <4>2. CASE Kept = {}
        BY <2>2, <4>2, PickedNone
      <4>3. CASE Kept = {1}
        <5>1. Cardinality(Kept) = 1
          BY <4>3, FS_Singleton
        <5>2. 1 \in 1..1 /\ Ascending(Kept)[1] = 1
          BY <2>5, <4>3, <5>1
        <5> QED BY <2>5, <5>1, <5>2
      <4> QED BY <4>1, <4>2, <4>3
    <3> QED BY <2>7, <3>2, <3>3 DEF GroupsAreExact
  <2>8. CASE ~(Chosen = {} /\ query.groupBy = <<>>)
    <3> DEFINE KeyAt(g) == Key(groups[g].exemplar)
    <3>1. /\ \A g \in 1..n : /\ IsGroupRow(GroupRows[g], groups[g].exemplar, Members(KeyAt(g)))
                             /\ \E k \in Chosen : groups[g].exemplar = Input[k]
          /\ \A k \in Chosen : \E g \in 1..n : KeyAt(g) = Key(Input[k])
          /\ \A g, h \in 1..n : KeyAt(h) = KeyAt(g) => h = g
      BY <2>1, <2>3, <2>8, GroupRowsShape
    <3>2. ASSUME NEW g \in 1..n
          PROVE  /\ KeyAt(g) \in keys /\ Key(GroupRows[g]) = KeyAt(g)
                 /\ Exact(GroupRows[g], Members(KeyAt(g)))
      <4>1. PICK k \in Chosen : groups[g].exemplar = Input[k]
        BY <3>1
      <4>2. k \in DOMAIN Input
        BY DEF Chosen
      <4>3. IsGroupRow(GroupRows[g], Input[k], Members(KeyAt(g)))
        BY <3>1, <4>1
      <4>4. Key(GroupRows[g]) = Key(Input[k])
        BY <2>1, <4>2, <4>3, KeyOfGroupRow
      <4>5. Exact(GroupRows[g], Members(KeyAt(g)))
        BY <4>3 DEF IsGroupRow
      <4> QED BY <4>1, <4>4, <4>5
    <3> HIDE DEF KeyAt
    <3>3. ASSUME NEW p \in DOMAIN results
          PROVE  /\ Key(results[p]) \in keys
                 /\ Exact(results[p], Members(Key(results[p])))
                 /\ HavingHolds(results[p])
                 /\ \A q \in DOMAIN results : Key(results[q]) = Key(results[p]) => q = p
      <4> DEFINE g == Ascending(Kept)[p]
      <4>1. results[p] = GroupRows[g] /\ g \in Kept /\ g \in 1..n
        BY <2>4, <2>5
      <4>2. HavingHolds(results[p])
        BY <4>1 DEF Kept
      <4>3. ASSUME NEW q \in DOMAIN results, Key(results[q]) = Key(results[p])
            PROVE  q = p
        <5> DEFINE h == Ascending(Kept)[q]
        <5>1. results[q] = GroupRows[h] /\ h \in 1..n
          BY <2>4, <2>5
        <5>2. KeyAt(h) = KeyAt(g)
          BY <3>2, <4>1, <4>3, <5>1
        <5>3. h = g
          BY <3>1, <4>1, <5>1, <5>2
        <5> QED BY <2>5, <2>6, <5>3
      <4> HIDE DEF g
      <4> QED BY <3>2, <4>1, <4>2, <4>3
    <3>4. ~HasHaving => Len(results) = Cardinality(keys)
      <4> SUFFICES ASSUME ~HasHaving PROVE Len(results) = Cardinality(keys)
        OBVIOUS
      <4>1. Kept = 1..n
        BY <2>3 DEF Kept, HavingHolds
      <4>2. Cardinality(Kept) = n /\ IsFiniteSet(1..n) /\ Cardinality(1..n) = n
        BY <2>3, <4>1, FS_Interval
      <4> DEFINE f == [g \in 1..n |-> KeyAt(g)]
      <4>3. f \in Bijection(1..n, keys)
        <5>1. f \in [1..n -> keys]
          BY <3>2
        <5>2. \A key \in keys : \E g \in 1..n : f[g] = key
          BY <3>1
        <5>3. \A g, h \in 1..n : f[g] = f[h] => g = h
          BY <3>1
        <5> HIDE DEF f, keys
        <5> QED BY <5>1, <5>2, <5>3 DEF Bijection, Injection, Surjection, IsInjective
      <4>4. Cardinality(keys) = Cardinality(1..n)
        <5> HIDE DEF f, keys
        <5>1. ExistsBijection(1..n, keys)
          BY <4>3 DEF ExistsBijection
        <5> QED BY <4>2, <5>1, FS_Bijection
      <4> QED BY <2>5, <4>2, <4>4
    <3> HIDE DEF keys
    <3>5. GroupsAreExact
      BY <2>8, <3>3, <3>4 DEF GroupsAreExact, keys
    <3> QED BY <3>5
  <2> QED BY <2>7, <2>8
<1> QED BY <1>1, Invariance, PTL
=============================================================================
