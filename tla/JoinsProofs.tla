---------------------------- MODULE JoinsProofs ----------------------------
(***************************************************************************)
(* Theorems about Joins: the nested loop, hash and merge joins put out the *)
(* rows of the relational join as their loops pass them, end, repeat a row *)
(* only where runMergeJoin does, agree with one another over cells spelt   *)
(* alike, and implement RelationalJoin.                                    *)
(***************************************************************************)
EXTENDS Joins, Traces

----------------------------------------------------------------------------
(* Comparisons of cells *)

\* CompareNumbersFirst is a weak order on cells.
LEMMA NumbersFirstIsWeakOrder ==
    ASSUME NEW S \in SUBSET NumCell, NEW a \in Cell, NEW b \in Cell, NEW c \in Cell
    PROVE  LET Compare(x, y) == CompareNumbersFirst(x, y, S) IN
           /\ Compare(a, b) \in {-1, 0, 1}
           /\ Compare(a, a) = 0
           /\ Compare(a, b) < 0 <=> Compare(b, a) > 0
           /\ Compare(a, b) = 0 <=> Compare(b, a) = 0
           /\ Compare(a, b) <= 0 /\ Compare(b, c) <= 0 => Compare(a, c) <= 0
           /\ Compare(a, b) < 0 /\ Compare(b, c) <= 0 => Compare(a, c) < 0
           /\ Compare(a, b) <= 0 /\ Compare(b, c) < 0 => Compare(a, c) < 0
           /\ Compare(a, b) = 0 /\ Compare(b, c) = 0 => Compare(a, c) = 0
<1> DEFINE place == [x \in Cell |-> IF x \in S THEN Value[x] ELSE TextRank[x]]
           sign == [p \in Cell \X Cell |-> CompareNumbersFirst(p[1], p[2], S)]
<1>1. place \in [Cell -> Int]
  BY CellAssumption
<1>2. \A x, y \in Cell : sign[<<x, y>>] = CompareNumbersFirst(x, y, S)
  OBVIOUS
<1>3. ASSUME NEW x \in Cell, NEW y \in Cell
      PROVE  sign[<<x, y>>] = IF x \in S /\ y \notin S THEN -1
                             ELSE IF x \notin S /\ y \in S THEN 1
                             ELSE Sign(place[x], place[y])
  BY DEF CompareNumbersFirst, CompareText
<1> HIDE DEF place, sign
<1>4. /\ sign[<<a, b>>] \in {-1, 0, 1}
      /\ sign[<<a, a>>] = 0
      /\ sign[<<a, b>>] < 0 <=> sign[<<b, a>>] > 0
      /\ sign[<<a, b>>] = 0 <=> sign[<<b, a>>] = 0
      /\ sign[<<a, b>>] <= 0 /\ sign[<<b, c>>] <= 0 => sign[<<a, c>>] <= 0
      /\ sign[<<a, b>>] < 0 /\ sign[<<b, c>>] <= 0 => sign[<<a, c>>] < 0
      /\ sign[<<a, b>>] <= 0 /\ sign[<<b, c>>] < 0 => sign[<<a, c>>] < 0
      /\ sign[<<a, b>>] = 0 /\ sign[<<b, c>>] = 0 => sign[<<a, c>>] = 0
  <2>1. KindThenPlace(Cell, S, place, sign)
    BY <1>1, <1>3 DEF KindThenPlace
  <2> QED BY <2>1, TwoKindsAreOrdered
<1>5. /\ sign[<<a, a>>] = CompareNumbersFirst(a, a, S)
      /\ sign[<<a, b>>] = CompareNumbersFirst(a, b, S)
      /\ sign[<<b, a>>] = CompareNumbersFirst(b, a, S)
      /\ sign[<<b, c>>] = CompareNumbersFirst(b, c, S)
      /\ sign[<<a, c>>] = CompareNumbersFirst(a, c, S)
  BY <1>2
<1> QED BY <1>4, <1>5

\* The compiled comparison is symmetric in equality.
LEMMA CompiledEqualIsSymmetric ==
    ASSUME NEW a \in Cell, NEW b \in Cell
    PROVE  CompareCompiled(a, b) = 0 <=> CompareCompiled(b, a) = 0
<1>1. ASSUME NEW x \in Cell, NEW y \in Cell
      PROVE  CompareCompiled(x, y) = 0
               <=> IF x \in NumCell /\ y \in NumCell THEN Value[x] = Value[y]
                   ELSE TextRank[x] = TextRank[y]
  <2>1. x \in NumCell => Value[x] \in Int
    BY CellAssumption
  <2>2. y \in NumCell => Value[y] \in Int
    BY CellAssumption
  <2>3. TextRank[x] \in Int /\ TextRank[y] \in Int
    BY CellAssumption
  <2> QED BY <2>1, <2>2, <2>3, SignProperties DEF CompareCompiled, CompareText
<1> QED BY <1>1

\* Texts that one comparison takes for the same, the other does too; only
\* numbers that are not all integers can part them.
LEMMA LevelKeysAreEqual ==
    ASSUME NEW a \in Cell, NEW b \in Cell
    PROVE  /\ a = b => CompareNumbersFirst(a, b, IntCell) = 0
           /\ CompareNumbersFirst(a, b, IntCell) = 0 => CompareCompiled(a, b) = 0
<1>1. IntCell \in SUBSET NumCell
  BY CellAssumption
<1>2. CASE a \in IntCell /\ b \in IntCell
  BY <1>1, <1>2, CellAssumption DEF CompareNumbersFirst, CompareCompiled, Sign
<1>3. CASE a \notin IntCell /\ b \notin IntCell
  <2>1. CompareNumbersFirst(a, b, IntCell) = CompareText(a, b)
    BY <1>3 DEF CompareNumbersFirst
  <2>2. CompareText(a, b) = 0 => a = b
    BY CellAssumption, SignProperties DEF CompareText
  <2>3. CompareText(a, a) = 0 /\ CompareCompiled(a, a) = 0
    <3>1. TextRank[a] \in Int /\ (a \in NumCell => Value[a] \in Int)
      BY CellAssumption
    <3> QED BY <3>1, SignProperties DEF CompareText, CompareCompiled
  <2> QED BY <2>1, <2>2, <2>3
<1>4. CASE (a \in IntCell) # (b \in IntCell)
  BY <1>4 DEF CompareNumbersFirst
<1> QED BY <1>2, <1>3, <1>4


\* The signs of CompareNumbersFirst over a row of keys are a weak order.
LEMMA KeySigns ==
    ASSUME NEW S \in SUBSET NumCell, NEW n \in Nat, NEW keys \in [1..n -> Cell]
    PROVE  IsWeakOrder([a \in 1..n |->
                           [b \in 1..n |-> CompareNumbersFirst(keys[a], keys[b], S)]], n)
<1> DEFINE sign == [a \in 1..n |-> [b \in 1..n |-> CompareNumbersFirst(keys[a], keys[b], S)]]
<1>1. \A a \in 1..n : keys[a] \in Cell
  OBVIOUS
<1>2. \A a, b \in 1..n : sign[a][b] = CompareNumbersFirst(keys[a], keys[b], S)
  OBVIOUS
<1>3. \A a, b \in 1..n : CompareNumbersFirst(keys[a], keys[b], S) \in {-1, 0, 1}
  BY <1>1, NumbersFirstIsWeakOrder
<1>4. sign \in [1..n -> [1..n -> {-1, 0, 1}]]
  BY <1>3
<1> HIDE DEF sign
<1> QED BY <1>1, <1>2, <1>4, NumbersFirstIsWeakOrder DEF IsWeakOrder, sign

\* Ranking keys by CompareNumbersFirst sorts them.
LEMMA RankedSorts ==
    ASSUME NEW S \in SUBSET NumCell, NEW n \in Nat, NEW keys \in [1..n -> Cell]
    PROVE  LET before == [a \in 1..n |->
                   {b \in 1..n : \/ CompareNumbersFirst(keys[b], keys[a], S) < 0
                                 \/ CompareNumbersFirst(keys[b], keys[a], S) = 0 /\ b < a}]
               order == Ranked(1..n, before)
           IN  /\ order \in [1..n -> 1..n]
               /\ Lists(order, 1..n)
               /\ \A p, q \in 1..n :
                     p <= q => CompareNumbersFirst(keys[order[p]], keys[order[q]], S) <= 0
<1> DEFINE sign == [a \in 1..n |-> [b \in 1..n |-> CompareNumbersFirst(keys[a], keys[b], S)]]
           bySign == [a \in 1..n |->
                         {b \in 1..n : sign[b][a] < 0 \/ (sign[b][a] = 0 /\ b < a)}]
           before == [a \in 1..n |->
                   {b \in 1..n : \/ CompareNumbersFirst(keys[b], keys[a], S) < 0
                                 \/ CompareNumbersFirst(keys[b], keys[a], S) = 0 /\ b < a}]
<1>1. \A a, b \in 1..n : sign[a][b] = CompareNumbersFirst(keys[a], keys[b], S)
  OBVIOUS
<1>2. IsWeakOrder(sign, n)
  BY KeySigns
<1> HIDE DEF sign
<1>3. bySign = before
  BY <1>1
<1> DEFINE order == Ranked(1..n, bySign)
<1>4. /\ order \in [1..n -> 1..n] /\ Lists(order, 1..n)
      /\ \A p, q \in 1..n : p <= q => sign[order[p]][order[q]] <= 0
  BY <1>2, StableSorts
<1>5. order = Ranked(1..n, before)
  BY <1>3
<1> HIDE DEF order, before, bySign
<1>6. \A p, q \in 1..n : p <= q => CompareNumbersFirst(keys[order[p]], keys[order[q]], S) <= 0
  BY <1>1, <1>4
<1> QED BY <1>4, <1>5, <1>6 DEF before


----------------------------------------------------------------------------
(* The relational answer, seen from one of its sides *)

\* The row of position p of one side, 1 for left and 2 for right, and b of the
\* other.
Row(side, p, b) == IF side = 2 THEN <<b, p>> ELSE <<p, b>>

\* The rows of an answer that show position p on that side.
RowsAt(A, side, p) == {row \in A : row[side] = p}

\* A row is its position and that of the other side.
LEMMA RowParts ==
    ASSUME NEW side \in {1, 2}, NEW p, NEW b
    PROVE  /\ Row(side, p, b)[side] = p
           /\ Row(side, p, b)[3 - side] = b
           /\ \A q, c : Row(side, p, b) = Row(side, q, c) => p = q /\ b = c
<1>1. CASE side = 2
  BY <1>1 DEF Row
<1>2. CASE side = 1
  BY <1>2 DEF Row
<1> QED BY <1>1, <1>2

\* Which rows an answer has.
LEMMA AnswerRows ==
    ASSUME NEW type, NEW left \in Nat, NEW right \in Nat,
           NEW pairs \in SUBSET ((1..left) \X (1..right))
    PROVE  LET A == Answer(type, pairs, left, right) IN
           /\ A \subseteq (0..left) \X (0..right)
           /\ \A l \in 1..left, r \in 1..right : <<l, r>> \in A <=> <<l, r>> \in pairs
           /\ \A l \in 1..left : <<l, 0>> \in A <=>
                  type \in {"LEFT", "FULL"} /\ \A r \in 1..right : <<l, r>> \notin pairs
           /\ \A r \in 1..right : <<0, r>> \in A <=>
                  type \in {"RIGHT", "FULL"} /\ \A l \in 1..left : <<l, r>> \notin pairs
           /\ <<0, 0>> \notin A
<1> DEFINE lonelyLeft  == {l \in 1..left : \A r \in 1..right : <<l, r>> \notin pairs}
           lonelyRight == {r \in 1..right : \A l \in 1..left : <<l, r>> \notin pairs}
           A == Answer(type, pairs, left, right)
<1>1. \A row : row \in A <=>
          \/ row \in pairs
          \/ type \in {"LEFT", "FULL"} /\ \E l \in lonelyLeft : row = <<l, 0>>
          \/ type \in {"RIGHT", "FULL"} /\ \E r \in lonelyRight : row = <<0, r>>
  BY DEF Answer
<1>2. \A l, r : <<l, r>> \in pairs => l \in 1..left /\ r \in 1..right
  OBVIOUS
<1>3. \A row \in pairs : \E l \in 1..left, r \in 1..right : row = <<l, r>>
  OBVIOUS
<1>4. 0 \notin 1..left /\ 0 \notin 1..right /\ 0 \in 0..left /\ 0 \in 0..right
      /\ 1..left \subseteq 0..left /\ 1..right \subseteq 0..right
  OBVIOUS
<1> HIDE DEF A
<1>5. A \subseteq (0..left) \X (0..right)
  BY <1>1, <1>3, <1>4
<1>6. \A l \in 1..left, r \in 1..right : <<l, r>> \in A <=> <<l, r>> \in pairs
  BY <1>1, <1>4
<1>7. \A l \in 1..left : <<l, 0>> \in A <=>
          type \in {"LEFT", "FULL"} /\ \A r \in 1..right : <<l, r>> \notin pairs
  BY <1>1, <1>2, <1>4
<1>8. \A r \in 1..right : <<0, r>> \in A <=>
          type \in {"RIGHT", "FULL"} /\ \A l \in 1..left : <<l, r>> \notin pairs
  BY <1>1, <1>2, <1>4
<1>9. <<0, 0>> \notin A
  BY <1>1, <1>2, <1>4
<1> QED BY <1>5, <1>6, <1>7, <1>8, <1>9 DEF A

\* The rows that show one of the positions 1..n on that side.
RowsUpTo(A, side, n) == {row \in A : row[side] \in 1..n}

\* One position more, on the side a loop takes row by row.
LEMMA RowsUpToNext ==
    ASSUME NEW A, NEW side, NEW n \in Nat
    PROVE  /\ RowsUpTo(A, side, 0) = {}
           /\ RowsUpTo(A, side, n) \cup RowsAt(A, side, n + 1) = RowsUpTo(A, side, n + 1)
           /\ RowsUpTo(A, side, n) \cap RowsAt(A, side, n + 1) = {}
           /\ RowsUpTo(A, side, n) \cap RowsAt(A, side, 0) = {}
<1>1. /\ n + 1 \notin 1..n /\ 0 \notin 1..n /\ 1..n + 1 = 1..n \cup {n + 1}
      /\ 1..0 = {}
  OBVIOUS
<1> QED BY <1>1 DEF RowsUpTo, RowsAt

\* After the last position only the rows that show position 0 are left.
LEMMA RowsUpToAll ==
    ASSUME NEW A, NEW side, NEW n \in Nat, \A row \in A : row[side] \in 0..n
    PROVE  RowsUpTo(A, side, n) \cup RowsAt(A, side, 0) = A
<1>1. 0..n = 1..n \cup {0}
  OBVIOUS
<1> QED BY <1>1 DEF RowsUpTo, RowsAt

----------------------------------------------------------------------------
(* The rows a turn of a loop puts out *)

Beside(side, p, others) == IF side = 2 THEN WithRight(p, others) ELSE WithLeft(p, others)

\* Rows merged with one position list the pairs they make.
LEMMA BesideLists ==
    ASSUME NEW side \in {1, 2}, NEW p, NEW S, NEW others, Lists(others, S)
    PROVE  Lists(Beside(side, p, others), {Row(side, p, b) : b \in S})
<1>1. /\ Len(others) \in Nat /\ DOMAIN others = 1..Len(others)
      /\ \A h \in 1..Len(others) : others[h] \in S
      /\ \A x \in S : \E h \in 1..Len(others) : others[h] = x
      /\ \A h, k \in 1..Len(others) : others[h] = others[k] => h = k
  BY ListsAt
<1>2. Beside(side, p, others) = [h \in 1..Len(others) |-> Row(side, p, others[h])]
  BY <1>1 DEF Beside, Row, WithLeft, WithRight
<1> DEFINE f == Beside(side, p, others)
           T == {Row(side, p, b) : b \in S}
<1>3. f = [h \in 1..Len(others) |-> f[h]] /\ \A h \in 1..Len(others) : f[h] = Row(side, p, others[h])
  BY <1>2
<1> HIDE DEF f
<1>4. \A h \in 1..Len(others) : f[h] \in T
  BY <1>1, <1>3
<1>5. \A x \in T : \E h \in 1..Len(others) : f[h] = x
  BY <1>1, <1>3
<1>6. \A h, k \in 1..Len(others) : f[h] = f[k] => h = k
  BY <1>1, <1>3, RowParts
<1> HIDE DEF T
<1>7. Lists(f, T)
  BY <1>1, <1>3, <1>4, <1>5, <1>6, ListsFunction
<1> QED BY <1>7 DEF f, T

\* Ascending lists any positions of a side.
LEMMA AscendingPositions ==
    ASSUME NEW n \in Nat, NEW S \in SUBSET (1..n)
    PROVE  Lists(Ascending(S), S)
<1>1. IsFiniteSet(1..n)
  BY FS_Interval
<1>2. IsFiniteSet(S)
  BY <1>1, FS_Subset
<1> QED BY <1>2, AscendingLists

----------------------------------------------------------------------------
(* What follows from the inputs alone *)

\* A step that keeps the inputs keeps all that is computed from them.
LEMMA SameInputs ==
    ASSUME join' = join
    PROVE  /\ Left' = Left /\ Right' = Right
           /\ Sound' = Sound
           /\ KeepsLeft' = KeepsLeft /\ KeepsRight' = KeepsRight
           /\ BuildsRight' = BuildsRight /\ Build' = Build /\ Probe' = Probe
           /\ Chosen' = Chosen /\ PhysicalType' = PhysicalType
           /\ LeftOrder' = LeftOrder /\ RightOrder' = RightOrder
           /\ LeftKeys' = LeftKeys /\ RightKeys' = RightKeys
           /\ PhysicalAnswer' = PhysicalAnswer
           /\ OneSpelling' = OneSpelling
           /\ Matching' = Matching
           /\ PhysicalPairs' = PhysicalPairs
           /\ \A l, r : Holds(l, r)' <=> Holds(l, r)
<1>1. Left' = Left /\ Right' = Right
  BY DEF Left, Right
<1>2. KeepsLeft' = KeepsLeft /\ KeepsRight' = KeepsRight
  BY DEF KeepsLeft, KeepsRight
<1>3. BuildsRight' = BuildsRight
  BY <1>1, <1>2 DEF BuildsRight
<1>4. Build' = Build /\ Probe' = Probe
  BY <1>3 DEF Build, Probe
<1>5. Sound' = Sound
  BY DEF Sound, Reads, SideOf, UniqueBare
<1>6. Chosen' = Chosen
  BY <1>1 DEF Chosen, IsEqui, SideOf, UniqueBare, Smaller, Left, Right, Sorted
<1>7. PhysicalType' = PhysicalType
  BY <1>6 DEF PhysicalType
<1>8. LeftOrder' = LeftOrder
  BY <1>1 DEF LeftOrder, StableOrder
<1>9. RightOrder' = RightOrder
  BY <1>1 DEF RightOrder, StableOrder
<1>10. LeftKeys' = LeftKeys /\ RightKeys' = RightKeys
  BY <1>1, <1>8, <1>9 DEF LeftKeys, RightKeys
<1>11. \A l, r : Holds(l, r)' <=> Holds(l, r)
  BY DEF Holds, Operand, Reads, SideOf, UniqueBare
<1>12. PhysicalPairs' = PhysicalPairs
  BY <1>1, <1>6, <1>11 DEF PhysicalPairs, Pairs
<1>13. Matching' = Matching
  BY <1>5, <1>12 DEF Matching
<1>14. PhysicalAnswer' = PhysicalAnswer
  BY <1>1, <1>7, <1>13 DEF PhysicalAnswer
<1>15. OneSpelling' = OneSpelling
  BY DEF OneSpelling
<1> QED BY <1>1, <1>2, <1>3, <1>4, <1>5, <1>6, <1>7, <1>8, <1>9, <1>10, <1>11, <1>12, <1>13, <1>14, <1>15

\* What JoinAssumption says of the inputs, and of the algorithm chosen for them.
LEMMA InputShape ==
    ASSUME join \in Inputs
    PROVE  /\ Left \in Nat /\ Right \in Nat
           /\ join.left \in Seq(Cell) /\ join.right \in Seq(Cell)
           /\ join.left \in [1..Left -> Cell] /\ join.right \in [1..Right -> Cell]
           /\ join.type \in {"INNER", "LEFT", "RIGHT", "FULL", "CROSS"}
           /\ Chosen \in {"NESTED_LOOP", "HASH", "MERGE"}
           /\ Chosen \in {"HASH", "MERGE"} => IsEqui /\ join.type # "CROSS"
<1>1. /\ join.left \in Seq(Cell) /\ join.right \in Seq(Cell)
      /\ join.type \in {"INNER", "LEFT", "RIGHT", "FULL", "CROSS"}
      /\ join.algorithm \in {"NESTED_LOOP", "HASH", "MERGE"}
  BY JoinAssumption
<1>2. /\ Left \in Nat /\ Right \in Nat
      /\ join.left \in [1..Left -> Cell] /\ join.right \in [1..Right -> Cell]
  BY <1>1 DEF Left, Right
<1>3. CASE join.type = "CROSS" \/ ~IsEqui
  BY <1>1, <1>2, <1>3 DEF Chosen
<1>4. CASE join.type # "CROSS" /\ IsEqui
  BY <1>1, <1>2, <1>4 DEF Chosen
<1> QED BY <1>1, <1>2, <1>3, <1>4

\* The columns of an equi condition are there, and the condition is equality.
LEMMA EquiCondition ==
    ASSUME join \in Inputs, IsEqui
    PROVE  /\ Sound
           /\ \A l \in 1..Left, r \in 1..Right :
                 Holds(l, r) <=> CompareCompiled(join.left[l], join.right[r]) = 0
<1>1. /\ join.op = "="
      /\ \/ SideOf(join.a) = "left" /\ SideOf(join.b) = "right"
         \/ SideOf(join.a) = "right" /\ SideOf(join.b) = "left"
  BY DEF IsEqui
<1>2. Reads(join.a) = SideOf(join.a) /\ Reads(join.b) = SideOf(join.b)
  BY <1>1 DEF Reads
<1>3. Sound
  BY <1>1, <1>2 DEF Sound
<1>4. ASSUME NEW l \in 1..Left, NEW r \in 1..Right
      PROVE  Holds(l, r) <=> CompareCompiled(join.left[l], join.right[r]) = 0
  <2>1. join.left[l] \in Cell /\ join.right[r] \in Cell
    BY InputShape
  <2>2. Holds(l, r) <=>
          CompareCompiled(Operand(join.a, l, r), Operand(join.b, l, r)) = 0
    BY <1>1 DEF Holds, Satisfies
  <2> QED BY <1>1, <1>2, <2>1, <2>2, CompiledEqualIsSymmetric DEF Operand
<1> QED BY <1>3, <1>4

\* What each algorithm takes for a matching pair.
LEMMA MatchingShape ==
    ASSUME join \in Inputs
    PROVE  /\ Matching \in SUBSET ((1..Left) \X (1..Right))
           /\ PhysicalAnswer \in SUBSET ((0..Left) \X (0..Right))
           /\ \A l \in 1..Left, r \in 1..Right :
                 /\ Chosen = "NESTED_LOOP" => (<<l, r>> \in Matching <=> Sound /\ Holds(l, r))
                 /\ Chosen = "HASH" => (<<l, r>> \in Matching <=> join.left[l] = join.right[r])
                 /\ Chosen = "MERGE" => (<<l, r>> \in Matching
                                           <=> CompareKeys(join.left[l], join.right[r]) = 0)
<1>1. Chosen \in {"NESTED_LOOP", "HASH", "MERGE"} /\ Left \in Nat /\ Right \in Nat
  BY InputShape
<1>2. Chosen \in {"HASH", "MERGE"} => Sound
  BY InputShape, EquiCondition
<1>3. Matching \in SUBSET ((1..Left) \X (1..Right))
  BY <1>1 DEF Matching, PhysicalPairs, Pairs
<1>4. PhysicalAnswer \in SUBSET ((0..Left) \X (0..Right))
  BY <1>1, <1>3, AnswerRows DEF PhysicalAnswer
<1>5. ASSUME NEW l \in 1..Left, NEW r \in 1..Right
      PROVE  /\ Chosen = "NESTED_LOOP" => (<<l, r>> \in Matching <=> Sound /\ Holds(l, r))
             /\ Chosen = "HASH" => (<<l, r>> \in Matching <=> join.left[l] = join.right[r])
             /\ Chosen = "MERGE" => (<<l, r>> \in Matching
                                       <=> CompareKeys(join.left[l], join.right[r]) = 0)
  <2>1. Chosen = "NESTED_LOOP" => (<<l, r>> \in Matching <=> Sound /\ Holds(l, r))
    BY <1>2 DEF Matching, PhysicalPairs, Pairs
  <2>2. Chosen = "HASH" => (<<l, r>> \in Matching <=> join.left[l] = join.right[r])
    BY <1>2 DEF Matching, PhysicalPairs, Pairs
  <2>3. Chosen = "MERGE" => (<<l, r>> \in Matching
                               <=> CompareKeys(join.left[l], join.right[r]) = 0)
    BY <1>2 DEF Matching, PhysicalPairs, Pairs
  <2> QED BY <2>1, <2>2, <2>3
<1> QED BY <1>3, <1>4, <1>5

----------------------------------------------------------------------------
(* The merge orders and their groups *)

Sorts(order, keys, cells, n) ==
    /\ order \in [1..n -> 1..n] /\ Lists(order, 1..n)
    /\ keys \in [1..n -> Cell] /\ \A p \in 1..n : keys[p] = cells[order[p]]
    /\ \A p, q \in 1..n : p <= q => CompareKeys(keys[p], keys[q]) <= 0

\* cmpValues is a weak order.
LEMMA KeysOrder ==
    ASSUME NEW a \in Cell, NEW b \in Cell, NEW c \in Cell
    PROVE  /\ CompareKeys(a, b) \in {-1, 0, 1}
           /\ CompareKeys(a, a) = 0
           /\ CompareKeys(a, b) < 0 <=> CompareKeys(b, a) > 0
           /\ CompareKeys(a, b) = 0 <=> CompareKeys(b, a) = 0
           /\ CompareKeys(a, b) <= 0 /\ CompareKeys(b, c) <= 0 => CompareKeys(a, c) <= 0
           /\ CompareKeys(a, b) < 0 /\ CompareKeys(b, c) <= 0 => CompareKeys(a, c) < 0
           /\ CompareKeys(a, b) <= 0 /\ CompareKeys(b, c) < 0 => CompareKeys(a, c) < 0
           /\ CompareKeys(a, b) = 0 /\ CompareKeys(b, c) = 0 => CompareKeys(a, c) = 0
<1>1. IntCell \in SUBSET NumCell
  BY CellAssumption
<1> QED BY <1>1, NumbersFirstIsWeakOrder DEF CompareKeys

\* The two merge orders are sorted permutations of the positions.
LEMMA MergeOrders ==
    ASSUME join \in Inputs
    PROVE  /\ Sorts(LeftOrder, LeftKeys, join.left, Left)
           /\ Sorts(RightOrder, RightKeys, join.right, Right)
<1>1. /\ Left \in Nat /\ Right \in Nat
      /\ join.left \in [1..Left -> Cell] /\ join.right \in [1..Right -> Cell]
      /\ IntCell \in SUBSET NumCell
  BY InputShape, CellAssumption
<1>2. /\ LeftOrder \in [1..Left -> 1..Left] /\ Lists(LeftOrder, 1..Left)
      /\ \A p, q \in 1..Left : p <= q =>
            CompareKeys(join.left[LeftOrder[p]], join.left[LeftOrder[q]]) <= 0
  BY <1>1, RankedSorts DEF LeftOrder, StableOrder, CompareKeys
<1>3. /\ RightOrder \in [1..Right -> 1..Right] /\ Lists(RightOrder, 1..Right)
      /\ \A p, q \in 1..Right : p <= q =>
            CompareKeys(join.right[RightOrder[p]], join.right[RightOrder[q]]) <= 0
  BY <1>1, RankedSorts DEF RightOrder, StableOrder, CompareKeys
<1>4. /\ LeftKeys \in [1..Left -> Cell]
      /\ \A p \in 1..Left : LeftKeys[p] = join.left[LeftOrder[p]]
  BY <1>1, <1>2 DEF LeftKeys
<1>5. /\ RightKeys \in [1..Right -> Cell]
      /\ \A q \in 1..Right : RightKeys[q] = join.right[RightOrder[q]]
  BY <1>1, <1>3 DEF RightKeys
<1>6. Sorts(LeftOrder, LeftKeys, join.left, Left)
  BY <1>2, <1>4 DEF Sorts
<1>7. Sorts(RightOrder, RightKeys, join.right, Right)
  BY <1>3, <1>5 DEF Sorts
<1> QED BY <1>6, <1>7

\* A group ends where the keys first change, and the keys from there are larger.
LEMMA GroupEndSplits ==
    ASSUME NEW n \in Nat, NEW keys \in [1..n -> Cell], NEW from \in 1..n,
           \A p, q \in 1..n : p <= q => CompareKeys(keys[p], keys[q]) <= 0
    PROVE  LET end == GroupEnd(keys, n, from) IN
           /\ end \in from + 1..n + 1
           /\ \A p \in from..end - 1 : CompareKeys(keys[p], keys[from]) = 0
           /\ \A p \in end..n : CompareKeys(keys[from], keys[p]) < 0
<1> DEFINE T == {e \in from + 1..n + 1 : e = n + 1 \/ CompareKeys(keys[e], keys[from]) # 0}
           Ends(e) == /\ \A p \in from..e - 1 : CompareKeys(keys[p], keys[from]) = 0
                      /\ e <= n => CompareKeys(keys[e], keys[from]) # 0
           end == GroupEnd(keys, n, from)
<1>1. n + 1 \in T /\ T \in SUBSET Nat
  OBVIOUS
<1>2. PICK e \in T : \A y \in T : e <= y
  BY <1>1, LeastNatural
<1>3. \A p \in 1..n : keys[p] \in Cell
  OBVIOUS
<1>4. ASSUME NEW p \in from..e - 1 PROVE CompareKeys(keys[p], keys[from]) = 0
  <2>1. CASE p = from
    BY <1>3, <2>1, KeysOrder
  <2>2. CASE p # from
    <3>1. p \in from + 1..n + 1 /\ p # n + 1 /\ p \notin T
      BY <1>2, <2>2
    <3> QED BY <3>1
  <2> QED BY <2>1, <2>2
<1>5. e \in from + 1..n + 1 /\ Ends(e)
  BY <1>2, <1>4
<1>6. end = CHOOSE x \in from + 1..n + 1 : Ends(x)
  BY DEF GroupEnd
<1> HIDE DEF Ends, end
<1>7. end \in from + 1..n + 1 /\ Ends(end)
  BY <1>5, <1>6
<1>8. ASSUME NEW p \in end..n PROVE CompareKeys(keys[from], keys[p]) < 0
  <2>1. end \in 1..n /\ from \in 1..n /\ p \in 1..n /\ from <= end /\ end <= p
    BY <1>7
  <2>2. CompareKeys(keys[end], keys[from]) # 0
    BY <1>7, <2>1 DEF Ends
  <2>3. CompareKeys(keys[from], keys[end]) <= 0 /\ CompareKeys(keys[end], keys[p]) <= 0
    BY <2>1
  <2>4. keys[from] \in Cell /\ keys[end] \in Cell /\ keys[p] \in Cell
    BY <1>3, <2>1
  <2>5. CompareKeys(keys[from], keys[end]) < 0
    BY <2>2, <2>3, <2>4, KeysOrder
  <2> QED BY <2>3, <2>4, <2>5, KeysOrder
<1> QED BY <1>7, <1>8 DEF Ends, end

\* A stretch of a merge order lists the positions it runs over.
LEMMA StretchLists ==
    ASSUME NEW n \in Nat, NEW order \in [1..n -> 1..n], Lists(order, 1..n),
           NEW from \in 1..n + 1, NEW to \in from - 1..n
    PROVE  Lists(Stretch(order, from, to), {order[p] : p \in from..to})
<1> DEFINE m == to - from + 1
           f == Stretch(order, from, to)
           T == {order[p] : p \in from..to}
<1>1. \A a, b \in 1..n : order[a] = order[b] => a = b
  <2>1. Len(order) = n
    BY DEF Lists
  <2> QED BY <2>1, ListsAt
<1>2. m \in Nat /\ \A h \in 1..m : from + h - 1 \in from..to /\ from + h - 1 \in 1..n
  OBVIOUS
<1>3. f = [h \in 1..m |-> f[h]] /\ \A h \in 1..m : f[h] = order[from + h - 1]
  BY DEF Stretch
<1> HIDE DEF f
<1>4. \A h \in 1..m : f[h] \in T
  BY <1>2, <1>3
<1>5. \A x \in T : \E h \in 1..m : f[h] = x
  <2> SUFFICES ASSUME NEW p \in from..to PROVE \E h \in 1..m : f[h] = order[p]
    OBVIOUS
  <2>1. p - from + 1 \in 1..m /\ from + (p - from + 1) - 1 = p
    OBVIOUS
  <2> QED BY <1>3, <2>1
<1>6. ASSUME NEW h \in 1..m, NEW k \in 1..m, f[h] = f[k] PROVE h = k
  <2>1. from + h - 1 = from + k - 1
    BY <1>1, <1>2, <1>3, <1>6
  <2> QED BY <2>1
<1>7. m \in Nat /\ f = [h \in 1..m |-> f[h]]
  BY <1>2, <1>3
<1>8. \A h, k \in 1..m : f[h] = f[k] => h = k
  BY <1>6
<1> HIDE DEF T, m
<1>9. Lists(f, T)
  BY <1>4, <1>5, <1>7, <1>8, ListsFunction
<1> QED BY <1>9 DEF f, T

----------------------------------------------------------------------------
(* The turns of a loop that takes one side row by row *)

\* The answer of the algorithm chosen, row by row.
LEMMA PhysicalRows ==
    ASSUME join \in Inputs
    PROVE  /\ Left \in Nat /\ Right \in Nat
           /\ Matching \in SUBSET ((1..Left) \X (1..Right))
           /\ PhysicalAnswer \subseteq (0..Left) \X (0..Right)
           /\ \A l \in 1..Left, r \in 1..Right :
                 <<l, r>> \in PhysicalAnswer <=> <<l, r>> \in Matching
           /\ \A l \in 1..Left : <<l, 0>> \in PhysicalAnswer <=>
                  PhysicalType \in {"LEFT", "FULL"} /\ \A r \in 1..Right : <<l, r>> \notin Matching
           /\ \A r \in 1..Right : <<0, r>> \in PhysicalAnswer <=>
                  PhysicalType \in {"RIGHT", "FULL"} /\ \A l \in 1..Left : <<l, r>> \notin Matching
           /\ <<0, 0>> \notin PhysicalAnswer
<1>1. Left \in Nat /\ Right \in Nat /\ Matching \in SUBSET ((1..Left) \X (1..Right))
  BY InputShape, MatchingShape
<1> DEFINE A == Answer(PhysicalType, Matching, Left, Right)
<1>2. /\ A \subseteq (0..Left) \X (0..Right)
      /\ \A l \in 1..Left, r \in 1..Right : <<l, r>> \in A <=> <<l, r>> \in Matching
      /\ \A l \in 1..Left : <<l, 0>> \in A <=>
             PhysicalType \in {"LEFT", "FULL"} /\ \A r \in 1..Right : <<l, r>> \notin Matching
      /\ \A r \in 1..Right : <<0, r>> \in A <=>
             PhysicalType \in {"RIGHT", "FULL"} /\ \A l \in 1..Left : <<l, r>> \notin Matching
      /\ <<0, 0>> \notin A
  BY <1>1, AnswerRows
<1>3. A = PhysicalAnswer
  BY DEF PhysicalAnswer
<1> HIDE DEF A
<1> QED BY <1>1, <1>2, <1>3

\* The partners of a position, and the positions with a partner among 1..n.
Partners(side, p) ==
    {b \in 1..(IF side = 2 THEN Left ELSE Right) : Row(side, p, b) \in Matching}

PartnersUpTo(side, n) ==
    {b \in 1..(IF side = 2 THEN Left ELSE Right) :
        \E p \in 1..n : Row(side, p, b) \in Matching}

\* The rows of a position: its partners, or one row of its own when it has
\* none and that side is kept.
LEMMA RowsOfPosition ==
    ASSUME join \in Inputs, NEW side \in {1, 2},
           NEW p \in 1..(IF side = 2 THEN Right ELSE Left)
    PROVE  LET hits == Partners(side, p)
               kept == PhysicalType \in {IF side = 2 THEN "RIGHT" ELSE "LEFT", "FULL"}
           IN  RowsAt(PhysicalAnswer, side, p)
                 = IF hits = {} THEN IF kept THEN {Row(side, p, 0)} ELSE {}
                   ELSE {Row(side, p, b) : b \in hits}
<1>1. /\ PhysicalAnswer \subseteq (0..Left) \X (0..Right)
      /\ \A l \in 1..Left, r \in 1..Right : <<l, r>> \in PhysicalAnswer <=> <<l, r>> \in Matching
      /\ \A l \in 1..Left : <<l, 0>> \in PhysicalAnswer <=>
             PhysicalType \in {"LEFT", "FULL"} /\ \A r \in 1..Right : <<l, r>> \notin Matching
      /\ \A r \in 1..Right : <<0, r>> \in PhysicalAnswer <=>
             PhysicalType \in {"RIGHT", "FULL"} /\ \A l \in 1..Left : <<l, r>> \notin Matching
      /\ <<0, 0>> \notin PhysicalAnswer
  BY PhysicalRows
<1>2. ASSUME NEW row \in PhysicalAnswer PROVE \E l \in 0..Left, r \in 0..Right : row = <<l, r>>
  BY <1>1
<1>3. CASE side = 2
  <2> DEFINE hits == {b \in 1..Left : <<b, p>> \in Matching}
  <2>1. p \in 1..Right
    BY <1>3
  <2>2. \A row \in RowsAt(PhysicalAnswer, side, p) : \E l \in 0..Left : row = <<l, p>> /\ row \in PhysicalAnswer
    BY <1>2, <1>3 DEF RowsAt
  <2>3. \A l : <<l, p>> \in PhysicalAnswer => <<l, p>> \in RowsAt(PhysicalAnswer, side, p)
    BY <1>3 DEF RowsAt
  <2>4. hits = {} => RowsAt(PhysicalAnswer, side, p)
                       = IF PhysicalType \in {"RIGHT", "FULL"} THEN {<<0, p>>} ELSE {}
    BY <1>1, <2>1, <2>2, <2>3
  <2>5. ASSUME hits # {}
        PROVE  RowsAt(PhysicalAnswer, side, p) = {<<b, p>> : b \in hits}
    <3>1. <<0, p>> \notin PhysicalAnswer
      BY <1>1, <2>1, <2>5
    <3>2. \A l \in 0..Left : <<l, p>> \in PhysicalAnswer => l \in hits
      BY <1>1, <2>1, <3>1
    <3>3. \A b \in hits : <<b, p>> \in PhysicalAnswer
      BY <1>1, <2>1
    <3> QED BY <2>2, <2>3, <3>2, <3>3
  <2>6. /\ hits = Partners(side, p)
        /\ {<<b, p>> : b \in hits} = {Row(side, p, b) : b \in hits}
        /\ Row(side, p, 0) = <<0, p>>
        /\ (IF side = 2 THEN "RIGHT" ELSE "LEFT") = "RIGHT"
    BY <1>3 DEF Row, Partners
  <2> HIDE DEF hits
  <2>7. RowsAt(PhysicalAnswer, side, p)
          = IF hits = {} THEN IF PhysicalType \in {"RIGHT", "FULL"} THEN {Row(side, p, 0)} ELSE {}
            ELSE {Row(side, p, b) : b \in hits}
    BY <2>4, <2>5, <2>6
  <2> QED BY <2>6, <2>7
<1>4. CASE side = 1
  <2> DEFINE hits == {b \in 1..Right : <<p, b>> \in Matching}
  <2>1. p \in 1..Left
    BY <1>4
  <2>2. \A row \in RowsAt(PhysicalAnswer, side, p) : \E r \in 0..Right : row = <<p, r>> /\ row \in PhysicalAnswer
    BY <1>2, <1>4 DEF RowsAt
  <2>3. \A r : <<p, r>> \in PhysicalAnswer => <<p, r>> \in RowsAt(PhysicalAnswer, side, p)
    BY <1>4 DEF RowsAt
  <2>4. hits = {} => RowsAt(PhysicalAnswer, side, p)
                       = IF PhysicalType \in {"LEFT", "FULL"} THEN {<<p, 0>>} ELSE {}
    BY <1>1, <2>1, <2>2, <2>3
  <2>5. ASSUME hits # {}
        PROVE  RowsAt(PhysicalAnswer, side, p) = {<<p, b>> : b \in hits}
    <3>1. <<p, 0>> \notin PhysicalAnswer
      BY <1>1, <2>1, <2>5
    <3>2. \A r \in 0..Right : <<p, r>> \in PhysicalAnswer => r \in hits
      BY <1>1, <2>1, <3>1
    <3>3. \A b \in hits : <<p, b>> \in PhysicalAnswer
      BY <1>1, <2>1
    <3> QED BY <2>2, <2>3, <3>2, <3>3
  <2>6. /\ hits = Partners(side, p)
        /\ {<<p, b>> : b \in hits} = {Row(side, p, b) : b \in hits}
        /\ Row(side, p, 0) = <<p, 0>>
        /\ (IF side = 2 THEN "RIGHT" ELSE "LEFT") = "LEFT"
    BY <1>4 DEF Row, Partners
  <2> HIDE DEF hits
  <2>7. RowsAt(PhysicalAnswer, side, p)
          = IF hits = {} THEN IF PhysicalType \in {"LEFT", "FULL"} THEN {Row(side, p, 0)} ELSE {}
            ELSE {Row(side, p, b) : b \in hits}
    BY <2>4, <2>5, <2>6
  <2> QED BY <2>6, <2>7
<1> QED BY <1>3, <1>4

\* The rows of position 0: the other side's positions without a partner, when
\* that side is kept.
LEMMA RowsOfNobody ==
    ASSUME join \in Inputs, NEW side \in {1, 2}
    PROVE  LET lonely == (1..(IF side = 2 THEN Left ELSE Right))
                           \ PartnersUpTo(side, IF side = 2 THEN Right ELSE Left)
               kept == PhysicalType \in {IF side = 2 THEN "LEFT" ELSE "RIGHT", "FULL"}
           IN  RowsAt(PhysicalAnswer, side, 0) = IF kept THEN {Row(side, 0, b) : b \in lonely} ELSE {}
<1>1. /\ PhysicalAnswer \subseteq (0..Left) \X (0..Right)
      /\ \A l \in 1..Left, r \in 1..Right : <<l, r>> \in PhysicalAnswer <=> <<l, r>> \in Matching
      /\ \A l \in 1..Left : <<l, 0>> \in PhysicalAnswer <=>
             PhysicalType \in {"LEFT", "FULL"} /\ \A r \in 1..Right : <<l, r>> \notin Matching
      /\ \A r \in 1..Right : <<0, r>> \in PhysicalAnswer <=>
             PhysicalType \in {"RIGHT", "FULL"} /\ \A l \in 1..Left : <<l, r>> \notin Matching
      /\ <<0, 0>> \notin PhysicalAnswer
  BY PhysicalRows
<1>2. ASSUME NEW row \in PhysicalAnswer PROVE \E l \in 0..Left, r \in 0..Right : row = <<l, r>>
  BY <1>1
<1>3. CASE side = 2
  <2> DEFINE lonely == {b \in 1..Left : \A p \in 1..Right : <<b, p>> \notin Matching}
  <2>1. \A row \in RowsAt(PhysicalAnswer, side, 0) : \E l \in 1..Left : row = <<l, 0>> /\ row \in PhysicalAnswer
    BY <1>1, <1>2, <1>3 DEF RowsAt
  <2>2. \A l : <<l, 0>> \in PhysicalAnswer => <<l, 0>> \in RowsAt(PhysicalAnswer, side, 0)
    BY <1>3 DEF RowsAt
  <2>3. RowsAt(PhysicalAnswer, side, 0)
          = IF PhysicalType \in {"LEFT", "FULL"} THEN {<<b, 0>> : b \in lonely} ELSE {}
    BY <1>1, <2>1, <2>2
  <2>4. /\ (IF side = 2 THEN Left ELSE Right) = Left
        /\ (IF side = 2 THEN Right ELSE Left) = Right
        /\ (IF side = 2 THEN "LEFT" ELSE "RIGHT") = "LEFT"
        /\ {<<b, 0>> : b \in lonely} = {Row(side, 0, b) : b \in lonely}
    BY <1>3 DEF Row
  <2>5. lonely = (1..Left) \ PartnersUpTo(side, Right)
    BY <1>3, <2>4 DEF Row, PartnersUpTo
  <2> HIDE DEF lonely
  <2> QED BY <2>3, <2>4, <2>5
<1>4. CASE side = 1
  <2> DEFINE lonely == {b \in 1..Right : \A p \in 1..Left : <<p, b>> \notin Matching}
  <2>1. \A row \in RowsAt(PhysicalAnswer, side, 0) : \E r \in 1..Right : row = <<0, r>> /\ row \in PhysicalAnswer
    BY <1>1, <1>2, <1>4 DEF RowsAt
  <2>2. \A r : <<0, r>> \in PhysicalAnswer => <<0, r>> \in RowsAt(PhysicalAnswer, side, 0)
    BY <1>4 DEF RowsAt
  <2>3. RowsAt(PhysicalAnswer, side, 0)
          = IF PhysicalType \in {"RIGHT", "FULL"} THEN {<<0, b>> : b \in lonely} ELSE {}
    BY <1>1, <2>1, <2>2
  <2>4. /\ (IF side = 2 THEN Left ELSE Right) = Right
        /\ (IF side = 2 THEN Right ELSE Left) = Left
        /\ (IF side = 2 THEN "LEFT" ELSE "RIGHT") = "RIGHT"
        /\ {<<0, b>> : b \in lonely} = {Row(side, 0, b) : b \in lonely}
    BY <1>4 DEF Row
  <2>5. lonely = (1..Right) \ PartnersUpTo(side, Left)
    BY <1>4, <2>4 DEF Row, PartnersUpTo
  <2> HIDE DEF lonely
  <2> QED BY <2>3, <2>4, <2>5
<1> QED BY <1>3, <1>4

\* One turn of a nested loop or hash join puts out the rows of its position.
LEMMA ProbeTurn ==
    ASSUME join \in Inputs, NEW side \in {1, 2},
           NEW p \in 1..(IF side = 2 THEN Right ELSE Left),
           Lists(out, RowsUpTo(PhysicalAnswer, side, p - 1)),
           NEW kept, kept <=> PhysicalType \in {IF side = 2 THEN "RIGHT" ELSE "LEFT", "FULL"},
           NEW rows,
           rows = IF Partners(side, p) = {} THEN IF kept THEN <<Row(side, p, 0)>> ELSE <<>>
                  ELSE Beside(side, p, Ascending(Partners(side, p)))
    PROVE  Lists(out \o rows, RowsUpTo(PhysicalAnswer, side, p))
<1> DEFINE hits == Partners(side, p)
           At == RowsAt(PhysicalAnswer, side, p)
<1>1. Left \in Nat /\ Right \in Nat
  BY PhysicalRows
<1>2. At = IF hits = {} THEN IF PhysicalType \in {IF side = 2 THEN "RIGHT" ELSE "LEFT", "FULL"}
                             THEN {Row(side, p, 0)} ELSE {}
           ELSE {Row(side, p, b) : b \in hits}
  BY RowsOfPosition
<1>3. Lists(rows, At)
  <2>1. CASE hits # {}
    <3>1. Lists(Ascending(hits), hits)
      BY <1>1, AscendingPositions DEF Partners
    <3>2. Lists(Beside(side, p, Ascending(hits)), {Row(side, p, b) : b \in hits})
      BY <3>1, BesideLists
    <3> QED BY <1>2, <2>1, <3>2
  <2>2. CASE hits = {}
    BY <1>2, <2>2, ListsOne, ListsEmpty
  <2> QED BY <2>1, <2>2
<1>4. p - 1 \in Nat /\ (p - 1) + 1 = p
  BY <1>1
<1>5. /\ RowsUpTo(PhysicalAnswer, side, p - 1) \cup At = RowsUpTo(PhysicalAnswer, side, p)
      /\ RowsUpTo(PhysicalAnswer, side, p - 1) \cap At = {}
  BY <1>4, RowsUpToNext
<1> HIDE DEF At
<1> QED BY <1>3, <1>5, ListsConcat

\* One turn marks the partners of its position.
LEMMA PartnersUpToNext ==
    ASSUME NEW side, NEW p \in Nat \ {0}
    PROVE  PartnersUpTo(side, p) = PartnersUpTo(side, p - 1) \cup Partners(side, p)
<1>1. 1..p = 1..p - 1 \cup {p}
  OBVIOUS
<1> QED BY <1>1 DEF PartnersUpTo, Partners

\* The last turn puts out the rows that no turn could.
LEMMA ProbeEnd ==
    ASSUME join \in Inputs, NEW side \in {1, 2},
           Lists(out, RowsUpTo(PhysicalAnswer, side, IF side = 2 THEN Right ELSE Left)),
           NEW kept, kept <=> PhysicalType \in {IF side = 2 THEN "LEFT" ELSE "RIGHT", "FULL"},
           kept => matched = PartnersUpTo(side, IF side = 2 THEN Right ELSE Left),
           NEW rows,
           rows = IF kept THEN Beside(side, 0, Ascending(
                                   (1..(IF side = 2 THEN Left ELSE Right)) \ matched))
                  ELSE <<>>
    PROVE  Lists(out \o rows, PhysicalAnswer)
<1> DEFINE others == 1..(IF side = 2 THEN Left ELSE Right)
           lonely == others \ PartnersUpTo(side, IF side = 2 THEN Right ELSE Left)
           At == RowsAt(PhysicalAnswer, side, 0)
<1>1. /\ Left \in Nat /\ Right \in Nat
      /\ Matching \in SUBSET ((1..Left) \X (1..Right))
      /\ PhysicalAnswer \in SUBSET ((0..Left) \X (0..Right))
  BY PhysicalRows
<1>2. At = IF PhysicalType \in {IF side = 2 THEN "LEFT" ELSE "RIGHT", "FULL"}
           THEN {Row(side, 0, b) : b \in lonely} ELSE {}
  BY RowsOfNobody
<1>3. Lists(rows, At)
  <2>1. CASE kept
    <3>1. others \ matched = lonely
      BY <2>1
    <3>2. Lists(Ascending(lonely), lonely)
      BY <1>1, AscendingPositions, ZenonT(60)
    <3>3. Lists(Beside(side, 0, Ascending(lonely)), {Row(side, 0, b) : b \in lonely})
      BY <3>2, BesideLists
    <3> HIDE DEF lonely, At
    <3> QED BY <1>2, <2>1, <3>1, <3>3
  <2>2. CASE ~kept
    <3> HIDE DEF lonely, At
    <3> QED BY <1>2, <2>2, ListsEmpty
  <2> QED BY <2>1, <2>2
<1>4. /\ RowsUpTo(PhysicalAnswer, side, IF side = 2 THEN Right ELSE Left) \cup At = PhysicalAnswer
      /\ RowsUpTo(PhysicalAnswer, side, IF side = 2 THEN Right ELSE Left) \cap At = {}
  <2>1. (IF side = 2 THEN Right ELSE Left) \in Nat
    BY <1>1
  <2>2. \A row \in PhysicalAnswer : row[side] \in 0..(IF side = 2 THEN Right ELSE Left)
    BY <1>1
  <2> QED BY <2>1, <2>2, RowsUpToNext, RowsUpToAll
<1> HIDE DEF At
<1> QED BY <1>3, <1>4, ListsConcat

----------------------------------------------------------------------------
(* The inductive invariant *)

Phases == {"new", "NESTED_LOOP", "HASH", "MERGE", "MERGE_UNMATCHED", "ready",
           "exhausted", "closed", "failed"}

\* The side the outer loop runs over.
LoopSide == IF phase = "HASH" /\ ~BuildsRight THEN 2 ELSE 1

Shape ==
    /\ join \in Inputs
    /\ phase \in Phases
    /\ i \in Nat \ {0} /\ j \in Nat \ {0}
    /\ matched \subseteq Nat \ {0}
    /\ out \in Seq((0..Left) \X (0..Right))
    /\ cursor \in 0..Len(out)
    /\ phase \notin {"ready", "exhausted"} => cursor = 0

Silent == phase \in {"new", "closed", "failed"} => out = <<>>

\* A nested loop or hash join before its turn i.
Probing ==
    phase \in {"NESTED_LOOP", "HASH"} =>
        /\ Chosen = phase
        /\ i \in 1..(IF LoopSide = 2 THEN Right ELSE Left) + 1
        /\ Lists(out, RowsUpTo(PhysicalAnswer, LoopSide, i - 1))
        /\ matched = IF KeepsRight THEN PartnersUpTo(LoopSide, i - 1) ELSE {}
        /\ phase = "NESTED_LOOP" /\ ~Sound /\ Right > 0 => i = 1

\* A merge join with its cursors at i and j: what it has passed is out, and no
\* key on one side of the cursors has an equal on the other, but for the group
\* the cursors stand in.
MergedRows ==
    {row \in PhysicalAnswer :
        \/ \E p \in 1..i - 1 : row[1] = LeftOrder[p]
        \/ row[1] = 0 /\ \E q \in 1..j - 1 : row[2] = RightOrder[q]}

SplitAt(a, b) ==
    /\ \A p \in 1..a - 1, q \in b..Right : CompareKeys(LeftKeys[p], RightKeys[q]) <= 0
    /\ b <= Right => \A p \in 1..a - 1 : CompareKeys(LeftKeys[p], RightKeys[b]) = 0
                         => a <= Left /\ CompareKeys(LeftKeys[a], RightKeys[b]) = 0
    /\ \A p \in a..Left, q \in 1..b - 1 : CompareKeys(LeftKeys[p], RightKeys[q]) > 0

MergeSoFar ==
    phase = "MERGE" =>
        /\ Chosen = "MERGE" /\ i \in 1..Left + 1 /\ j \in 1..Right + 1
        /\ Lists(out, MergedRows)
        /\ KeepsRight => \A q \in 1..j - 1 : RightOrder[q] \in matched
        /\ SplitAt(i, j)

MergeAtEnd ==
    phase = "MERGE_UNMATCHED" =>
        /\ Chosen = "MERGE"
        /\ Lists(out, PhysicalAnswer)
        /\ KeepsRight => \A r \in (1..Right) \ matched, l \in 1..Left :
                             CompareKeys(join.left[l], join.right[r]) < 0

Complete ==
    phase \in {"ready", "exhausted"} => Range(out) = PhysicalAnswer /\ RepeatsOnlyResidual

IInv == Shape /\ Silent /\ Probing /\ MergeSoFar /\ MergeAtEnd /\ Complete

\* A list of some things is a sequence of things like them.
LEMMA ListsTyped ==
    ASSUME NEW s, NEW S, NEW T, Lists(s, S), S \subseteq T
    PROVE  s \in Seq(T)
<1>1. s \in Seq(S)
  BY DEF Lists
<1>2. Seq(S) \subseteq Seq(T)
  OBVIOUS
<1> QED BY <1>1, <1>2

\* What the steps of a loop have in common.
LEMMA StillLooping ==
    ASSUME Shape, join' = join, cursor' = cursor, cursor = 0,
           NEW S, Lists(out', S), S \subseteq PhysicalAnswer,
           phase' \in Phases, i' \in Nat \ {0}, j' \in Nat \ {0}, matched' \subseteq Nat \ {0}
    PROVE  Shape'
<1>1. PhysicalAnswer \subseteq (0..Left) \X (0..Right)
  BY PhysicalRows DEF Shape
<1>2. Left' = Left /\ Right' = Right
  BY SameInputs
<1>3. out' \in Seq((0..Left) \X (0..Right))
  BY <1>1, ListsTyped
<1>4. Len(out') \in Nat
  BY <1>3
<1> QED BY <1>2, <1>3, <1>4 DEF Shape

\* A join that has not been opened.
LEMMA InitIInv == Init => IInv
<1> SUFFICES ASSUME Init PROVE IInv
  OBVIOUS
<1>1. join \in Inputs /\ phase = "new" /\ i = 1 /\ j = 1 /\ matched = {} /\ out = <<>>
      /\ cursor = 0
  BY DEF Init
<1>2. Shape
  <2>1. out \in Seq((0..Left) \X (0..Right)) /\ Len(out) = 0
    BY <1>1
  <2> QED BY <1>1, <2>1 DEF Shape, Phases
<1> QED BY <1>1, <1>2 DEF IInv, Silent, Probing, MergeSoFar, MergeAtEnd, Complete

\* open() starts the loop of the algorithm it chooses with nothing out.
LEMMA OpenIInv ==
    ASSUME IInv, Open
    PROVE  IInv'
<1>1. /\ phase' = Chosen /\ out' = <<>> /\ cursor' = 0 /\ i' = 1 /\ j' = 1 /\ matched' = {}
      /\ join' = join /\ join \in Inputs
  BY DEF Open, IInv, Shape
<1>2. /\ Chosen \in {"NESTED_LOOP", "HASH", "MERGE"} /\ Left \in Nat /\ Right \in Nat
      /\ Chosen' = Chosen /\ Left' = Left /\ Right' = Right
  BY <1>1, InputShape, SameInputs
<1>3. Shape'
  <2>1. out' \in Seq((0..Left) \X (0..Right)) /\ Len(out') = 0
    BY <1>1
  <2> QED BY <1>1, <1>2, <2>1 DEF Shape, Phases
<1>4. Silent'
  BY <1>1, <1>2 DEF Silent
<1>5. Lists(out', {})
  BY <1>1, ListsEmpty
<1>6. Probing'
  <2>1. i' - 1 = 0 /\ 1..0 = {}
    BY <1>1
  <2>2. RowsUpTo(PhysicalAnswer, LoopSide, i - 1)' = {}
    BY <2>1 DEF RowsUpTo
  <2>3. PartnersUpTo(LoopSide, i - 1)' = {}
    BY <2>1 DEF PartnersUpTo
  <2>4. i' \in 1..(IF LoopSide' = 2 THEN Right' ELSE Left') + 1
    BY <1>1, <1>2
  <2> QED BY <1>1, <1>2, <1>5, <2>2, <2>3, <2>4 DEF Probing
<1>7. MergeSoFar'
  <2>1. 1..i' - 1 = {} /\ 1..j' - 1 = {}
    BY <1>1
  <2>2. MergedRows' = {}
    BY <2>1 DEF MergedRows
  <2>3. SplitAt(i, j)'
    BY <2>1 DEF SplitAt
  <2>4. i' \in 1..Left' + 1 /\ j' \in 1..Right' + 1
    BY <1>1, <1>2
  <2> QED BY <1>1, <1>2, <1>5, <2>1, <2>2, <2>3, <2>4 DEF MergeSoFar
<1>8. MergeAtEnd' /\ Complete'
  BY <1>1, <1>2 DEF MergeAtEnd, Complete
<1> QED BY <1>3, <1>4, <1>6, <1>7, <1>8 DEF IInv

\* Loops over the left or the probe side: the phase and its kept rows.
LEMMA LoopTurn ==
    ASSUME IInv, phase \in {"NESTED_LOOP", "HASH"},
           i <= IF LoopSide = 2 THEN Right ELSE Left,
           phase = "NESTED_LOOP" /\ Right > 0 => Sound,
           join' = join, phase' = phase, i' = i + 1, j' = j, cursor' = cursor,
           NEW kept, kept <=> PhysicalType \in {IF LoopSide = 2 THEN "RIGHT" ELSE "LEFT", "FULL"},
           out' = out \o (IF Partners(LoopSide, i) = {}
                           THEN IF kept THEN <<Row(LoopSide, i, 0)>> ELSE <<>>
                           ELSE Beside(LoopSide, i, Ascending(Partners(LoopSide, i)))),
           matched' = IF KeepsRight THEN matched \cup Partners(LoopSide, i) ELSE matched
    PROVE  IInv'
<1>1. /\ join \in Inputs /\ phase \in Phases /\ cursor = 0 /\ j \in Nat \ {0}
      /\ Chosen = phase /\ i \in 1..(IF LoopSide = 2 THEN Right ELSE Left) + 1
      /\ Lists(out, RowsUpTo(PhysicalAnswer, LoopSide, i - 1))
      /\ matched = IF KeepsRight THEN PartnersUpTo(LoopSide, i - 1) ELSE {}
  BY DEF IInv, Shape, Probing
<1>2. /\ Left \in Nat /\ Right \in Nat /\ LoopSide \in {1, 2}
      /\ LoopSide' = LoopSide /\ Left' = Left /\ Right' = Right /\ Chosen' = Chosen
      /\ PhysicalAnswer' = PhysicalAnswer /\ KeepsRight' = KeepsRight /\ Sound' = Sound
      /\ Matching' = Matching
  BY <1>1, InputShape, SameInputs DEF LoopSide
<1>3. i \in 1..(IF LoopSide = 2 THEN Right ELSE Left) /\ i \in Nat \ {0}
  BY <1>1, <1>2
<1>4. Lists(out', RowsUpTo(PhysicalAnswer, LoopSide, i))
  BY <1>1, <1>2, <1>3, ProbeTurn
<1>5. matched' = IF KeepsRight THEN PartnersUpTo(LoopSide, i) ELSE {}
  BY <1>1, <1>3, PartnersUpToNext
<1>6. /\ RowsUpTo(PhysicalAnswer, LoopSide, i)
           = RowsUpTo(PhysicalAnswer', LoopSide', i' - 1)
      /\ PartnersUpTo(LoopSide, i) = PartnersUpTo(LoopSide, i' - 1)
  <2>1. i' - 1 = i
    BY <1>3
  <2> QED BY <1>2, <2>1
<1>7. PartnersUpTo(LoopSide, i - 1)' = PartnersUpTo(LoopSide, i)
  BY <1>2, <1>6 DEF PartnersUpTo
<1>8. Probing'
  <2>1. i' \in 1..(IF LoopSide' = 2 THEN Right' ELSE Left') + 1
    BY <1>2, <1>3
  <2>2. Lists(out', RowsUpTo(PhysicalAnswer', LoopSide', i' - 1))
    BY <1>4, <1>6
  <2>3. matched' = IF KeepsRight' THEN PartnersUpTo(LoopSide, i - 1)' ELSE {}
    BY <1>2, <1>5, <1>7
  <2> QED BY <1>1, <1>2, <2>1, <2>2, <2>3 DEF Probing
<1>9. Shape'
  <2>1. RowsUpTo(PhysicalAnswer, LoopSide, i) \subseteq PhysicalAnswer
    BY DEF RowsUpTo
  <2>2. matched' \subseteq Nat \ {0}
    <3>1. PartnersUpTo(LoopSide, i) \subseteq 1..(IF LoopSide = 2 THEN Left ELSE Right)
      BY DEF PartnersUpTo
    <3>2. 1..(IF LoopSide = 2 THEN Left ELSE Right) \subseteq Nat \ {0}
      BY <1>2
    <3> QED BY <1>5, <3>1, <3>2
  <2>3. Shape
    BY DEF IInv
  <2>4. /\ cursor = 0 /\ join' = join /\ cursor' = cursor
        /\ phase' \in Phases /\ i' \in Nat \ {0} /\ j' \in Nat \ {0}
    BY <1>1, <1>3
  <2> QED BY <1>4, <2>1, <2>2, <2>3, <2>4, StillLooping
<1>10. Silent' /\ MergeSoFar' /\ MergeAtEnd' /\ Complete'
  BY DEF Silent, MergeSoFar, MergeAtEnd, Complete
<1> QED BY <1>8, <1>9, <1>10 DEF IInv

\* The last turn, over the other side's rows.
LEMMA LoopEnd ==
    ASSUME IInv, phase \in {"NESTED_LOOP", "HASH"},
           i > IF LoopSide = 2 THEN Right ELSE Left,
           join' = join, phase' = "ready", i' = i, j' = j, cursor' = cursor, matched' = matched,
           KeepsRight <=> PhysicalType \in {IF LoopSide = 2 THEN "LEFT" ELSE "RIGHT", "FULL"},
           out' = out \o (IF KeepsRight
                           THEN Beside(LoopSide, 0, Ascending(
                                    (1..(IF LoopSide = 2 THEN Left ELSE Right)) \ matched))
                           ELSE <<>>)
    PROVE  IInv'
<1>1. /\ join \in Inputs /\ Shape /\ cursor = 0
      /\ i \in Nat \ {0} /\ j \in Nat \ {0} /\ matched \subseteq Nat \ {0}
      /\ i \in 1..(IF LoopSide = 2 THEN Right ELSE Left) + 1
      /\ Lists(out, RowsUpTo(PhysicalAnswer, LoopSide, i - 1))
      /\ matched = IF KeepsRight THEN PartnersUpTo(LoopSide, i - 1) ELSE {}
  BY DEF IInv, Shape, Probing
<1>2. /\ Left \in Nat /\ Right \in Nat /\ LoopSide \in {1, 2}
      /\ PhysicalAnswer' = PhysicalAnswer
  BY <1>1, InputShape, SameInputs DEF LoopSide
<1>3. i - 1 = IF LoopSide = 2 THEN Right ELSE Left
  BY <1>1, <1>2
<1>4. Lists(out', PhysicalAnswer)
  BY <1>1, <1>2, <1>3, ProbeEnd
<1>5. Shape'
  BY <1>1, <1>4, StillLooping DEF Phases
<1>6. Complete'
  <2>1. Range(out') = PhysicalAnswer' /\ IsInjective(out')
    BY <1>2, <1>4 DEF Lists
  <2>2. RepeatsOnlyResidual'
    BY <2>1 DEF RepeatsOnlyResidual, IsInjective
  <2> QED BY <2>1, <2>2 DEF Complete
<1>7. Silent' /\ Probing' /\ MergeSoFar' /\ MergeAtEnd'
  BY DEF Silent, Probing, MergeSoFar, MergeAtEnd
<1> QED BY <1>5, <1>6, <1>7 DEF IInv

\* runNestedLoopJoin, over the left rows.
LEMMA NestedLoopIInv ==
    ASSUME IInv, NestedLoopRow \/ NestedLoopUnmatched
    PROVE  IInv'
<1>1. phase = "NESTED_LOOP" /\ Chosen = "NESTED_LOOP" /\ LoopSide = 1 /\ join \in Inputs
      /\ i \in 1..Left + 1
  BY DEF NestedLoopRow, NestedLoopUnmatched, IInv, Probing, Shape, LoopSide
<1>2. /\ KeepsLeft <=> PhysicalType \in {"LEFT", "FULL"}
      /\ KeepsRight <=> PhysicalType \in {"RIGHT", "FULL"}
  BY <1>1 DEF PhysicalType, KeepsLeft, KeepsRight
<1>3. Left \in Nat /\ Right \in Nat
  BY <1>1, InputShape
<1>4. CASE NestedLoopRow
  <2> DEFINE hits == {r \in 1..Right : Holds(i, r)}
  <2>1. /\ i <= Left /\ (Right > 0 => Sound) /\ join' = join /\ phase' = phase /\ i' = i + 1
        /\ j' = j /\ cursor' = cursor
        /\ out' = out \o (IF hits = {} THEN IF KeepsLeft THEN << <<i, 0>> >> ELSE <<>>
                           ELSE WithLeft(i, Ascending(hits)))
        /\ matched' = IF KeepsRight THEN matched \cup hits ELSE matched
    BY <1>4 DEF NestedLoopRow, Emit
  <2>2. hits = Partners(1, i)
    <3>1. i \in 1..Left
      BY <1>1, <1>3, <2>1
    <3>2. \A r \in 1..Right : Right > 0
      BY <1>3
    <3>3. \A r \in 1..Right : <<i, r>> \in Matching <=> Holds(i, r)
      BY <1>1, <2>1, <3>1, <3>2, MatchingShape
    <3> QED BY <3>3 DEF Partners, Row
  <2>3. Row(1, i, 0) = <<i, 0>> /\ Beside(1, i, Ascending(hits)) = WithLeft(i, Ascending(hits))
    BY DEF Row, Beside
  <2> HIDE DEF hits
  <2>4. out' = out \o (IF Partners(LoopSide, i) = {}
                        THEN IF KeepsLeft THEN <<Row(LoopSide, i, 0)>> ELSE <<>>
                        ELSE Beside(LoopSide, i, Ascending(Partners(LoopSide, i))))
    BY <1>1, <2>1, <2>2, <2>3
  <2>5. matched' = IF KeepsRight THEN matched \cup Partners(LoopSide, i) ELSE matched
    BY <1>1, <2>1, <2>2
  <2>6. KeepsLeft <=> PhysicalType \in {IF LoopSide = 2 THEN "RIGHT" ELSE "LEFT", "FULL"}
    BY <1>1, <1>2
  <2>7. i <= IF LoopSide = 2 THEN Right ELSE Left
    BY <1>1, <2>1
  <2> QED BY <1>1, <2>1, <2>4, <2>5, <2>6, <2>7, LoopTurn
<1>5. CASE NestedLoopUnmatched
  <2>1. /\ i > Left /\ phase' = "ready" /\ join' = join /\ i' = i /\ j' = j /\ matched' = matched
        /\ cursor' = cursor
        /\ out' = out \o (IF KeepsRight THEN WithLeft(0, Ascending((1..Right) \ matched))
                           ELSE <<>>)
    BY <1>5 DEF NestedLoopUnmatched, Emit
  <2>2. out' = out \o (IF KeepsRight
                        THEN Beside(LoopSide, 0, Ascending(
                                 (1..(IF LoopSide = 2 THEN Left ELSE Right)) \ matched))
                        ELSE <<>>)
    BY <1>1, <2>1 DEF Beside
  <2>3. KeepsRight <=> PhysicalType \in {IF LoopSide = 2 THEN "LEFT" ELSE "RIGHT", "FULL"}
    BY <1>1, <1>2
  <2>4. i > IF LoopSide = 2 THEN Right ELSE Left
    BY <1>1, <2>1
  <2> QED BY <1>1, <2>1, <2>2, <2>3, <2>4, LoopEnd
<1> QED BY <1>4, <1>5

\* A condition over unknown columns throws on the first merged row.
LEMMA UnknownColumnIInv ==
    ASSUME IInv, UnknownColumn
    PROVE  IInv'
<1>1. /\ phase = "NESTED_LOOP" /\ Right > 0 /\ ~Sound /\ phase' = "failed"
      /\ join' = join /\ i' = i /\ j' = j /\ matched' = matched /\ out' = out /\ cursor' = cursor
  BY DEF UnknownColumn
<1>2. i = 1 /\ Lists(out, RowsUpTo(PhysicalAnswer, LoopSide, i - 1)) /\ Shape
  BY <1>1 DEF IInv, Probing
<1>3. out = <<>>
  <2>1. RowsUpTo(PhysicalAnswer, LoopSide, i - 1) = {}
    BY <1>2 DEF RowsUpTo
  <2> QED BY <1>2, <2>1, ListsAt
<1>4. Shape'
  <2>1. Left' = Left /\ Right' = Right
    BY <1>1, SameInputs
  <2> QED BY <1>1, <1>2, <2>1 DEF Shape, Phases
<1> QED BY <1>1, <1>3, <1>4 DEF IInv, Silent, Probing, MergeSoFar, MergeAtEnd, Complete

\* The build and the probe side of a hash join.
LEMMA HashSides ==
    ASSUME join \in Inputs, phase = "HASH", Chosen = "HASH"
    PROVE  /\ Len(Probe) = IF LoopSide = 2 THEN Right ELSE Left
           /\ Len(Build) = IF LoopSide = 2 THEN Left ELSE Right
           /\ \A p \in 1..Len(Probe) :
                 {b \in 1..Len(Build) : Build[b] = Probe[p]} = Partners(LoopSide, p)
           /\ \A p, builds : Merged(p, builds) = Beside(LoopSide, p, builds)
           /\ ((BuildsRight /\ KeepsLeft) \/ (~BuildsRight /\ KeepsRight))
                 <=> PhysicalType \in {IF LoopSide = 2 THEN "RIGHT" ELSE "LEFT", "FULL"}
           /\ KeepsRight <=> PhysicalType \in {IF LoopSide = 2 THEN "LEFT" ELSE "RIGHT", "FULL"}
<1>1. /\ Left \in Nat /\ Right \in Nat
      /\ join.type \in {"INNER", "LEFT", "RIGHT", "FULL"}
  BY InputShape
<1>2. \A l \in 1..Left, r \in 1..Right :
          <<l, r>> \in Matching <=> join.left[l] = join.right[r]
  BY MatchingShape
<1>3. PhysicalType = IF join.type = "RIGHT" THEN "FULL" ELSE join.type
  BY DEF PhysicalType
<1>4. CASE BuildsRight
  <2>1. /\ LoopSide = 1 /\ Build = join.right /\ Probe = join.left
        /\ Len(Build) = Right /\ Len(Probe) = Left
    BY <1>4 DEF LoopSide, Build, Probe, Left, Right
  <2>2. \A p \in 1..Left : {b \in 1..Right : Build[b] = Probe[p]} = Partners(LoopSide, p)
    BY <1>2, <2>1 DEF Partners, Row
  <2>3. \A p, builds : Merged(p, builds) = Beside(LoopSide, p, builds)
    BY <1>4, <2>1 DEF Merged, Beside
  <2>4. join.type # "RIGHT"
    BY <1>4 DEF BuildsRight, KeepsLeft
  <2>5. /\ KeepsLeft <=> PhysicalType \in {"LEFT", "FULL"}
        /\ KeepsRight <=> PhysicalType \in {"RIGHT", "FULL"}
    BY <1>1, <1>3, <2>4 DEF KeepsLeft, KeepsRight
  <2> QED BY <1>4, <2>1, <2>2, <2>3, <2>5
<1>5. CASE ~BuildsRight
  <2>1. /\ LoopSide = 2 /\ Build = join.left /\ Probe = join.right
        /\ Len(Build) = Left /\ Len(Probe) = Right
    BY <1>5 DEF LoopSide, Build, Probe, Left, Right
  <2>2. \A p \in 1..Right : {b \in 1..Left : Build[b] = Probe[p]} = Partners(LoopSide, p)
    BY <1>2, <2>1 DEF Partners, Row
  <2>3. \A p, builds : Merged(p, builds) = Beside(LoopSide, p, builds)
    BY <1>5, <2>1 DEF Merged, Beside
  <2>4. join.type \in {"INNER", "RIGHT"}
    BY <1>1, <1>5 DEF BuildsRight, KeepsLeft
  <2>5. /\ KeepsRight <=> PhysicalType \in {"RIGHT", "FULL"}
        /\ KeepsRight <=> PhysicalType \in {"LEFT", "FULL"}
    BY <1>3, <2>4 DEF KeepsRight
  <2> QED BY <1>5, <2>1, <2>2, <2>3, <2>5
<1> QED BY <1>4, <1>5

\* runHashJoin, over the rows of the side that is not in the table.
LEMMA HashIInv ==
    ASSUME IInv, HashProbe \/ HashUnmatched
    PROVE  IInv'
<1>1. phase = "HASH" /\ Chosen = "HASH" /\ join \in Inputs
  BY DEF HashProbe, HashUnmatched, IInv, Probing, Shape
<1>2. /\ Len(Probe) = IF LoopSide = 2 THEN Right ELSE Left
      /\ Len(Build) = IF LoopSide = 2 THEN Left ELSE Right
      /\ \A p \in 1..Len(Probe) :
            {b \in 1..Len(Build) : Build[b] = Probe[p]} = Partners(LoopSide, p)
      /\ \A p, builds : Merged(p, builds) = Beside(LoopSide, p, builds)
      /\ ((BuildsRight /\ KeepsLeft) \/ (~BuildsRight /\ KeepsRight))
            <=> PhysicalType \in {IF LoopSide = 2 THEN "RIGHT" ELSE "LEFT", "FULL"}
      /\ KeepsRight <=> PhysicalType \in {IF LoopSide = 2 THEN "LEFT" ELSE "RIGHT", "FULL"}
  BY <1>1, HashSides
<1>3. Left \in Nat /\ Right \in Nat /\ i \in Nat \ {0}
  BY <1>1, InputShape DEF IInv, Shape
<1>4. CASE HashProbe
  <2> DEFINE hits == {b \in 1..Len(Build) : Build[b] = Probe[i]}
             outer == (BuildsRight /\ KeepsLeft) \/ (~BuildsRight /\ KeepsRight)
  <2>1. /\ i <= Len(Probe) /\ join' = join /\ phase' = phase /\ i' = i + 1
        /\ j' = j /\ cursor' = cursor
        /\ out' = out \o (IF hits = {} THEN IF outer THEN Merged(i, <<0>>) ELSE <<>>
                           ELSE Merged(i, Ascending(hits)))
        /\ matched' = IF KeepsRight THEN matched \cup hits ELSE matched
    BY <1>4 DEF HashProbe, Emit
  <2>2. hits = Partners(LoopSide, i)
    <3>1. i \in 1..Len(Probe)
      BY <1>2, <1>3, <2>1
    <3> QED BY <1>2, <3>1
  <2>3. Merged(i, <<0>>) = <<Row(LoopSide, i, 0)>>
    <3>1. Merged(i, <<0>>) = Beside(LoopSide, i, <<0>>)
      BY <1>2
    <3> QED BY <3>1 DEF Beside, Row, WithLeft, WithRight
  <2> HIDE DEF hits, outer
  <2>4. out' = out \o (IF Partners(LoopSide, i) = {}
                        THEN IF outer THEN <<Row(LoopSide, i, 0)>> ELSE <<>>
                        ELSE Beside(LoopSide, i, Ascending(Partners(LoopSide, i))))
    BY <1>2, <2>1, <2>2, <2>3
  <2>5. matched' = IF KeepsRight THEN matched \cup Partners(LoopSide, i) ELSE matched
    BY <2>1, <2>2
  <2>6. outer <=> PhysicalType \in {IF LoopSide = 2 THEN "RIGHT" ELSE "LEFT", "FULL"}
    BY <1>2 DEF outer
  <2>7. i <= IF LoopSide = 2 THEN Right ELSE Left
    BY <1>2, <2>1
  <2> QED BY <1>1, <2>1, <2>4, <2>5, <2>6, <2>7, LoopTurn
<1>5. CASE HashUnmatched
  <2>1. /\ i > Len(Probe) /\ phase' = "ready" /\ join' = join /\ i' = i /\ j' = j
        /\ matched' = matched /\ cursor' = cursor
        /\ out' = out \o (IF KeepsRight THEN Merged(0, Ascending((1..Len(Build)) \ matched))
                           ELSE <<>>)
    BY <1>5 DEF HashUnmatched, Emit
  <2>2. out' = out \o (IF KeepsRight
                        THEN Beside(LoopSide, 0, Ascending(
                                 (1..(IF LoopSide = 2 THEN Left ELSE Right)) \ matched))
                        ELSE <<>>)
    BY <1>2, <2>1
  <2>3. i > IF LoopSide = 2 THEN Right ELSE Left
    BY <1>2, <2>1
  <2> QED BY <1>1, <1>2, <2>1, <2>2, <2>3, LoopEnd
<1> QED BY <1>4, <1>5

----------------------------------------------------------------------------
(* The merge join *)

\* The merge orders, position by position.
LEMMA OrdersAt ==
    ASSUME join \in Inputs
    PROVE  /\ Left \in Nat /\ Right \in Nat
           /\ \A p \in 1..Left : LeftOrder[p] \in 1..Left /\ LeftKeys[p] \in Cell
           /\ \A q \in 1..Right : RightOrder[q] \in 1..Right /\ RightKeys[q] \in Cell
           /\ \A p, q \in 1..Left : LeftOrder[p] = LeftOrder[q] => p = q
           /\ \A p, q \in 1..Right : RightOrder[p] = RightOrder[q] => p = q
           /\ \A l \in 1..Left : \E p \in 1..Left : LeftOrder[p] = l
           /\ \A r \in 1..Right : \E q \in 1..Right : RightOrder[q] = r
           /\ \A p, q \in 1..Left : p <= q => CompareKeys(LeftKeys[p], LeftKeys[q]) <= 0
           /\ \A p, q \in 1..Right : p <= q => CompareKeys(RightKeys[p], RightKeys[q]) <= 0
           /\ \A p \in 1..Left : LeftKeys[p] = join.left[LeftOrder[p]]
           /\ \A q \in 1..Right : RightKeys[q] = join.right[RightOrder[q]]
<1>1. Left \in Nat /\ Right \in Nat
  BY InputShape
<1>2. /\ Sorts(LeftOrder, LeftKeys, join.left, Left)
      /\ Sorts(RightOrder, RightKeys, join.right, Right)
  BY MergeOrders
<1>3. /\ LeftOrder \in [1..Left -> 1..Left] /\ Lists(LeftOrder, 1..Left)
      /\ LeftKeys \in [1..Left -> Cell]
      /\ RightOrder \in [1..Right -> 1..Right] /\ Lists(RightOrder, 1..Right)
      /\ RightKeys \in [1..Right -> Cell]
  BY <1>2 DEF Sorts
<1>4. /\ \A p, q \in 1..Left : LeftOrder[p] = LeftOrder[q] => p = q
      /\ \A l \in 1..Left : \E p \in 1..Left : LeftOrder[p] = l
  BY <1>3 DEF Lists, IsInjective, Range
<1>5. /\ \A p, q \in 1..Right : RightOrder[p] = RightOrder[q] => p = q
      /\ \A r \in 1..Right : \E q \in 1..Right : RightOrder[q] = r
  BY <1>3 DEF Lists, IsInjective, Range
<1> QED BY <1>1, <1>2, <1>3, <1>4, <1>5 DEF Sorts

\* Rows of a merge join match when their keys are level, and then the condition holds.
LEMMA MergeMatching ==
    ASSUME join \in Inputs, Chosen = "MERGE"
    PROVE  /\ KeepsLeft <=> PhysicalType \in {"LEFT", "FULL"}
           /\ KeepsRight <=> PhysicalType \in {"RIGHT", "FULL"}
           /\ \A p \in 1..Left, q \in 1..Right :
                 <<LeftOrder[p], RightOrder[q]>> \in Matching
                   <=> CompareKeys(LeftKeys[p], RightKeys[q]) = 0
           /\ \A l \in 1..Left, r \in 1..Right : <<l, r>> \in Matching => Holds(l, r)
<1>1. /\ KeepsLeft <=> PhysicalType \in {"LEFT", "FULL"}
      /\ KeepsRight <=> PhysicalType \in {"RIGHT", "FULL"}
  BY DEF PhysicalType, KeepsLeft, KeepsRight
<1>2. \A l \in 1..Left, r \in 1..Right :
          <<l, r>> \in Matching <=> CompareKeys(join.left[l], join.right[r]) = 0
  BY MatchingShape
<1>3. \A p \in 1..Left, q \in 1..Right :
          <<LeftOrder[p], RightOrder[q]>> \in Matching
            <=> CompareKeys(LeftKeys[p], RightKeys[q]) = 0
  <2> SUFFICES ASSUME NEW p \in 1..Left, NEW q \in 1..Right
               PROVE  <<LeftOrder[p], RightOrder[q]>> \in Matching
                        <=> CompareKeys(LeftKeys[p], RightKeys[q]) = 0
    OBVIOUS
  <2>1. /\ LeftOrder[p] \in 1..Left /\ RightOrder[q] \in 1..Right
        /\ LeftKeys[p] = join.left[LeftOrder[p]] /\ RightKeys[q] = join.right[RightOrder[q]]
    BY OrdersAt
  <2> QED BY <1>2, <2>1
<1>4. ASSUME NEW l \in 1..Left, NEW r \in 1..Right, <<l, r>> \in Matching PROVE Holds(l, r)
  <2>1. join.left[l] \in Cell /\ join.right[r] \in Cell /\ IsEqui
    BY InputShape
  <2>2. CompareKeys(join.left[l], join.right[r]) = 0
    BY <1>2, <1>4
  <2>3. CompareCompiled(join.left[l], join.right[r]) = 0
    BY <2>1, <2>2, LevelKeysAreEqual DEF CompareKeys
  <2> QED BY <2>1, <2>3, EquiCondition
<1> QED BY <1>1, <1>3, <1>4

\* The rows of stretches of the two orders.
LeftStretch(from, to) == {row \in PhysicalAnswer : \E p \in from..to : row[1] = LeftOrder[p]}

RightStretch(from, to) ==
    {row \in PhysicalAnswer : row[1] = 0 /\ \E q \in from..to : row[2] = RightOrder[q]}

\* What a move of the cursors adds to the rows passed, and that it is new.
LEMMA StretchesApart ==
    ASSUME join \in Inputs, i \in 1..Left + 1, j \in 1..Right + 1,
           NEW i2 \in i..Left + 1, NEW j2 \in j..Right + 1
    PROVE  /\ {row \in PhysicalAnswer :
                  \/ \E p \in 1..i2 - 1 : row[1] = LeftOrder[p]
                  \/ row[1] = 0 /\ \E q \in 1..j2 - 1 : row[2] = RightOrder[q]}
               = MergedRows \cup (LeftStretch(i, i2 - 1) \cup RightStretch(j, j2 - 1))
           /\ MergedRows \cap (LeftStretch(i, i2 - 1) \cup RightStretch(j, j2 - 1)) = {}
           /\ LeftStretch(i, i2 - 1) \cap RightStretch(j, j2 - 1) = {}
<1>1. /\ Left \in Nat /\ Right \in Nat
      /\ \A p \in 1..Left : LeftOrder[p] \in 1..Left
      /\ \A q \in 1..Right : RightOrder[q] \in 1..Right
      /\ \A p, q \in 1..Left : LeftOrder[p] = LeftOrder[q] => p = q
      /\ \A p, q \in 1..Right : RightOrder[p] = RightOrder[q] => p = q
  BY OrdersAt
<1>2. /\ 1..i2 - 1 = 1..i - 1 \cup i..i2 - 1 /\ 1..j2 - 1 = 1..j - 1 \cup j..j2 - 1
      /\ 1..i - 1 \cap i..i2 - 1 = {} /\ 1..j - 1 \cap j..j2 - 1 = {}
      /\ 1..i2 - 1 \subseteq 1..Left /\ 1..j2 - 1 \subseteq 1..Right
  BY <1>1
<1>3. \A p \in 1..Left : LeftOrder[p] # 0
  BY <1>1
<1>4. \A p \in 1..i - 1, q \in i..i2 - 1 : LeftOrder[p] # LeftOrder[q]
  <2> SUFFICES ASSUME NEW p \in 1..i - 1, NEW q \in i..i2 - 1 PROVE LeftOrder[p] # LeftOrder[q]
    OBVIOUS
  <2>1. p \in 1..Left /\ q \in 1..Left /\ p # q
    BY <1>1
  <2> QED BY <1>1, <2>1
<1>5. \A p \in 1..j - 1, q \in j..j2 - 1 : RightOrder[p] # RightOrder[q]
  <2> SUFFICES ASSUME NEW p \in 1..j - 1, NEW q \in j..j2 - 1 PROVE RightOrder[p] # RightOrder[q]
    OBVIOUS
  <2>1. p \in 1..Right /\ q \in 1..Right /\ p # q
    BY <1>1
  <2> QED BY <1>1, <2>1
<1>6. LeftStretch(i, i2 - 1) \cap RightStretch(j, j2 - 1) = {}
  BY <1>2, <1>3 DEF LeftStretch, RightStretch
<1>7. MergedRows \cap LeftStretch(i, i2 - 1) = {}
  BY <1>2, <1>3, <1>4 DEF MergedRows, LeftStretch
<1>8. MergedRows \cap RightStretch(j, j2 - 1) = {}
  BY <1>2, <1>3, <1>5 DEF MergedRows, RightStretch
<1>9. {row \in PhysicalAnswer :
           \/ \E p \in 1..i2 - 1 : row[1] = LeftOrder[p]
           \/ row[1] = 0 /\ \E q \in 1..j2 - 1 : row[2] = RightOrder[q]}
        = MergedRows \cup (LeftStretch(i, i2 - 1) \cup RightStretch(j, j2 - 1))
  BY <1>2 DEF MergedRows, LeftStretch, RightStretch
<1> QED BY <1>6, <1>7, <1>8, <1>9

\* Rows without a partner come out alone when their side is kept.
LEMMA LonelyLeftStretch ==
    ASSUME join \in Inputs, Chosen = "MERGE",
           NEW from \in 1..Left + 1, NEW to \in from - 1..Left,
           \A p \in from..to, q \in 1..Right : CompareKeys(LeftKeys[p], RightKeys[q]) # 0
    PROVE  /\ KeepsLeft => Lists(WithRight(0, Stretch(LeftOrder, from, to)), LeftStretch(from, to))
           /\ ~KeepsLeft => LeftStretch(from, to) = {}
<1>1. /\ Left \in Nat /\ Right \in Nat
      /\ \A p \in 1..Left : LeftOrder[p] \in 1..Left
      /\ \A r \in 1..Right : \E q \in 1..Right : RightOrder[q] = r
  BY OrdersAt
<1>2. from..to \subseteq 1..Left
  BY <1>1
<1>3. \A p \in from..to, r \in 1..Right : <<LeftOrder[p], r>> \notin Matching
  BY <1>1, <1>2, MergeMatching
<1>4. \A row \in LeftStretch(from, to) : \E p \in from..to : row = <<LeftOrder[p], 0>> /\ KeepsLeft
  <2> SUFFICES ASSUME NEW row \in LeftStretch(from, to)
               PROVE  \E p \in from..to : row = <<LeftOrder[p], 0>> /\ KeepsLeft
    OBVIOUS
  <2>1. PICK p \in from..to : row[1] = LeftOrder[p] /\ row \in PhysicalAnswer
    BY DEF LeftStretch
  <2>2. PICK r \in 0..Right : row = <<LeftOrder[p], r>>
    BY <2>1, PhysicalRows
  <2>3. LeftOrder[p] \in 1..Left
    BY <1>1, <1>2
  <2>4. r \notin 1..Right
    BY <1>3, <2>1, <2>2, <2>3, PhysicalRows
  <2>5. r = 0
    BY <1>1, <2>4
  <2>6. KeepsLeft
    BY <2>1, <2>2, <2>3, <2>5, PhysicalRows, MergeMatching
  <2> QED BY <2>2, <2>5, <2>6
<1>5. ASSUME KeepsLeft
      PROVE  Lists(WithRight(0, Stretch(LeftOrder, from, to)), LeftStretch(from, to))
  <2>1. Lists(Stretch(LeftOrder, from, to), {LeftOrder[p] : p \in from..to})
    BY <1>1, StretchLists, MergeOrders DEF Sorts
  <2>2. Lists(Beside(2, 0, Stretch(LeftOrder, from, to)),
              {Row(2, 0, b) : b \in {LeftOrder[p] : p \in from..to}})
    BY <2>1, BesideLists
  <2>3. \A p \in from..to : <<LeftOrder[p], 0>> \in LeftStretch(from, to)
    BY <1>1, <1>2, <1>3, <1>5, PhysicalRows, MergeMatching DEF LeftStretch
  <2>4. LeftStretch(from, to) = {Row(2, 0, b) : b \in {LeftOrder[p] : p \in from..to}}
    BY <1>4, <2>3 DEF Row
  <2> QED BY <2>2, <2>4 DEF Beside
<1> QED BY <1>4, <1>5

\* The same of right rows, which come out with position 0 on the left.
LEMMA LonelyRightStretch ==
    ASSUME join \in Inputs, Chosen = "MERGE",
           NEW from \in 1..Right + 1, NEW to \in from - 1..Right,
           \A q \in from..to, p \in 1..Left : CompareKeys(LeftKeys[p], RightKeys[q]) # 0
    PROVE  /\ KeepsRight => Lists(WithLeft(0, Stretch(RightOrder, from, to)), RightStretch(from, to))
           /\ ~KeepsRight => RightStretch(from, to) = {}
<1>1. /\ Left \in Nat /\ Right \in Nat
      /\ \A q \in 1..Right : RightOrder[q] \in 1..Right
      /\ \A l \in 1..Left : \E p \in 1..Left : LeftOrder[p] = l
  BY OrdersAt
<1>2. from..to \subseteq 1..Right
  BY <1>1
<1>3. \A q \in from..to, l \in 1..Left : <<l, RightOrder[q]>> \notin Matching
  BY <1>1, <1>2, MergeMatching
<1>4. \A row \in RightStretch(from, to) : \E q \in from..to : row = <<0, RightOrder[q]>> /\ KeepsRight
  <2> SUFFICES ASSUME NEW row \in RightStretch(from, to)
               PROVE  \E q \in from..to : row = <<0, RightOrder[q]>> /\ KeepsRight
    OBVIOUS
  <2>1. PICK q \in from..to : row[1] = 0 /\ row[2] = RightOrder[q] /\ row \in PhysicalAnswer
    BY DEF RightStretch
  <2>2. row = <<0, RightOrder[q]>>
    BY <2>1, PhysicalRows
  <2>3. RightOrder[q] \in 1..Right
    BY <1>1, <1>2
  <2>4. KeepsRight
    BY <2>1, <2>2, <2>3, PhysicalRows, MergeMatching
  <2> QED BY <2>2, <2>4
<1>5. ASSUME KeepsRight
      PROVE  Lists(WithLeft(0, Stretch(RightOrder, from, to)), RightStretch(from, to))
  <2>1. Lists(Stretch(RightOrder, from, to), {RightOrder[q] : q \in from..to})
    BY <1>1, StretchLists, MergeOrders DEF Sorts
  <2>2. Lists(Beside(1, 0, Stretch(RightOrder, from, to)),
              {Row(1, 0, b) : b \in {RightOrder[q] : q \in from..to}})
    BY <2>1, BesideLists
  <2>3. \A q \in from..to : <<0, RightOrder[q]>> \in RightStretch(from, to)
    BY <1>1, <1>2, <1>3, <1>5, PhysicalRows, MergeMatching DEF RightStretch
  <2>4. RightStretch(from, to) = {Row(1, 0, b) : b \in {RightOrder[q] : q \in from..to}}
    BY <1>4, <2>3 DEF Row
  <2> QED BY <2>2, <2>4 DEF Beside
<1> QED BY <1>4, <1>5

\* One turn of the merge, from what it puts out and where its cursors go.
LEMMA MergeTurn ==
    ASSUME IInv, phase = "MERGE", join' = join, phase' = phase, cursor' = cursor,
           NEW i2 \in i..Left + 1, NEW j2 \in j..Right + 1, i' = i2, j' = j2,
           NEW rows, out' = out \o rows,
           Lists(rows, LeftStretch(i, i2 - 1) \cup RightStretch(j, j2 - 1)),
           matched' \subseteq Nat \ {0}, matched \subseteq matched',
           KeepsRight => \A q \in j..j2 - 1 : RightOrder[q] \in matched',
           SplitAt(i2, j2)
    PROVE  IInv'
<1>1. /\ Shape /\ join \in Inputs /\ Chosen = "MERGE" /\ cursor = 0
      /\ i \in 1..Left + 1 /\ j \in 1..Right + 1 /\ Lists(out, MergedRows)
      /\ KeepsRight => \A q \in 1..j - 1 : RightOrder[q] \in matched
  BY DEF IInv, MergeSoFar, Shape
<1>2. /\ Left \in Nat /\ Right \in Nat /\ Left' = Left /\ Right' = Right /\ Chosen' = Chosen
      /\ PhysicalAnswer' = PhysicalAnswer /\ KeepsRight' = KeepsRight
      /\ LeftOrder' = LeftOrder /\ RightOrder' = RightOrder
  BY <1>1, InputShape, SameInputs
<1> DEFINE New == LeftStretch(i, i2 - 1) \cup RightStretch(j, j2 - 1)
<1>3. MergedRows' = MergedRows \cup New /\ MergedRows \cap New = {}
  <2>1. MergedRows' = {row \in PhysicalAnswer :
                          \/ \E p \in 1..i2 - 1 : row[1] = LeftOrder[p]
                          \/ row[1] = 0 /\ \E q \in 1..j2 - 1 : row[2] = RightOrder[q]}
    BY <1>2 DEF MergedRows
  <2> QED BY <1>1, <2>1, StretchesApart
<1> HIDE DEF New
<1>4. Lists(out', MergedRows')
  <2>1. Lists(rows, New)
    BY DEF New
  <2> QED BY <1>1, <1>3, <2>1, ListsConcat
<1>5. KeepsRight => \A q \in 1..j2 - 1 : RightOrder[q] \in matched'
  <2> SUFFICES ASSUME KeepsRight, NEW q \in 1..j2 - 1 PROVE RightOrder[q] \in matched'
    OBVIOUS
  <2>1. j \in Int /\ j2 \in Int /\ q \in Int /\ 1 <= q /\ q <= j2 - 1
    BY <1>1, <1>2
  <2>2. CASE q < j
    <3>1. q \in 1..j - 1
      BY <2>1, <2>2
    <3> QED BY <1>1, <3>1
  <2>3. CASE q >= j
    <3>1. q \in j..j2 - 1
      BY <2>1, <2>3
    <3> QED BY <3>1
  <2> QED BY <2>1, <2>2, <2>3
<1>6. MergeSoFar'
  <2>1. i' \in 1..Left' + 1 /\ j' \in 1..Right' + 1
    BY <1>1, <1>2
  <2>2. KeepsRight' => \A q \in 1..j' - 1 : RightOrder[q]' \in matched'
    BY <1>2, <1>5
  <2>3. SplitAt(i, j)'
    <3>1. LeftKeys' = LeftKeys /\ RightKeys' = RightKeys
      BY SameInputs
    <3> QED BY <1>2, <3>1 DEF SplitAt
  <2> QED BY <1>1, <1>2, <1>4, <2>1, <2>2, <2>3 DEF MergeSoFar
<1>7. Shape'
  <2>1. MergedRows' \subseteq PhysicalAnswer
    BY <1>2 DEF MergedRows
  <2>2. i2 \in Nat \ {0} /\ j2 \in Nat \ {0}
    BY <1>1, <1>2
  <2>3. phase' \in Phases /\ i' \in Nat \ {0} /\ j' \in Nat \ {0}
    BY <1>1, <2>2 DEF Shape
  <2> QED BY <1>1, <1>4, <2>1, <2>3, StillLooping
<1>8. Silent' /\ Probing' /\ MergeAtEnd' /\ Complete'
  BY DEF Silent, Probing, MergeAtEnd, Complete
<1> QED BY <1>6, <1>7, <1>8 DEF IInv

\* Where the groups of the two cursors end.
LEMMA GroupsAt ==
    ASSUME IInv, Merging
    PROVE  /\ join \in Inputs /\ Chosen = "MERGE" /\ Left \in Nat /\ Right \in Nat
           /\ i \in 1..Left /\ j \in 1..Right
           /\ LeftGroupEnd \in i + 1..Left + 1 /\ RightGroupEnd \in j + 1..Right + 1
           /\ \A p \in i..LeftGroupEnd - 1 : CompareKeys(LeftKeys[p], LeftKeys[i]) = 0
           /\ \A q \in j..RightGroupEnd - 1 : CompareKeys(RightKeys[q], RightKeys[j]) = 0
           /\ \A p \in LeftGroupEnd..Left : CompareKeys(LeftKeys[i], LeftKeys[p]) < 0
           /\ \A q \in RightGroupEnd..Right : CompareKeys(RightKeys[j], RightKeys[q]) < 0
<1>1. /\ join \in Inputs /\ Chosen = "MERGE" /\ i \in 1..Left + 1 /\ j \in 1..Right + 1
      /\ i <= Left /\ j <= Right
  BY DEF IInv, MergeSoFar, Shape, Merging
<1>2. Left \in Nat /\ Right \in Nat
  BY <1>1, InputShape
<1>3. i \in 1..Left /\ j \in 1..Right
  BY <1>1, <1>2
<1>4. /\ LeftKeys \in [1..Left -> Cell] /\ RightKeys \in [1..Right -> Cell]
      /\ \A p, q \in 1..Left : p <= q => CompareKeys(LeftKeys[p], LeftKeys[q]) <= 0
      /\ \A p, q \in 1..Right : p <= q => CompareKeys(RightKeys[p], RightKeys[q]) <= 0
  BY <1>1, MergeOrders DEF Sorts
<1>5. /\ LeftGroupEnd \in i + 1..Left + 1
      /\ \A p \in i..LeftGroupEnd - 1 : CompareKeys(LeftKeys[p], LeftKeys[i]) = 0
      /\ \A p \in LeftGroupEnd..Left : CompareKeys(LeftKeys[i], LeftKeys[p]) < 0
  BY <1>2, <1>3, <1>4, GroupEndSplits DEF LeftGroupEnd
<1>6. /\ RightGroupEnd \in j + 1..Right + 1
      /\ \A q \in j..RightGroupEnd - 1 : CompareKeys(RightKeys[q], RightKeys[j]) = 0
      /\ \A q \in RightGroupEnd..Right : CompareKeys(RightKeys[j], RightKeys[q]) < 0
  BY <1>2, <1>3, <1>4, GroupEndSplits DEF RightGroupEnd
<1> QED BY <1>1, <1>2, <1>3, <1>5, <1>6

\* The cursors stand on equal keys: one left row is done, and with the last of
\* its group the right group too.
LEMMA SplitAfterGroup ==
    ASSUME IInv, Merging, CompareKeys(LeftKeys[i], RightKeys[j]) = 0
    PROVE  /\ SplitAt(i + 1, IF i + 1 = LeftGroupEnd THEN RightGroupEnd ELSE j)
           /\ \A q \in 1..Right : CompareKeys(LeftKeys[i], RightKeys[q]) = 0
                                   <=> q \in j..RightGroupEnd - 1
<1> DEFINE L(p) == LeftKeys[p]
           R(q) == RightKeys[q]
<1>1. /\ Left \in Nat /\ Right \in Nat /\ i \in 1..Left /\ j \in 1..Right
      /\ LeftGroupEnd \in i + 1..Left + 1 /\ RightGroupEnd \in j + 1..Right + 1
      /\ \A p \in i..LeftGroupEnd - 1 : CompareKeys(L(p), L(i)) = 0
      /\ \A q \in j..RightGroupEnd - 1 : CompareKeys(R(q), R(j)) = 0
      /\ \A p \in LeftGroupEnd..Left : CompareKeys(L(i), L(p)) < 0
      /\ \A q \in RightGroupEnd..Right : CompareKeys(R(j), R(q)) < 0
  BY GroupsAt
<1>2. /\ \A p \in 1..Left : L(p) \in Cell
      /\ \A q \in 1..Right : R(q) \in Cell
      /\ \A p, q \in 1..Left : p <= q => CompareKeys(L(p), L(q)) <= 0
      /\ \A p, q \in 1..Right : p <= q => CompareKeys(R(p), R(q)) <= 0
  BY OrdersAt, GroupsAt
<1>3. SplitAt(i, j)
  BY DEF IInv, MergeSoFar, Merging
<1> HIDE DEF L, R
<1>4. L(i) \in Cell /\ R(j) \in Cell /\ CompareKeys(L(i), R(j)) = 0
  BY <1>1, <1>2 DEF L, R
<1>5. ASSUME NEW q \in j..RightGroupEnd - 1 PROVE CompareKeys(L(i), R(q)) = 0
  <2>1. q \in 1..Right
    BY <1>1
  <2>2. R(q) \in Cell /\ CompareKeys(R(q), R(j)) = 0
    BY <1>1, <1>2, <2>1
  <2> QED BY <1>4, <2>2, KeysOrder
<1>6. ASSUME NEW p \in LeftGroupEnd..Left, NEW q \in 1..RightGroupEnd - 1
      PROVE  CompareKeys(L(p), R(q)) > 0
  <2>1. q \in 1..Right /\ p \in 1..Left /\ p \in i..Left
    BY <1>1
  <2>2. CASE q \in 1..j - 1
    BY <1>3, <2>1, <2>2 DEF SplitAt, L, R
  <2>3. CASE q \notin 1..j - 1
    <3>1. q \in j..RightGroupEnd - 1
      BY <1>1, <2>3
    <3>2. CompareKeys(L(i), R(q)) = 0 /\ CompareKeys(L(i), L(p)) < 0
      BY <1>1, <1>5, <3>1
    <3>3. L(p) \in Cell /\ R(q) \in Cell
      BY <1>2, <2>1
    <3>4. CompareKeys(R(q), L(i)) <= 0
      BY <1>4, <3>2, <3>3, KeysOrder
    <3>5. CompareKeys(R(q), L(p)) < 0
      BY <1>4, <3>2, <3>3, <3>4, KeysOrder
    <3> QED BY <3>3, <3>5, KeysOrder
  <2> QED BY <2>2, <2>3
<1>7. ASSUME NEW q \in RightGroupEnd..Right PROVE CompareKeys(L(i), R(q)) < 0
  <2>1. q \in 1..Right /\ R(q) \in Cell /\ CompareKeys(R(j), R(q)) < 0
    BY <1>1, <1>2
  <2> QED BY <1>4, <2>1, KeysOrder
<1>8. ASSUME NEW q \in 1..j - 1 PROVE CompareKeys(L(i), R(q)) > 0
  <2>1. i \in i..Left
    BY <1>1
  <2> QED BY <1>3, <2>1 DEF SplitAt, L, R
<1>9. ASSUME NEW q \in 1..Right
      PROVE  CompareKeys(L(i), R(q)) = 0 <=> q \in j..RightGroupEnd - 1
  <2>1. q \in 1..j - 1 \/ q \in j..RightGroupEnd - 1 \/ q \in RightGroupEnd..Right
    BY <1>1
  <2>2. CASE q \in 1..j - 1
    <3>1. q \notin j..RightGroupEnd - 1
      BY <1>1, <2>2
    <3>2. CompareKeys(L(i), R(q)) > 0
      BY <1>8, <2>2
    <3> QED BY <3>1, <3>2
  <2>3. CASE q \in RightGroupEnd..Right
    <3>1. q \notin j..RightGroupEnd - 1
      BY <1>1, <2>3
    <3>2. CompareKeys(L(i), R(q)) < 0
      BY <1>7, <2>3
    <3> QED BY <3>1, <3>2
  <2> QED BY <1>5, <2>1, <2>2, <2>3
<1>10. ASSUME NEW p \in 1..i, NEW q \in j..Right PROVE CompareKeys(L(p), R(q)) <= 0
  <2>1. p \in 1..Left /\ q \in 1..Right /\ p <= i /\ j <= q /\ i \in 1..Left /\ j \in 1..Right
    BY <1>1
  <2>2. L(p) \in Cell /\ R(q) \in Cell /\ CompareKeys(L(p), L(i)) <= 0 /\ CompareKeys(R(j), R(q)) <= 0
    BY <1>2, <2>1
  <2>3. CompareKeys(L(i), R(q)) <= 0
    BY <1>4, <2>2, KeysOrder
  <2> QED BY <1>4, <2>2, <2>3, KeysOrder
<1>11. CASE i + 1 = LeftGroupEnd
  <2>1. \A p \in 1..(i + 1) - 1, q \in RightGroupEnd..Right :
            CompareKeys(L(p), R(q)) <= 0 /\ CompareKeys(L(p), R(q)) # 0
    <3> SUFFICES ASSUME NEW p \in 1..i, NEW q \in RightGroupEnd..Right
                 PROVE  CompareKeys(L(p), R(q)) <= 0 /\ CompareKeys(L(p), R(q)) # 0
      BY <1>1
    <3>1. p \in 1..Left /\ q \in 1..Right /\ p <= i /\ i \in 1..Left
      BY <1>1
    <3>2. L(p) \in Cell /\ R(q) \in Cell /\ CompareKeys(L(p), L(i)) <= 0
      BY <1>2, <3>1
    <3>3. CompareKeys(L(p), R(q)) < 0
      BY <1>4, <1>7, <3>2, KeysOrder
    <3> QED BY <3>2, <3>3, KeysOrder
  <2>3. RightGroupEnd <= Right => RightGroupEnd \in RightGroupEnd..Right
    BY <1>1
  <2>4. SplitAt(i + 1, RightGroupEnd)
    BY <1>6, <1>11, <2>1, <2>3 DEF SplitAt, L, R
  <2> QED BY <1>9, <1>11, <2>4 DEF L, R
<1>12. CASE i + 1 # LeftGroupEnd
  <2>1. i + 1 \in i..LeftGroupEnd - 1 /\ i + 1 \in 1..Left /\ i + 1 <= Left
    BY <1>1, <1>12
  <2>2. CompareKeys(L(i + 1), L(i)) = 0 /\ L(i + 1) \in Cell
    BY <1>1, <1>2, <2>1
  <2>3. CompareKeys(L(i + 1), R(j)) = 0
    BY <1>4, <2>2, KeysOrder
  <2>4. \A p \in 1..(i + 1) - 1, q \in j..Right : CompareKeys(L(p), R(q)) <= 0
    BY <1>1, <1>10
  <2>5. \A p \in i + 1..Left, q \in 1..j - 1 : CompareKeys(L(p), R(q)) > 0
    <3>1. \A p \in i + 1..Left : p \in i..Left
      BY <1>1
    <3> QED BY <1>3, <3>1 DEF SplitAt, L, R
  <2>6. SplitAt(i + 1, j)
    BY <2>1, <2>3, <2>4, <2>5 DEF SplitAt, L, R
  <2> QED BY <1>9, <1>12, <2>6 DEF L, R
<1> QED BY <1>11, <1>12

\* The left key is the smaller: its group has no partner.
LEMMA SplitAfterLeft ==
    ASSUME IInv, Merging, CompareKeys(LeftKeys[i], RightKeys[j]) < 0
    PROVE  /\ \A i2 \in i + 1..LeftGroupEnd : SplitAt(i2, j)
           /\ \A p \in i..LeftGroupEnd - 1, q \in 1..Right :
                 CompareKeys(LeftKeys[p], RightKeys[q]) # 0
<1> DEFINE L(p) == LeftKeys[p]
           R(q) == RightKeys[q]
<1>1. /\ Left \in Nat /\ Right \in Nat /\ i \in 1..Left /\ j \in 1..Right
      /\ LeftGroupEnd \in i + 1..Left + 1
      /\ \A p \in i..LeftGroupEnd - 1 : CompareKeys(L(p), L(i)) = 0
  BY GroupsAt
<1>2. /\ \A p \in 1..Left : L(p) \in Cell
      /\ \A q \in 1..Right : R(q) \in Cell
      /\ \A p, q \in 1..Right : p <= q => CompareKeys(R(p), R(q)) <= 0
  BY OrdersAt, GroupsAt
<1>3. SplitAt(i, j)
  BY DEF IInv, MergeSoFar, Merging
<1> HIDE DEF L, R
<1>4. L(i) \in Cell /\ R(j) \in Cell /\ CompareKeys(L(i), R(j)) < 0
  BY <1>1, <1>2 DEF L, R
<1>5. ASSUME NEW p \in i..LeftGroupEnd - 1, NEW q \in j..Right
      PROVE  CompareKeys(L(p), R(q)) < 0
  <2>1. p \in 1..Left /\ q \in 1..Right /\ j <= q /\ j \in 1..Right
    BY <1>1
  <2>2. /\ L(p) \in Cell /\ R(q) \in Cell
        /\ CompareKeys(L(p), L(i)) = 0 /\ CompareKeys(R(j), R(q)) <= 0
    BY <1>1, <1>2, <2>1
  <2>3. CompareKeys(L(p), L(i)) <= 0
    BY <2>2
  <2>4. CompareKeys(L(p), R(j)) < 0
    BY <1>4, <2>2, <2>3, KeysOrder
  <2> QED BY <1>4, <2>2, <2>4, KeysOrder
<1>6. ASSUME NEW p \in i..LeftGroupEnd - 1, NEW q \in 1..Right
      PROVE  CompareKeys(L(p), R(q)) # 0
  <2>1. CASE q \in j..Right
    BY <1>5, <2>1
  <2>2. CASE q \notin j..Right
    <3>1. q \in 1..j - 1 /\ p \in i..Left
      BY <1>1, <2>2
    <3>2. CompareKeys(L(p), R(q)) > 0
      BY <1>3, <3>1 DEF SplitAt, L, R
    <3> QED BY <3>2
  <2> QED BY <2>1, <2>2
<1>7. ASSUME NEW i2 \in i + 1..LeftGroupEnd PROVE SplitAt(i2, j)
  <2>1. \A p \in 1..i2 - 1 : p \in 1..i - 1 \/ p \in i..LeftGroupEnd - 1
    BY <1>1
  <2>2. \A p \in 1..i2 - 1, q \in j..Right : CompareKeys(L(p), R(q)) <= 0
    <3> SUFFICES ASSUME NEW p \in 1..i2 - 1, NEW q \in j..Right
                 PROVE  CompareKeys(L(p), R(q)) <= 0
      OBVIOUS
    <3>1. CASE p \in 1..i - 1
      BY <1>3, <3>1 DEF SplitAt, L, R
    <3>2. CASE p \in i..LeftGroupEnd - 1
      <4>1. CompareKeys(L(p), R(q)) < 0
        BY <1>5, <3>2
      <4>2. L(p) \in Cell /\ R(q) \in Cell
        <5>1. p \in 1..Left /\ q \in 1..Right
          BY <1>1, <3>2
        <5> QED BY <1>2, <5>1
      <4> QED BY <4>1, <4>2, KeysOrder
    <3> QED BY <2>1, <3>1, <3>2
  <2>3. \A p \in 1..i2 - 1 : CompareKeys(L(p), R(j)) # 0
    <3> SUFFICES ASSUME NEW p \in 1..i2 - 1 PROVE CompareKeys(L(p), R(j)) # 0
      OBVIOUS
    <3>1. CASE p \in 1..i - 1
      <4>1. CompareKeys(L(i), R(j)) # 0
        BY <1>4
      <4>2. j <= Right
        BY <1>1
      <4> QED BY <1>3, <3>1, <4>1, <4>2 DEF SplitAt, L, R
    <3>2. CASE p \in i..LeftGroupEnd - 1
      BY <1>1, <1>6, <3>2
    <3> QED BY <2>1, <3>1, <3>2
  <2>4. \A p \in i2..Left, q \in 1..j - 1 : CompareKeys(L(p), R(q)) > 0
    <3>1. \A p \in i2..Left : p \in i..Left
      BY <1>1
    <3> QED BY <1>3, <3>1 DEF SplitAt, L, R
  <2> QED BY <2>2, <2>3, <2>4 DEF SplitAt, L, R
<1> QED BY <1>6, <1>7 DEF L, R

\* The right key is the smaller: its group has no partner.
LEMMA SplitAfterRight ==
    ASSUME IInv, Merging, CompareKeys(LeftKeys[i], RightKeys[j]) > 0
    PROVE  /\ SplitAt(i, RightGroupEnd)
           /\ \A q \in j..RightGroupEnd - 1, p \in 1..Left :
                 CompareKeys(LeftKeys[p], RightKeys[q]) # 0
<1> DEFINE L(p) == LeftKeys[p]
           R(q) == RightKeys[q]
<1>1. /\ Left \in Nat /\ Right \in Nat /\ i \in 1..Left /\ j \in 1..Right
      /\ RightGroupEnd \in j + 1..Right + 1
      /\ \A q \in j..RightGroupEnd - 1 : CompareKeys(R(q), R(j)) = 0
      /\ \A q \in RightGroupEnd..Right : CompareKeys(R(j), R(q)) < 0
  BY GroupsAt
<1>2. /\ \A p \in 1..Left : L(p) \in Cell
      /\ \A q \in 1..Right : R(q) \in Cell
      /\ \A p, q \in 1..Left : p <= q => CompareKeys(L(p), L(q)) <= 0
  BY OrdersAt, GroupsAt
<1>3. SplitAt(i, j)
  BY DEF IInv, MergeSoFar, Merging
<1> HIDE DEF L, R
<1>4. L(i) \in Cell /\ R(j) \in Cell /\ CompareKeys(R(j), L(i)) < 0 /\ CompareKeys(L(i), R(j)) # 0
  <2>1. L(i) \in Cell /\ R(j) \in Cell /\ CompareKeys(L(i), R(j)) > 0
    BY <1>1, <1>2 DEF L, R
  <2> QED BY <2>1, KeysOrder
<1>5. ASSUME NEW p \in 1..i - 1 PROVE p \in 1..Left /\ L(p) \in Cell /\ CompareKeys(L(p), R(j)) < 0
  <2>1. p \in 1..Left /\ j \in j..Right /\ j <= Right
    BY <1>1
  <2>2. CompareKeys(L(p), R(j)) <= 0 /\ CompareKeys(L(p), R(j)) # 0
    BY <1>3, <1>4, <2>1 DEF SplitAt, L, R
  <2> QED BY <1>2, <1>4, <2>1, <2>2, KeysOrder
<1>6. ASSUME NEW p \in i..Left, NEW q \in j..RightGroupEnd - 1
      PROVE  CompareKeys(L(p), R(q)) > 0
  <2>1. p \in 1..Left /\ q \in 1..Right /\ i \in 1..Left /\ i <= p
    BY <1>1
  <2>2. /\ L(p) \in Cell /\ R(q) \in Cell
        /\ CompareKeys(R(q), R(j)) = 0 /\ CompareKeys(L(i), L(p)) <= 0
    BY <1>1, <1>2, <2>1
  <2>3. CompareKeys(R(q), R(j)) <= 0
    BY <2>2
  <2>4. CompareKeys(R(q), L(i)) < 0
    BY <1>4, <2>2, <2>3, KeysOrder
  <2>5. CompareKeys(R(q), L(p)) < 0
    BY <1>4, <2>2, <2>4, KeysOrder
  <2> QED BY <2>2, <2>5, KeysOrder
<1>7. ASSUME NEW q \in j..RightGroupEnd - 1, NEW p \in 1..Left
      PROVE  CompareKeys(L(p), R(q)) # 0
  <2>1. CASE p \in i..Left
    BY <1>6, <2>1
  <2>2. CASE p \notin i..Left
    <3>1. p \in 1..i - 1 /\ q \in 1..Right
      BY <1>1, <2>2
    <3>2. CompareKeys(L(p), R(j)) < 0 /\ CompareKeys(R(q), R(j)) = 0 /\ L(p) \in Cell /\ R(q) \in Cell
      BY <1>1, <1>2, <1>5, <3>1
    <3>3. CompareKeys(R(j), R(q)) <= 0
      BY <1>4, <3>2, KeysOrder
    <3>4. CompareKeys(L(p), R(q)) < 0
      BY <1>4, <3>2, <3>3, KeysOrder
    <3> QED BY <3>4
  <2> QED BY <2>1, <2>2
<1>8. ASSUME NEW p \in 1..i - 1, NEW q \in RightGroupEnd..Right
      PROVE  CompareKeys(L(p), R(q)) <= 0 /\ CompareKeys(L(p), R(q)) # 0
  <2>1. q \in 1..Right
    BY <1>1
  <2>2. L(p) \in Cell /\ R(q) \in Cell /\ CompareKeys(R(j), R(q)) < 0
    BY <1>1, <1>2, <1>5, <2>1
  <2>3. CompareKeys(R(j), R(q)) <= 0
    BY <1>4, <2>2, KeysOrder
  <2>4. CompareKeys(L(p), R(q)) < 0
    BY <1>4, <1>5, <2>2, <2>3, KeysOrder
  <2> QED BY <2>2, <2>4, KeysOrder
<1>9. ASSUME NEW p \in i..Left, NEW q \in 1..RightGroupEnd - 1
      PROVE  CompareKeys(L(p), R(q)) > 0
  <2>1. q \in 1..j - 1 \/ q \in j..RightGroupEnd - 1
    BY <1>1
  <2>2. CASE q \in 1..j - 1
    BY <1>3, <2>2 DEF SplitAt, L, R
  <2> QED BY <1>6, <2>1, <2>2
<1>10. RightGroupEnd <= Right => RightGroupEnd \in RightGroupEnd..Right
  BY <1>1
<1>11. SplitAt(i, RightGroupEnd)
  BY <1>8, <1>9, <1>10 DEF SplitAt, L, R
<1> QED BY <1>7, <1>11 DEF L, R

\* One side is used up: what is left of the other has no partner, and right
\* keys that are left are larger than every left key.
LEMMA SplitAtEnd ==
    ASSUME IInv, phase = "MERGE", ~Merging
    PROVE  /\ \A p \in i..Left, q \in 1..Right : CompareKeys(LeftKeys[p], RightKeys[q]) # 0
           /\ \A q \in j..Right, p \in 1..Left : CompareKeys(LeftKeys[p], RightKeys[q]) < 0
           /\ i > Left \/ j > Right
<1>1. /\ join \in Inputs /\ i \in 1..Left + 1 /\ j \in 1..Right + 1 /\ SplitAt(i, j)
  BY DEF IInv, Shape, MergeSoFar
<1>2. /\ Left \in Nat /\ Right \in Nat
      /\ \A p \in 1..Left : LeftKeys[p] \in Cell
      /\ \A q \in 1..Right : RightKeys[q] \in Cell
      /\ \A p, q \in 1..Right : p <= q => CompareKeys(RightKeys[p], RightKeys[q]) <= 0
  BY <1>1, OrdersAt
<1>3. i > Left \/ j > Right
  BY <1>1, <1>2 DEF Merging
<1>4. ASSUME NEW p \in i..Left, NEW q \in 1..Right PROVE CompareKeys(LeftKeys[p], RightKeys[q]) # 0
  <2>1. q \in 1..j - 1
    BY <1>1, <1>2, <1>3
  <2>2. CompareKeys(LeftKeys[p], RightKeys[q]) > 0
    BY <1>1, <2>1 DEF SplitAt
  <2> QED BY <2>2
<1>5. ASSUME NEW q \in j..Right, NEW p \in 1..Left PROVE CompareKeys(LeftKeys[p], RightKeys[q]) < 0
  <2>1. /\ p \in 1..i - 1 /\ ~(i <= Left) /\ j <= Right /\ j \in j..Right /\ j \in 1..Right
        /\ q \in 1..Right /\ j <= q
    BY <1>1, <1>2, <1>3
  <2>2. CompareKeys(LeftKeys[p], RightKeys[j]) <= 0 /\ CompareKeys(LeftKeys[p], RightKeys[j]) # 0
    BY <1>1, <2>1 DEF SplitAt
  <2>3. CompareKeys(LeftKeys[p], RightKeys[j]) < 0
    BY <1>2, <2>1, <2>2, KeysOrder
  <2>4. CompareKeys(RightKeys[j], RightKeys[q]) <= 0
    BY <1>2, <2>1
  <2> QED BY <1>2, <2>1, <2>3, <2>4, KeysOrder
<1> QED BY <1>3, <1>4, <1>5

\* Some positions of a merge order, in that order.
LEMMA PositionsInOrder ==
    ASSUME NEW n \in Nat, NEW order \in [1..n -> 1..n], Lists(order, 1..n),
           NEW hits \in SUBSET (1..n)
    PROVE  LET inOrder == Ascending(hits)
           IN  Lists([h \in DOMAIN inOrder |-> order[inOrder[h]]], {order[q] : q \in hits})
<1> DEFINE inOrder == Ascending(hits)
           f == [h \in DOMAIN inOrder |-> order[inOrder[h]]]
           T == {order[q] : q \in hits}
<1>1. Lists(inOrder, hits)
  BY AscendingPositions
<1> HIDE DEF inOrder
<1>2. /\ Len(inOrder) \in Nat /\ DOMAIN inOrder = 1..Len(inOrder)
      /\ \A h \in 1..Len(inOrder) : inOrder[h] \in hits
      /\ \A x \in hits : \E h \in 1..Len(inOrder) : inOrder[h] = x
      /\ \A h, k \in 1..Len(inOrder) : inOrder[h] = inOrder[k] => h = k
  BY <1>1, ListsAt
<1>3. \A a, b \in 1..n : order[a] = order[b] => a = b
  <2>1. Len(order) = n
    BY DEF Lists
  <2> QED BY <2>1, ListsAt
<1> DEFINE m == Len(inOrder)
<1>4. m \in Nat /\ f = [h \in 1..m |-> f[h]] /\ \A h \in 1..m : f[h] = order[inOrder[h]]
  BY <1>2
<1> HIDE DEF f, m
<1>5. \A h \in 1..m : inOrder[h] \in hits /\ inOrder[h] \in 1..n
  BY <1>2 DEF m
<1>6. \A h \in 1..m : f[h] \in T
  BY <1>4, <1>5
<1>7. \A x \in T : \E h \in 1..m : f[h] = x
  BY <1>2, <1>4 DEF m
<1>8. \A h, k \in 1..m : f[h] = f[k] => h = k
  BY <1>2, <1>3, <1>4, <1>5 DEF m
<1> HIDE DEF T
<1>9. Lists(f, T)
  BY <1>4, <1>6, <1>7, <1>8, ListsFunction
<1> QED BY <1>9 DEF f, T, inOrder

\* A left row of a group and the right rows of its group.
LEMMA GroupRows ==
    ASSUME IInv, Merging, CompareKeys(LeftKeys[i], RightKeys[j]) = 0
    PROVE  LET hits == {q \in j..RightGroupEnd - 1 : Holds(LeftOrder[i], RightOrder[q])}
           IN  /\ hits = j..RightGroupEnd - 1 /\ hits # {}
               /\ \A q \in hits : RightOrder[q] \in 1..Right
               /\ Partners(1, LeftOrder[i]) = {RightOrder[q] : q \in hits}
               /\ LeftStretch(i, i) = RowsAt(PhysicalAnswer, 1, LeftOrder[i])
               /\ LeftStretch(i, i) = {Row(1, LeftOrder[i], b) : b \in Partners(1, LeftOrder[i])}
               /\ RightStretch(j, RightGroupEnd - 1) = {}
<1> DEFINE l == LeftOrder[i]
           hits == {q \in j..RightGroupEnd - 1 : Holds(l, RightOrder[q])}
<1>1. /\ join \in Inputs /\ Chosen = "MERGE" /\ Left \in Nat /\ Right \in Nat
      /\ i \in 1..Left /\ j \in 1..Right /\ RightGroupEnd \in j + 1..Right + 1
  BY GroupsAt
<1>2. \A q \in 1..Right : CompareKeys(LeftKeys[i], RightKeys[q]) = 0 <=> q \in j..RightGroupEnd - 1
  BY SplitAfterGroup
<1>3. /\ l \in 1..Left
      /\ \A q \in 1..Right : RightOrder[q] \in 1..Right
      /\ \A r \in 1..Right : \E q \in 1..Right : RightOrder[q] = r
  BY <1>1, OrdersAt
<1>4. \A q \in 1..Right : <<l, RightOrder[q]>> \in Matching <=> q \in j..RightGroupEnd - 1
  BY <1>1, <1>2, MergeMatching
<1>5. \A q \in j..RightGroupEnd - 1 : q \in 1..Right
  BY <1>1
<1>6. \A q \in j..RightGroupEnd - 1 : Holds(l, RightOrder[q])
  BY <1>1, <1>3, <1>4, <1>5, MergeMatching
<1>7. hits = j..RightGroupEnd - 1
  BY <1>6
<1>8. j \in hits
  BY <1>1, <1>7
<1> HIDE DEF hits, l
<1>9. Partners(1, l) = {RightOrder[q] : q \in hits}
  <2>1. \A r \in 1..Right : <<l, r>> \in Matching => \E q \in hits : r = RightOrder[q]
    BY <1>3, <1>4, <1>7
  <2>2. \A q \in hits : RightOrder[q] \in 1..Right /\ <<l, RightOrder[q]>> \in Matching
    BY <1>3, <1>4, <1>5, <1>7
  <2> QED BY <2>1, <2>2 DEF Partners, Row
<1>10. LeftStretch(i, i) = RowsAt(PhysicalAnswer, 1, l)
  <2>1. i..i = {i}
    BY <1>1
  <2> QED BY <2>1 DEF LeftStretch, RowsAt, l
<1>11. RowsAt(PhysicalAnswer, 1, l) = {Row(1, l, b) : b \in Partners(1, l)}
  <2>1. Partners(1, l) # {}
    BY <1>8, <1>9
  <2> QED BY <1>1, <1>3, <2>1, RowsOfPosition
<1>12. RightStretch(j, RightGroupEnd - 1) = {}
  <2> SUFFICES ASSUME NEW row \in RightStretch(j, RightGroupEnd - 1) PROVE FALSE
    OBVIOUS
  <2>1. PICK q \in j..RightGroupEnd - 1 : row \in PhysicalAnswer /\ row[1] = 0 /\ row[2] = RightOrder[q]
    BY DEF RightStretch
  <2>2. RightOrder[q] \in 1..Right /\ <<l, RightOrder[q]>> \in Matching
    BY <1>3, <1>4, <1>5
  <2>3. row = <<0, RightOrder[q]>>
    BY <1>1, <2>1, PhysicalRows
  <2> QED BY <1>1, <1>3, <2>1, <2>2, <2>3, PhysicalRows
<1>13. \A q \in hits : RightOrder[q] \in 1..Right
  BY <1>3, <1>5, <1>7
<1> QED BY <1>7, <1>8, <1>9, <1>10, <1>11, <1>12, <1>13 DEF hits, l

\* One left row of a group against its right rows.
LEMMA MergeGroupIInv ==
    ASSUME IInv, MergeGroup
    PROVE  IInv'
<1> DEFINE l == LeftOrder[i]
           hits == {q \in j..RightGroupEnd - 1 : Holds(l, RightOrder[q])}
           inOrder == Ascending(hits)
           rights == [h \in DOMAIN inOrder |-> RightOrder[inOrder[h]]]
           group == {RightOrder[q] : q \in hits}
           i2 == i + 1
           j2 == IF i + 1 = LeftGroupEnd THEN RightGroupEnd ELSE j
<1>1. /\ Merging /\ CompareKeys(LeftKeys[i], RightKeys[j]) = 0
      /\ out' = out \o (IF hits = {} THEN IF KeepsLeft THEN << <<l, 0>> >> ELSE <<>>
                         ELSE WithLeft(l, rights))
      /\ matched' = IF KeepsRight THEN matched \cup group ELSE matched
      /\ i' = i2 /\ j' = j2 /\ join' = join /\ phase' = phase /\ cursor' = cursor
      /\ phase = "MERGE"
  BY DEF MergeGroup, Emit, Merging
<1>2. /\ join \in Inputs /\ Left \in Nat /\ Right \in Nat
      /\ i \in 1..Left /\ j \in 1..Right
      /\ RightGroupEnd \in j + 1..Right + 1
  BY <1>1, GroupsAt
<1>3. /\ hits = j..RightGroupEnd - 1 /\ hits # {}
      /\ \A q \in hits : RightOrder[q] \in 1..Right
      /\ Partners(1, l) = group
      /\ LeftStretch(i, i) = {Row(1, l, b) : b \in Partners(1, l)}
      /\ RightStretch(j, RightGroupEnd - 1) = {}
  BY <1>1, GroupRows
<1>4. SplitAt(i2, j2)
  BY <1>1, SplitAfterGroup
<1>5. hits \in SUBSET (1..Right)
  BY <1>2, <1>3
<1>6. RightOrder \in [1..Right -> 1..Right] /\ Lists(RightOrder, 1..Right)
  BY <1>2, MergeOrders DEF Sorts
<1> HIDE DEF hits
<1>7. Lists(rights, group)
  BY <1>2, <1>5, <1>6, PositionsInOrder
<1> HIDE DEF rights, inOrder
<1>8. Lists(WithLeft(l, rights), {Row(1, l, b) : b \in group})
  <2>1. Lists(Beside(1, l, rights), {Row(1, l, b) : b \in group})
    BY <1>7, BesideLists
  <2> QED BY <2>1 DEF Beside
<1> HIDE DEF group, l
<1>9. RightStretch(j, j2 - 1) = {}
  <2>1. CASE i + 1 = LeftGroupEnd
    BY <1>3, <2>1
  <2>2. CASE i + 1 # LeftGroupEnd
    <3>1. j2 = j /\ j..j - 1 = {}
      BY <1>2, <2>2
    <3> QED BY <3>1 DEF RightStretch
  <2> QED BY <2>1, <2>2
<1>10. i2 - 1 = i /\ i2 \in i..Left + 1 /\ j2 \in j..Right + 1
  BY <1>2
<1>11. KeepsRight => \A q \in j..j2 - 1 : RightOrder[q] \in matched'
  <2>1. j..j2 - 1 \subseteq j..RightGroupEnd - 1
    BY <1>2
  <2> QED BY <1>1, <1>3, <2>1 DEF group
<1>12. matched' \subseteq Nat \ {0} /\ matched \subseteq matched'
  <2>1. matched \subseteq Nat \ {0}
    BY DEF IInv, Shape
  <2>2. group \subseteq Nat \ {0}
    BY <1>2, <1>3 DEF group
  <2> QED BY <1>1, <2>1, <2>2
<1>13. PICK a \in i..Left + 1, b \in j..Right + 1 : a = i2 /\ b = j2
  BY <1>10
<1>14. Lists(WithLeft(l, rights), LeftStretch(i, a - 1) \cup RightStretch(j, b - 1))
  BY <1>3, <1>8, <1>9, <1>10, <1>13
<1>15. out' = out \o WithLeft(l, rights)
  BY <1>1, <1>3
<1>16. /\ i' = a /\ j' = b /\ SplitAt(a, b)
       /\ KeepsRight => \A q \in j..b - 1 : RightOrder[q] \in matched'
  BY <1>1, <1>4, <1>11, <1>13
<1> HIDE DEF i2, j2
<1> QED BY <1>1, <1>12, <1>14, <1>15, <1>16, MergeTurn

\* A left key without a partner.
LEMMA MergeLeftIInv ==
    ASSUME IInv, MergeLeft
    PROVE  IInv'
<1> DEFINE rows == IF KeepsLeft THEN WithRight(0, Stretch(LeftOrder, i, LeftGroupEnd - 1)) ELSE <<>>
           i2 == IF KeepsLeft THEN LeftGroupEnd ELSE i + 1
<1>1. /\ Merging /\ CompareKeys(LeftKeys[i], RightKeys[j]) < 0
      /\ out' = out \o rows /\ i' = i2
      /\ join' = join /\ phase' = phase /\ j' = j /\ matched' = matched /\ cursor' = cursor
      /\ phase = "MERGE"
  BY DEF MergeLeft, Emit, Merging
<1>2. /\ join \in Inputs /\ Chosen = "MERGE" /\ Left \in Nat /\ Right \in Nat
      /\ i \in 1..Left /\ j \in 1..Right
      /\ LeftGroupEnd \in i + 1..Left + 1
  BY <1>1, GroupsAt
<1>3. /\ \A e \in i + 1..LeftGroupEnd : SplitAt(e, j)
      /\ \A p \in i..LeftGroupEnd - 1, q \in 1..Right :
            CompareKeys(LeftKeys[p], RightKeys[q]) # 0
  BY <1>1, SplitAfterLeft
<1>4. PICK a \in i..Left + 1, b \in j..Right + 1 : a = i2 /\ b = j
  BY <1>2
<1>5. a \in i + 1..LeftGroupEnd /\ SplitAt(a, b) /\ i' = a /\ j' = b
  BY <1>1, <1>2, <1>3, <1>4
<1>6. RightStretch(j, b - 1) = {}
  <2>1. j..b - 1 = {}
    BY <1>2, <1>4
  <2> QED BY <2>1 DEF RightStretch
<1>7. Lists(rows, LeftStretch(i, a - 1))
  <2>1. PICK to \in i - 1..Left : to = a - 1
    BY <1>2, <1>5
  <2>2. \A p \in i..to, q \in 1..Right : CompareKeys(LeftKeys[p], RightKeys[q]) # 0
    BY <1>2, <1>3, <1>5, <2>1
  <2>3. i \in 1..Left + 1
    BY <1>2
  <2>4. /\ KeepsLeft => Lists(WithRight(0, Stretch(LeftOrder, i, to)), LeftStretch(i, to))
        /\ ~KeepsLeft => LeftStretch(i, to) = {}
    BY <1>2, <2>2, <2>3, LonelyLeftStretch
  <2>5. KeepsLeft => rows = WithRight(0, Stretch(LeftOrder, i, to))
    BY <1>4, <2>1
  <2>6. ~KeepsLeft => rows = <<>>
    OBVIOUS
  <2> HIDE DEF rows
  <2> QED BY <2>1, <2>4, <2>5, <2>6, ListsEmpty
<1>8. Lists(rows, LeftStretch(i, a - 1) \cup RightStretch(j, b - 1))
  BY <1>6, <1>7
<1>9. matched' \subseteq Nat \ {0} /\ matched \subseteq matched'
  BY <1>1 DEF IInv, Shape
<1>10. KeepsRight => \A q \in j..b - 1 : RightOrder[q] \in matched'
  BY <1>2, <1>4
<1> HIDE DEF rows, i2
<1> QED BY <1>1, <1>5, <1>8, <1>9, <1>10, MergeTurn

\* A right key without a partner.
LEMMA MergeRightIInv ==
    ASSUME IInv, MergeRight
    PROVE  IInv'
<1> DEFINE rights == Stretch(RightOrder, j, RightGroupEnd - 1)
           rows == IF KeepsRight THEN WithLeft(0, rights) ELSE <<>>
<1>1. /\ Merging /\ CompareKeys(LeftKeys[i], RightKeys[j]) > 0
      /\ out' = out \o rows /\ j' = RightGroupEnd
      /\ matched' = IF KeepsRight THEN matched \cup Range(rights) ELSE matched
      /\ join' = join /\ phase' = phase /\ i' = i /\ cursor' = cursor
      /\ phase = "MERGE"
  BY DEF MergeRight, Emit, Merging
<1>2. /\ join \in Inputs /\ Chosen = "MERGE" /\ Left \in Nat /\ Right \in Nat
      /\ i \in 1..Left /\ j \in 1..Right
      /\ RightGroupEnd \in j + 1..Right + 1
  BY <1>1, GroupsAt
<1>3. /\ SplitAt(i, RightGroupEnd)
      /\ \A q \in j..RightGroupEnd - 1, p \in 1..Left :
            CompareKeys(LeftKeys[p], RightKeys[q]) # 0
  BY <1>1, SplitAfterRight
<1>4. PICK a \in i..Left + 1, b \in j..Right + 1, to \in j - 1..Right :
          a = i /\ b = RightGroupEnd /\ to = b - 1
  BY <1>2
<1>5. SplitAt(a, b) /\ i' = a /\ j' = b
  BY <1>1, <1>3, <1>4
<1>6. LeftStretch(i, a - 1) = {}
  <2>1. i..a - 1 = {}
    BY <1>2, <1>4
  <2> QED BY <2>1 DEF LeftStretch
<1>7. rights = Stretch(RightOrder, j, to)
  BY <1>4
<1>8. Lists(rows, RightStretch(j, b - 1))
  <2>1. \A q \in j..to, p \in 1..Left : CompareKeys(LeftKeys[p], RightKeys[q]) # 0
    BY <1>3, <1>4
  <2>2. j \in 1..Right + 1
    BY <1>2
  <2>3. /\ KeepsRight => Lists(WithLeft(0, Stretch(RightOrder, j, to)), RightStretch(j, to))
        /\ ~KeepsRight => RightStretch(j, to) = {}
    BY <1>2, <2>1, <2>2, LonelyRightStretch
  <2> HIDE DEF rights
  <2> QED BY <1>4, <1>7, <2>3, ListsEmpty
<1>9. Range(rights) = {RightOrder[q] : q \in j..to}
  <2>1. RightOrder \in [1..Right -> 1..Right] /\ Lists(RightOrder, 1..Right)
    BY <1>2, MergeOrders DEF Sorts
  <2>2. j \in 1..Right + 1
    BY <1>2
  <2>3. Lists(Stretch(RightOrder, j, to), {RightOrder[q] : q \in j..to})
    BY <1>2, <2>1, <2>2, StretchLists
  <2> QED BY <1>7, <2>3 DEF Lists
<1>10. matched' \subseteq Nat \ {0} /\ matched \subseteq matched'
  <2>1. matched \subseteq Nat \ {0}
    BY DEF IInv, Shape
  <2>2. \A q \in j..to : RightOrder[q] \in 1..Right
    BY <1>2, <1>4, OrdersAt
  <2>3. Range(rights) \subseteq Nat \ {0}
    BY <1>2, <1>9, <2>2
  <2> HIDE DEF rights
  <2> QED BY <1>1, <2>1, <2>3
<1>11. KeepsRight => \A q \in j..b - 1 : RightOrder[q] \in matched'
  BY <1>1, <1>4, <1>9
<1>12. Lists(rows, LeftStretch(i, a - 1) \cup RightStretch(j, b - 1))
  BY <1>6, <1>8
<1> HIDE DEF rows, rights
<1> QED BY <1>1, <1>5, <1>10, <1>11, <1>12, MergeTurn

\* Every row of the answer shows a left position or is a right row alone.
LEMMA AllMerged ==
    ASSUME join \in Inputs, i \in 1..Left + 1, j \in 1..Right + 1
    PROVE  /\ PhysicalAnswer = MergedRows \cup (LeftStretch(i, Left) \cup RightStretch(j, Right))
           /\ MergedRows \cap (LeftStretch(i, Left) \cup RightStretch(j, Right)) = {}
           /\ LeftStretch(i, Left) \cap RightStretch(j, Right) = {}
<1>1. Left \in Nat /\ Right \in Nat
  BY OrdersAt
<1>2. PICK a \in i..Left + 1, b \in j..Right + 1 : a = Left + 1 /\ b = Right + 1
  BY <1>1
<1>3. a - 1 = Left /\ b - 1 = Right
  BY <1>1, <1>2
<1>4. /\ {row \in PhysicalAnswer :
             \/ \E p \in 1..Left : row[1] = LeftOrder[p]
             \/ row[1] = 0 /\ \E q \in 1..Right : row[2] = RightOrder[q]}
           = MergedRows \cup (LeftStretch(i, Left) \cup RightStretch(j, Right))
      /\ MergedRows \cap (LeftStretch(i, Left) \cup RightStretch(j, Right)) = {}
      /\ LeftStretch(i, Left) \cap RightStretch(j, Right) = {}
  BY <1>3, StretchesApart
<1>5. ASSUME NEW row \in PhysicalAnswer
      PROVE  \/ \E p \in 1..Left : row[1] = LeftOrder[p]
             \/ row[1] = 0 /\ \E q \in 1..Right : row[2] = RightOrder[q]
  <2>1. PICK l \in 0..Left, r \in 0..Right : row = <<l, r>> /\ row # <<0, 0>>
    BY PhysicalRows
  <2>2. l # 0 => l \in 1..Left
    BY <1>1
  <2>3. r # 0 => r \in 1..Right
    BY <1>1
  <2>4. row[1] = l /\ row[2] = r
    BY <2>1
  <2> QED BY <2>1, <2>2, <2>3, <2>4, OrdersAt
<1> QED BY <1>4, <1>5

\* What one side has left when the other is used up.
LEMMA MergeResidualIInv ==
    ASSUME IInv, MergeResidual
    PROVE  IInv'
<1> DEFINE lefts == IF KeepsLeft THEN WithRight(0, Stretch(LeftOrder, i, Left)) ELSE <<>>
           rights == IF KeepsRight THEN WithLeft(0, Stretch(RightOrder, j, Right)) ELSE <<>>
<1>1. /\ phase = "MERGE" /\ ~Merging /\ out' = out \o (lefts \o rights)
      /\ phase' = "MERGE_UNMATCHED"
      /\ i' = IF KeepsLeft THEN Left + 1 ELSE i
      /\ j' = IF KeepsRight THEN Right + 1 ELSE j
      /\ join' = join /\ matched' = matched /\ cursor' = cursor
  BY DEF MergeResidual, Emit
<1>2. /\ Shape /\ join \in Inputs /\ Chosen = "MERGE" /\ cursor = 0
      /\ i \in 1..Left + 1 /\ j \in 1..Right + 1 /\ Lists(out, MergedRows)
      /\ KeepsRight => \A q \in 1..j - 1 : RightOrder[q] \in matched
      /\ i \in Nat \ {0} /\ j \in Nat \ {0} /\ matched \subseteq Nat \ {0}
  BY <1>1 DEF IInv, MergeSoFar, Shape
<1>3. /\ Left \in Nat /\ Right \in Nat
      /\ \A r \in 1..Right : \E q \in 1..Right : RightOrder[q] = r
      /\ \A l \in 1..Left : \E p \in 1..Left : LeftOrder[p] = l
      /\ \A p \in 1..Left : LeftKeys[p] = join.left[LeftOrder[p]]
      /\ \A q \in 1..Right : RightKeys[q] = join.right[RightOrder[q]]
  BY <1>2, OrdersAt
<1>4. /\ \A p \in i..Left, q \in 1..Right : CompareKeys(LeftKeys[p], RightKeys[q]) # 0
      /\ \A q \in j..Right, p \in 1..Left : CompareKeys(LeftKeys[p], RightKeys[q]) < 0
  BY <1>1, SplitAtEnd
<1>5. Lists(lefts, LeftStretch(i, Left))
  <2>1. Left \in i - 1..Left
    BY <1>2, <1>3
  <2>2. /\ KeepsLeft => Lists(WithRight(0, Stretch(LeftOrder, i, Left)), LeftStretch(i, Left))
        /\ ~KeepsLeft => LeftStretch(i, Left) = {}
    BY <1>2, <1>4, <2>1, LonelyLeftStretch
  <2> QED BY <2>2, ListsEmpty
<1>6. Lists(rights, RightStretch(j, Right))
  <2>1. Right \in j - 1..Right
    BY <1>2, <1>3
  <2>2. \A q \in j..Right, p \in 1..Left : CompareKeys(LeftKeys[p], RightKeys[q]) # 0
    <3> SUFFICES ASSUME NEW q \in j..Right, NEW p \in 1..Left
                 PROVE  CompareKeys(LeftKeys[p], RightKeys[q]) # 0
      OBVIOUS
    <3>1. CompareKeys(LeftKeys[p], RightKeys[q]) < 0
      BY <1>4
    <3> QED BY <3>1
  <2>3. /\ KeepsRight => Lists(WithLeft(0, Stretch(RightOrder, j, Right)), RightStretch(j, Right))
        /\ ~KeepsRight => RightStretch(j, Right) = {}
    BY <1>2, <2>1, <2>2, LonelyRightStretch
  <2> QED BY <2>3, ListsEmpty
<1> HIDE DEF lefts, rights
<1>7. Lists(out', PhysicalAnswer)
  <2>1. Lists(lefts \o rights, LeftStretch(i, Left) \cup RightStretch(j, Right))
    BY <1>2, <1>5, <1>6, AllMerged, ListsConcat
  <2>2. Lists(out \o (lefts \o rights),
              MergedRows \cup (LeftStretch(i, Left) \cup RightStretch(j, Right)))
    BY <1>2, <2>1, AllMerged, ListsConcat
  <2> QED BY <1>1, <1>2, <2>2, AllMerged
<1>8. ASSUME KeepsRight, NEW r \in (1..Right) \ matched, NEW l \in 1..Left
      PROVE  CompareKeys(join.left[l], join.right[r]) < 0
  <2>1. PICK p \in 1..Left, q \in 1..Right : LeftOrder[p] = l /\ RightOrder[q] = r
    BY <1>3
  <2>2. q \notin 1..j - 1
    BY <1>2, <1>8, <2>1
  <2>3. q \in j..Right
    BY <1>2, <1>3, <2>2
  <2>4. CompareKeys(LeftKeys[p], RightKeys[q]) < 0
    BY <1>4, <2>3
  <2>5. LeftKeys[p] = join.left[l] /\ RightKeys[q] = join.right[r]
    BY <1>3, <2>1
  <2> QED BY <2>4, <2>5
<1>9. /\ Left' = Left /\ Right' = Right /\ KeepsRight' = KeepsRight
      /\ PhysicalAnswer' = PhysicalAnswer /\ Chosen' = Chosen
  BY <1>1, SameInputs
<1>10. MergeAtEnd'
  BY <1>1, <1>2, <1>7, <1>8, <1>9 DEF MergeAtEnd
<1>11. Shape'
  <2>1. i' \in Nat \ {0} /\ j' \in Nat \ {0}
    BY <1>1, <1>2, <1>3
  <2>2. phase' \in Phases
    BY <1>1 DEF Phases
  <2> QED BY <1>1, <1>2, <1>7, <2>1, <2>2, StillLooping
<1>12. Silent' /\ Probing' /\ MergeSoFar' /\ Complete'
  BY <1>1 DEF Silent, Probing, MergeSoFar, Complete
<1> QED BY <1>10, <1>11, <1>12 DEF IInv

\* The last pass repeats the right rows that the residual loop put out unmarked:
\* they are rows of the answer all the same.
LEMMA MergeUnmatchedIInv ==
    ASSUME IInv, MergeUnmatched
    PROVE  IInv'
<1> DEFINE lonely == (1..Right) \ matched
           rows == IF KeepsRight THEN WithLeft(0, Ascending(lonely)) ELSE <<>>
           shown == IF KeepsRight THEN {Row(1, 0, r) : r \in lonely} ELSE {}
<1>1. /\ phase = "MERGE_UNMATCHED" /\ phase' = "ready" /\ out' = out \o rows
      /\ join' = join /\ i' = i /\ j' = j /\ matched' = matched /\ cursor' = cursor
  BY DEF MergeUnmatched, Emit
<1>2. /\ Shape /\ join \in Inputs /\ Chosen = "MERGE" /\ cursor = 0
      /\ Lists(out, PhysicalAnswer)
      /\ KeepsRight => \A r \in lonely, l \in 1..Left :
                           CompareKeys(join.left[l], join.right[r]) < 0
      /\ out \in Seq((0..Left) \X (0..Right))
  BY <1>1 DEF IInv, MergeAtEnd, Shape
<1>3. Left \in Nat /\ Right \in Nat
  BY <1>2, InputShape
<1>4. Lists(rows, shown)
  <2>1. CASE KeepsRight
    <3>1. Lists(Ascending(lonely), lonely)
      BY <1>3, AscendingPositions
    <3>2. Lists(Beside(1, 0, Ascending(lonely)), {Row(1, 0, r) : r \in lonely})
      BY <3>1, BesideLists
    <3> QED BY <2>1, <3>2 DEF Beside
  <2>2. CASE ~KeepsRight
    BY <2>2, ListsEmpty
  <2> QED BY <2>1, <2>2
<1> HIDE DEF rows
<1>5. ASSUME NEW row \in shown
      PROVE  /\ KeepsRight /\ row \in PhysicalAnswer
             /\ \E r \in lonely : row = <<0, r>>
  <2>1. KeepsRight
    BY <1>5
  <2>2. PICK r \in lonely : row = <<0, r>>
    BY <1>5 DEF Row
  <2>3. \A l \in 1..Left : <<l, r>> \notin Matching
    <3> SUFFICES ASSUME NEW l \in 1..Left, <<l, r>> \in Matching PROVE FALSE
      OBVIOUS
    <3>1. CompareKeys(join.left[l], join.right[r]) = 0
      BY <1>2, <2>2, MatchingShape
    <3>2. CompareKeys(join.left[l], join.right[r]) < 0
      BY <1>2, <2>1, <2>2
    <3> QED BY <3>1, <3>2
  <2>4. row \in PhysicalAnswer
    BY <1>2, <2>1, <2>2, <2>3, PhysicalRows, MergeMatching
  <2> QED BY <2>1, <2>2, <2>4
<1> HIDE DEF shown
<1>6. shown \subseteq PhysicalAnswer /\ PhysicalAnswer \subseteq (0..Left) \X (0..Right)
  BY <1>2, <1>5, PhysicalRows
<1>7. out \in Seq(PhysicalAnswer) /\ rows \in Seq(PhysicalAnswer)
  BY <1>2, <1>4, <1>6, ListsTyped
<1>8. /\ Left' = Left /\ Right' = Right /\ KeepsRight' = KeepsRight
      /\ PhysicalAnswer' = PhysicalAnswer /\ Chosen' = Chosen
  BY <1>1, SameInputs
<1>9. Shape'
  <2>1. rows \in Seq((0..Left) \X (0..Right))
    BY <1>4, <1>6, ListsTyped
  <2>2. out' \in Seq((0..Left) \X (0..Right)) /\ Len(out') \in Nat
    BY <1>1, <1>2, <2>1
  <2> QED BY <1>1, <1>2, <1>8, <2>2 DEF Shape, Phases
<1>10. Range(out') = PhysicalAnswer'
  <2>1. Range(out') = Range(out) \cup Range(rows)
    BY <1>1, <1>7, RangeConcat
  <2>2. Range(out) = PhysicalAnswer /\ Range(rows) = shown
    BY <1>2, <1>4 DEF Lists
  <2> QED BY <1>6, <1>8, <2>1, <2>2
<1>11. RepeatsOnlyResidual'
  <2> DEFINE n == Len(out)
             m == Len(rows)
  <2>1. /\ n \in Nat /\ m \in Nat /\ DOMAIN out' = 1..n + m
        /\ \A h \in 1..n : out'[h] = out[h]
        /\ \A h \in n + 1..n + m : out'[h] = rows[h - n] /\ h - n \in 1..m
    <3>1. /\ n \in Nat /\ m \in Nat /\ Len(out \o rows) = n + m
          /\ DOMAIN (out \o rows) = 1..n + m
          /\ \A h \in 1..n : (out \o rows)[h] = out[h]
          /\ \A h \in n + 1..n + m : (out \o rows)[h] = rows[h - n] /\ h - n \in 1..m
      BY <1>7
    <3> QED BY <1>1, <3>1
  <2>2. /\ \A h, k \in 1..n : out[h] = out[k] => h = k
        /\ \A h, k \in 1..m : rows[h] = rows[k] => h = k
        /\ \A h \in 1..m : rows[h] \in shown
    BY <1>2, <1>4, ListsAt
  <2> HIDE DEF n, m
  <2> SUFFICES ASSUME NEW p \in 1..n + m, NEW q \in 1..n + m, p # q, out'[p] = out'[q]
               PROVE  /\ Chosen = "MERGE" /\ KeepsRight
                      /\ out'[p][1] = 0
                      /\ \A l \in 1..Left : CompareKeys(join.left[l], join.right[out'[p][2]]) < 0
    <3>1. \A p, q \in DOMAIN out' : p # q /\ out'[p] = out'[q] =>
              /\ Chosen = "MERGE" /\ KeepsRight
              /\ out'[p][1] = 0
              /\ \A l \in 1..Left : CompareKeys(join.left[l], join.right[out'[p][2]]) < 0
      BY <2>1
    <3>2. \A p, q \in DOMAIN out' : p # q /\ out'[p] = out'[q] =>
              /\ Chosen' = "MERGE" /\ KeepsRight'
              /\ out'[p][1] = 0
              /\ \A l \in 1..Left' : CompareKeys(join'.left[l], join'.right[out'[p][2]]) < 0
      BY <1>1, <1>8, <3>1
    <3> QED BY <3>2 DEF RepeatsOnlyResidual
  <2>3. \A h \in 1..n + m : h \in 1..n \/ h \in n + 1..n + m
    BY <2>1
  <2>4. ~(p \in 1..n /\ q \in 1..n)
    BY <2>1, <2>2
  <2>5. ~(p \in n + 1..n + m /\ q \in n + 1..n + m)
    <3> SUFFICES ASSUME p \in n + 1..n + m, q \in n + 1..n + m PROVE FALSE
      OBVIOUS
    <3>1. p - n = q - n
      BY <2>1, <2>2
    <3> QED BY <2>1, <3>1
  <2>6. out'[p] \in shown
    <3>1. CASE p \in n + 1..n + m
      BY <2>1, <2>2, <3>1
    <3>2. CASE q \in n + 1..n + m
      BY <2>1, <2>2, <3>2
    <3> QED BY <2>3, <2>4, <3>1, <3>2
  <2>7. PICK r \in lonely : out'[p] = <<0, r>> /\ KeepsRight
    BY <1>5, <2>6
  <2>8. out'[p][1] = 0 /\ out'[p][2] = r
    BY <2>7
  <2> QED BY <1>2, <2>7, <2>8
<1>12. Complete'
  BY <1>10, <1>11 DEF Complete
<1>13. Silent' /\ Probing' /\ MergeSoFar' /\ MergeAtEnd'
  BY <1>1 DEF Silent, Probing, MergeSoFar, MergeAtEnd
<1> QED BY <1>9, <1>12, <1>13 DEF IInv

\* Steps that leave the inputs and the output rows alone.
LEMMA RowsKept ==
    ASSUME join' = join, out' = out
    PROVE  RepeatsOnlyResidual' <=> RepeatsOnlyResidual
<1>1. /\ Left' = Left /\ KeepsRight' = KeepsRight /\ Chosen' = Chosen
  BY SameInputs
<1> QED BY <1>1 DEF RepeatsOnlyResidual

\* next() moves the cursor only.
LEMMA HandedOutIInv ==
    ASSUME IInv, NextRow \/ NoMoreRows
    PROVE  IInv'
<1>1. /\ phase = "ready" /\ phase' \in {"ready", "exhausted"}
      /\ join' = join /\ i' = i /\ j' = j /\ matched' = matched /\ out' = out
      /\ \/ cursor < Len(out) /\ cursor' = cursor + 1
         \/ cursor' = cursor
  BY DEF NextRow, NoMoreRows
<1>2. Left' = Left /\ Right' = Right /\ PhysicalAnswer' = PhysicalAnswer
  BY <1>1, SameInputs
<1>3. Shape /\ cursor \in 0..Len(out) /\ out \in Seq((0..Left) \X (0..Right))
  BY DEF IInv, Shape
<1>4. cursor' \in 0..Len(out')
  <2>1. Len(out) \in Nat
    BY <1>3
  <2> QED BY <1>1, <1>3, <2>1
<1>5. Shape'
  BY <1>1, <1>2, <1>3, <1>4 DEF Shape, Phases
<1>6. Complete'
  BY <1>1, <1>2, RowsKept DEF IInv, Complete
<1> QED BY <1>1, <1>5, <1>6 DEF IInv, Silent, Probing, MergeSoFar, MergeAtEnd

\* close() forgets the rows and the cursor.
LEMMA CloseIInv ==
    ASSUME IInv, Close
    PROVE  IInv'
<1>1. /\ phase' = "closed" /\ out' = <<>> /\ cursor' = 0
      /\ join' = join /\ i' = i /\ j' = j /\ matched' = matched
  BY DEF Close
<1>2. Left' = Left /\ Right' = Right
  BY <1>1, SameInputs
<1>3. Shape'
  <2>1. out' \in Seq((0..Left) \X (0..Right)) /\ Len(out') = 0
    BY <1>1
  <2> QED BY <1>1, <1>2, <2>1 DEF IInv, Shape, Phases
<1> QED BY <1>1, <1>3 DEF IInv, Silent, Probing, MergeSoFar, MergeAtEnd, Complete

\* Nothing changes.
LEMMA StutterIInv ==
    ASSUME IInv, UNCHANGED vars
    PROVE  IInv'
<1>1. /\ join' = join /\ phase' = phase /\ i' = i /\ j' = j /\ matched' = matched
      /\ out' = out /\ cursor' = cursor
  BY DEF vars
<1>2. /\ Left' = Left /\ Right' = Right /\ KeepsRight' = KeepsRight
      /\ PhysicalAnswer' = PhysicalAnswer /\ Chosen' = Chosen /\ Sound' = Sound
      /\ LeftOrder' = LeftOrder /\ RightOrder' = RightOrder /\ Matching' = Matching
      /\ LeftKeys' = LeftKeys /\ RightKeys' = RightKeys /\ BuildsRight' = BuildsRight
  BY <1>1, SameInputs
<1>3. Shape' /\ Silent'
  BY <1>1, <1>2 DEF IInv, Shape, Silent
<1>4. Probing'
  <2>1. LoopSide' = LoopSide
    BY <1>1, <1>2 DEF LoopSide
  <2>2. RowsUpTo(PhysicalAnswer, LoopSide, i - 1)' = RowsUpTo(PhysicalAnswer, LoopSide, i - 1)
    BY <1>1, <1>2, <2>1 DEF RowsUpTo
  <2>3. PartnersUpTo(LoopSide, i - 1)' = PartnersUpTo(LoopSide, i - 1)
    BY <1>1, <1>2, <2>1 DEF PartnersUpTo
  <2> QED BY <1>1, <1>2, <2>1, <2>2, <2>3 DEF IInv, Probing
<1>5. MergeSoFar'
  <2>1. MergedRows' = MergedRows
    BY <1>1, <1>2 DEF MergedRows
  <2>2. SplitAt(i, j)' <=> SplitAt(i, j)
    BY <1>1, <1>2 DEF SplitAt
  <2> QED BY <1>1, <1>2, <2>1, <2>2 DEF IInv, MergeSoFar
<1>6. MergeAtEnd'
  BY <1>1, <1>2 DEF IInv, MergeAtEnd
<1>7. Complete'
  BY <1>1, <1>2, RowsKept DEF IInv, Complete
<1> QED BY <1>3, <1>4, <1>5, <1>6, <1>7 DEF IInv

\* Every step keeps the invariant.
LEMMA NextIInv == IInv /\ [Next]_vars => IInv'
<1> SUFFICES ASSUME IInv, [Next]_vars PROVE IInv'
  OBVIOUS
<1>1. CASE Open
  BY <1>1, OpenIInv
<1>2. CASE NestedLoopRow \/ NestedLoopUnmatched
  BY <1>2, NestedLoopIInv
<1>3. CASE UnknownColumn
  BY <1>3, UnknownColumnIInv
<1>4. CASE HashProbe \/ HashUnmatched
  BY <1>4, HashIInv
<1>5. CASE MergeGroup
  BY <1>5, MergeGroupIInv
<1>6. CASE MergeLeft
  BY <1>6, MergeLeftIInv
<1>7. CASE MergeRight
  BY <1>7, MergeRightIInv
<1>8. CASE MergeResidual
  BY <1>8, MergeResidualIInv
<1>9. CASE MergeUnmatched
  BY <1>9, MergeUnmatchedIInv
<1>10. CASE NextRow \/ NoMoreRows
  BY <1>10, HandedOutIInv
<1>11. CASE Close
  BY <1>11, CloseIInv
<1>12. CASE UNCHANGED vars
  BY <1>12, StutterIInv
<1> QED BY <1>1, <1>2, <1>3, <1>4, <1>5, <1>6, <1>7, <1>8, <1>9, <1>10, <1>11, <1>12
        DEF Next, Loop

\* The invariant holds in every reachable state.
LEMMA Invariance == Spec => []IInv
BY InitIInv, NextIInv, PTL DEF Spec

----------------------------------------------------------------------------
(* Theorems *)

\* Every row put out is a pair of positions of the two inputs, and next() never
\* reads beyond the rows there are (outputRows_ and cursor_ of JoinExecutor).
THEOREM JoinTypes == Spec => []TypeOK
<1>1. IInv => TypeOK
  <2> SUFFICES ASSUME IInv PROVE TypeOK
    OBVIOUS
  <2>1. /\ Shape /\ join.left \in Seq(Cell) /\ join.right \in Seq(Cell)
        /\ i \in Nat /\ j \in Nat
    BY InputShape DEF IInv, Shape
  <2> QED BY <2>1 DEF Shape, Phases, TypeOK
<1> QED BY <1>1, Invariance, PTL

\* At every turn of the loops of runNestedLoopJoin, runHashJoin and
\* runMergeJoin exactly the rows of the answer that the loop has passed are out.
THEOREM OutputFollowsTheLoops == Spec => []OutputKeepsPace
<1>1. IInv => OutputKeepsPace
  <2> SUFFICES ASSUME IInv PROVE Range(out) = {row \in PhysicalAnswer : Passed(row)}
    BY DEF OutputKeepsPace
  <2>1. phase \in Phases
    BY DEF IInv, Shape
  <2>2. CASE phase \in {"NESTED_LOOP", "HASH"}
    <3>1. Range(out) = RowsUpTo(PhysicalAnswer, LoopSide, i - 1) /\ LoopSide \in {1, 2}
      BY <2>2 DEF IInv, Probing, Lists, LoopSide
    <3>2. \A row : Passed(row) <=> row[LoopSide] \in 1..i - 1
      BY <2>2 DEF Passed, LoopSide
    <3> QED BY <3>1, <3>2 DEF RowsUpTo
  <2>3. CASE phase = "MERGE"
    <3>1. Range(out) = MergedRows
      BY <2>3 DEF IInv, MergeSoFar, Lists
    <3>2. \A row : Passed(row) <=>
              \/ \E p \in 1..i - 1 : row[1] = LeftOrder[p]
              \/ row[1] = 0 /\ \E q \in 1..j - 1 : row[2] = RightOrder[q]
      BY <2>3 DEF Passed
    <3> QED BY <3>1, <3>2 DEF MergedRows
  <2>4. CASE phase \in {"MERGE_UNMATCHED", "ready", "exhausted"}
    <3>1. Range(out) = PhysicalAnswer
      BY <2>4 DEF IInv, MergeAtEnd, Complete, Lists
    <3>2. \A row : Passed(row)
      BY <2>4 DEF Passed
    <3> QED BY <3>1, <3>2
  <2>5. CASE phase \in {"new", "closed", "failed"}
    <3>1. out = <<>>
      BY <2>5 DEF IInv, Silent
    <3>2. Range(out) = {}
      BY <3>1 DEF Range
    <3>3. \A row : ~Passed(row)
      BY <2>5 DEF Passed
    <3> QED BY <3>2, <3>3
  <2> QED BY <2>1, <2>2, <2>3, <2>4, <2>5 DEF Phases
<1> QED BY <1>1, Invariance, PTL

\* No row is put out twice, but for the right rows beyond the last left key that
\* both the residual loop and the last pass of runMergeJoin put out.
THEOREM OnlyResidualRowsRepeat == Spec => []RepeatsOnlyResidual
<1>1. IInv => RepeatsOnlyResidual
  <2> SUFFICES ASSUME IInv PROVE RepeatsOnlyResidual
    OBVIOUS
  <2>1. CASE phase \in {"ready", "exhausted"}
    BY <2>1 DEF IInv, Complete
  <2>2. CASE phase \notin {"ready", "exhausted"}
    <3>1. IsInjective(out)
      <4>1. phase \in Phases
        BY DEF IInv, Shape
      <4>2. CASE phase \in {"new", "closed", "failed"}
        BY <4>2 DEF IInv, Silent, IsInjective
      <4>3. CASE phase \in {"NESTED_LOOP", "HASH"}
        BY <4>3 DEF IInv, Probing, Lists
      <4>4. CASE phase = "MERGE"
        BY <4>4 DEF IInv, MergeSoFar, Lists
      <4>5. CASE phase = "MERGE_UNMATCHED"
        BY <4>5 DEF IInv, MergeAtEnd, Lists
      <4> QED BY <2>2, <4>1, <4>2, <4>3, <4>4, <4>5 DEF Phases
    <3> QED BY <3>1 DEF RepeatsOnlyResidual, IsInjective
  <2> QED BY <2>1, <2>2
<1> QED BY <1>1, Invariance, PTL

\* Over cells with one spelling to a number the algorithm that chooseAlgorithm
\* picks from the sizes and the order of the inputs does not show in the answer.
THEOREM AlgorithmsAgree == Spec => []SizesKeepTheAnswer
<1>1. IInv => SizesKeepTheAnswer
  <2> SUFFICES ASSUME IInv, phase = "ready", OneSpelling, Sound,
                      ~(join.type = "RIGHT" /\ Chosen = "HASH")
               PROVE  Range(out) = Answer(join.type, Pairs(Holds), Left, Right)
    BY DEF SizesKeepTheAnswer
  <2>1. join \in Inputs /\ Range(out) = PhysicalAnswer /\ PhysicalType = join.type
    BY DEF IInv, Shape, Complete, PhysicalType
  <2>2. /\ Chosen \in {"NESTED_LOOP", "HASH", "MERGE"}
        /\ Chosen \in {"HASH", "MERGE"} => IsEqui
        /\ Matching \in SUBSET ((1..Left) \X (1..Right))
    BY <2>1, InputShape, MatchingShape
  <2>3. ASSUME NEW l \in 1..Left, NEW r \in 1..Right
        PROVE  <<l, r>> \in Matching <=> Holds(l, r)
    <3> DEFINE a == join.left[l]
               b == join.right[r]
    <3>1. a \in Cell /\ b \in Cell
      BY <2>1, InputShape
    <3>2. CompareCompiled(a, b) = 0 => a = b
      <4>1. /\ DOMAIN join.left = 1..Left /\ DOMAIN join.right = 1..Right
        BY <2>1, InputShape
      <4>2. a \in Range(join.left) /\ b \in Range(join.right)
        BY <4>1 DEF Range
      <4> QED BY <4>2 DEF OneSpelling
    <3>3. /\ a = b => CompareKeys(a, b) = 0
          /\ CompareKeys(a, b) = 0 => CompareCompiled(a, b) = 0
      BY <3>1, LevelKeysAreEqual DEF CompareKeys
    <3>4. CASE Chosen = "NESTED_LOOP"
      BY <2>1, <3>4, MatchingShape
    <3>5. CASE Chosen \in {"HASH", "MERGE"}
      <4>1. Holds(l, r) <=> CompareCompiled(a, b) = 0
        BY <2>1, <2>2, <3>5, EquiCondition
      <4>2. <<l, r>> \in Matching <=> IF Chosen = "HASH" THEN a = b ELSE CompareKeys(a, b) = 0
        BY <2>1, <3>5, MatchingShape
      <4> QED BY <3>2, <3>3, <4>1, <4>2
    <3> QED BY <2>2, <3>4, <3>5
  <2>4. Matching = Pairs(Holds)
    BY <2>2, <2>3 DEF Pairs
  <2> QED BY <2>1, <2>4 DEF PhysicalAnswer
<1> QED BY <1>1, Invariance, PTL

\* Every turn of a loop of open() leaves it fewer turns to take, so open() ends:
\* the cursors of runMergeJoin move on whichever of its branches is taken.
THEOREM OpenEnds == Spec => OpenProgresses
<1>1. IInv /\ [Next]_vars =>
        [TurnsLeft > 0 => TurnsLeft' < TurnsLeft /\ TurnsLeft' >= 0]_vars
  <2> SUFFICES ASSUME IInv, Next
               PROVE  TurnsLeft > 0 => TurnsLeft' < TurnsLeft /\ TurnsLeft' >= 0
    OBVIOUS
  <2>1. /\ join \in Inputs /\ Left \in Nat /\ Right \in Nat
        /\ i \in Nat \ {0} /\ j \in Nat \ {0}
    BY InputShape DEF IInv, Shape
  <2>2. ASSUME join' = join
        PROVE  Left' = Left /\ Right' = Right /\ Probe' = Probe
    BY <2>2, SameInputs
  <2>3. CASE Open \/ NextRow \/ NoMoreRows \/ Close
    <3>1. phase \in {"new", "ready", "exhausted"}
      BY <2>3 DEF Open, NextRow, NoMoreRows, Close
    <3>2. TurnsLeft = 0
      BY <3>1 DEF TurnsLeft
    <3> QED BY <3>2
  <2>4. CASE NestedLoopRow \/ UnknownColumn \/ NestedLoopUnmatched
    <3>1. /\ phase = "NESTED_LOOP" /\ join' = join /\ i \in 1..Left + 1
          /\ \/ phase' = phase /\ i' = i + 1 /\ i <= Left
             \/ phase' \in {"ready", "failed"}
      BY <2>4 DEF NestedLoopRow, UnknownColumn, NestedLoopUnmatched, IInv, Probing, LoopSide
    <3> QED BY <2>1, <2>2, <3>1 DEF TurnsLeft
  <2>5. CASE HashProbe \/ HashUnmatched
    <3>1. /\ phase = "HASH" /\ Chosen = "HASH" /\ join' = join
          /\ i \in 1..(IF LoopSide = 2 THEN Right ELSE Left) + 1
          /\ \/ phase' = phase /\ i' = i + 1 /\ i <= Len(Probe)
             \/ phase' = "ready"
      BY <2>5 DEF HashProbe, HashUnmatched, IInv, Probing
    <3>2. Len(Probe) = IF LoopSide = 2 THEN Right ELSE Left
      BY <2>1, <3>1, HashSides
    <3>3. TurnsLeft = Len(Probe) + 2 - i /\ Len(Probe') = Len(Probe)
      BY <2>2, <3>1 DEF TurnsLeft
    <3>4. TurnsLeft' = IF phase' = "HASH" THEN Len(Probe') + 2 - i' ELSE 0
      BY <3>1 DEF TurnsLeft
    <3>5. Len(Probe) \in Nat /\ i \in 1..Len(Probe) + 1
      BY <2>1, <3>1, <3>2
    <3> QED BY <3>1, <3>3, <3>4, <3>5
  <2>6. CASE MergeGroup \/ MergeLeft \/ MergeRight
    <3>1. Merging /\ phase = "MERGE" /\ join' = join /\ phase' = "MERGE"
      BY <2>6 DEF MergeGroup, MergeLeft, MergeRight, Merging
    <3>2. /\ i \in 1..Left /\ j \in 1..Right
          /\ LeftGroupEnd \in i + 1..Left + 1 /\ RightGroupEnd \in j + 1..Right + 1
      BY <3>1, GroupsAt
    <3>3. /\ i' \in i..Left + 1 /\ j' \in j..Right + 1
          /\ i' # i \/ j' # j
      <4>1. CASE MergeGroup
        BY <2>1, <3>2, <4>1 DEF MergeGroup
      <4>2. CASE MergeLeft
        BY <2>1, <3>2, <4>2 DEF MergeLeft
      <4>3. CASE MergeRight
        BY <2>1, <3>2, <4>3 DEF MergeRight
      <4> QED BY <2>6, <4>1, <4>2, <4>3
    <3>4. PICK a \in i..Left + 1, b \in j..Right + 1 : i' = a /\ j' = b
      BY <3>3
    <3>5. TurnsLeft = Left + Right + 4 - i - j /\ TurnsLeft' = Left + Right + 4 - a - b
      BY <2>2, <3>1, <3>4 DEF TurnsLeft
    <3> QED BY <2>1, <3>3, <3>4, <3>5
  <2>7. CASE MergeResidual
    <3>1. /\ phase = "MERGE" /\ phase' = "MERGE_UNMATCHED"
          /\ i \in 1..Left + 1 /\ j \in 1..Right + 1
      BY <2>7 DEF MergeResidual, IInv, MergeSoFar
    <3> QED BY <2>1, <3>1 DEF TurnsLeft
  <2>8. CASE MergeUnmatched
    <3>1. phase = "MERGE_UNMATCHED" /\ phase' = "ready"
      BY <2>8 DEF MergeUnmatched
    <3> QED BY <3>1 DEF TurnsLeft
  <2> QED BY <2>3, <2>4, <2>5, <2>6, <2>7, <2>8 DEF Next, Loop
<1> QED BY <1>1, Invariance, PTL DEF Spec, OpenProgresses

\* What RelationalJoin is told of a join.
Query == [type |-> PhysicalType, pairs |-> Matching,
          left |-> Left, right |-> Right, sound |-> Sound]

Status == CASE phase = "exhausted" -> "ended"
            [] phase = "closed"    -> "closed"
            [] phase = "failed"    -> "failed"
            [] OTHER               -> "open"

\* The rows next() has handed out.
LEMMA DeliveredRows ==
    ASSUME Shape
    PROVE  /\ cursor = 0 => Delivered = {}
           /\ cursor < Len(out) /\ cursor' = cursor + 1 /\ out' = out
                 => Delivered' = Delivered \cup {out[cursor + 1]}
           /\ cursor = Len(out) => Delivered = Range(out)
<1>1. cursor \in 0..Len(out) /\ out \in Seq((0..Left) \X (0..Right))
  BY DEF Shape
<1>2. Len(out) \in Nat /\ DOMAIN out = 1..Len(out)
  BY <1>1
<1>3. cursor = 0 => Delivered = {}
  <2>1. 1..0 = {}
    OBVIOUS
  <2> QED BY <2>1 DEF Delivered
<1>4. ASSUME cursor < Len(out), cursor' = cursor + 1, out' = out
      PROVE  Delivered' = Delivered \cup {out[cursor + 1]}
  <2>1. 1..cursor + 1 = 1..cursor \cup {cursor + 1}
    BY <1>1, <1>2
  <2> QED BY <1>4, <2>1 DEF Delivered
<1>5. cursor = Len(out) => Delivered = Range(out)
  BY <1>2 DEF Delivered, Range
<1> QED BY <1>3, <1>4, <1>5

\* Open() and its loops deliver nothing.
LEMMA SilentRefines ==
    ASSUME IInv, IInv', Open \/ (Loop /\ ~UnknownColumn)
    PROVE  Query' = Query /\ Delivered' = Delivered /\ Status' = Status
<1>1. /\ join' = join /\ phase \notin {"ready", "exhausted", "closed", "failed"}
      /\ phase' \notin {"exhausted", "closed", "failed"}
      /\ cursor' \in {cursor, 0}
  <2>1. CASE Open
    <3>1. join \in Inputs
      BY DEF IInv, Shape
    <3> QED BY <2>1, <3>1, InputShape DEF Open
  <2>2. CASE NestedLoopRow \/ NestedLoopUnmatched
    BY <2>2 DEF NestedLoopRow, NestedLoopUnmatched
  <2>3. CASE HashProbe \/ HashUnmatched
    BY <2>3 DEF HashProbe, HashUnmatched
  <2>4. CASE MergeGroup \/ MergeLeft \/ MergeRight
    BY <2>4 DEF MergeGroup, MergeLeft, MergeRight, Merging
  <2>5. CASE MergeResidual \/ MergeUnmatched
    BY <2>5 DEF MergeResidual, MergeUnmatched
  <2> QED BY <2>1, <2>2, <2>3, <2>4, <2>5 DEF Loop
<1>2. Query' = Query
  BY <1>1, SameInputs DEF Query
<1>3. Status' = Status
  BY <1>1 DEF Status
<1>4. cursor = 0 /\ cursor' = 0
  BY <1>1 DEF IInv, Shape
<1>5. Delivered = {} /\ Delivered' = {}
  BY <1>4 DEF Delivered
<1> QED BY <1>2, <1>3, <1>5

\* The join implements RelationalJoin: choosing the algorithm, sorting, hashing
\* and the order of the loops are invisible to the operator above it.
THEOREM JoinsImplementRelationalJoin == Spec => ImplementsRelationalJoin
<1>1. Init => Relational!Init
  <2> SUFFICES ASSUME Init PROVE Relational!Init
    OBVIOUS
  <2>1. cursor = 0 /\ phase = "new" /\ Shape
    BY InitIInv DEF Init, IInv
  <2>2. Delivered = {}
    BY <2>1, DeliveredRows
  <2> QED BY <2>1, <2>2 DEF Relational!Init
<1>2. IInv /\ IInv' /\ [Next]_vars => [Relational!Next]_(Relational!vars)
  <2> SUFFICES ASSUME IInv, IInv', [Next]_vars
               PROVE  Relational!Next \/ UNCHANGED Relational!vars
    OBVIOUS
  <2>1. Shape /\ join' = join
    <3>1. Shape
      BY DEF IInv
    <3> QED BY <3>1, Zenon DEF Next, vars, Open, Loop, NestedLoopRow, UnknownColumn,
              NestedLoopUnmatched, HashProbe, HashUnmatched, MergeGroup, MergeLeft, MergeRight,
              MergeResidual, MergeUnmatched, NextRow, NoMoreRows, Close
  <2>2. Query' = Query
    BY <2>1, SameInputs DEF Query
  <2>3. Relational!Promised = PhysicalAnswer
    <3>1. /\ Query.type = PhysicalType /\ Query.pairs = Matching
          /\ Query.left = Left /\ Query.right = Right
      BY DEF Query
    <3> QED BY <3>1 DEF Relational!Promised, Relational!Answer, PhysicalAnswer, Answer, Query
  <2>4. CASE Open \/ (Loop /\ ~UnknownColumn)
    <3>1. Delivered' = Delivered /\ Status' = Status
      BY <2>4, SilentRefines
    <3> QED BY <2>2, <3>1 DEF Relational!vars, Query, Status
  <2>5. CASE UnknownColumn
    <3>1. /\ phase = "NESTED_LOOP" /\ phase' = "failed" /\ ~Sound
          /\ out' = out /\ cursor' = cursor
      BY <2>5 DEF UnknownColumn
    <3>2. Delivered' = Delivered
      BY <3>1 DEF Delivered
    <3>3. Status = "open" /\ Status' = "failed"
      BY <3>1 DEF Status
    <3>4. Relational!Fail
      BY <2>2, <3>1, <3>2, <3>3 DEF Relational!Fail, Query, Status
    <3> QED BY <3>4 DEF Relational!Next
  <2>6. CASE NextRow
    <3>1. /\ phase = "ready" /\ phase' = phase /\ cursor < Len(out)
          /\ cursor' = cursor + 1 /\ out' = out
      BY <2>6 DEF NextRow
    <3>2. Delivered' = Delivered \cup {out[cursor + 1]}
      BY <2>1, <3>1, DeliveredRows
    <3>3. out[cursor + 1] \in PhysicalAnswer
      <4>1. Range(out) = PhysicalAnswer
        BY <3>1 DEF IInv, Complete
      <4>2. cursor + 1 \in DOMAIN out
        BY <2>1, <3>1 DEF Shape
      <4> QED BY <4>1, <4>2 DEF Range
    <3>4. Status = "open" /\ Status' = "open"
      BY <3>1 DEF Status
    <3>5. Relational!Deliver
      BY <2>2, <2>3, <3>2, <3>3, <3>4 DEF Relational!Deliver, Query, Status
    <3> QED BY <3>5 DEF Relational!Next
  <2>7. CASE NoMoreRows
    <3>1. /\ phase = "ready" /\ phase' = "exhausted" /\ cursor = Len(out)
          /\ cursor' = cursor /\ out' = out
      BY <2>7 DEF NoMoreRows
    <3>2. Delivered = PhysicalAnswer
      <4>1. Range(out) = PhysicalAnswer
        BY <3>1 DEF IInv, Complete
      <4> QED BY <2>1, <3>1, <4>1, DeliveredRows
    <3>3. Delivered' = Delivered
      BY <3>1 DEF Delivered
    <3>4. Status = "open" /\ Status' = "ended"
      BY <3>1 DEF Status
    <3>5. Relational!End
      BY <2>2, <2>3, <3>2, <3>3, <3>4 DEF Relational!End, Query, Status
    <3> QED BY <3>5 DEF Relational!Next
  <2>8. CASE Close
    <3>1. phase \in {"ready", "exhausted"} /\ phase' = "closed" /\ cursor' = 0
      BY <2>8 DEF Close
    <3>2. Delivered' = {}
      BY <3>1 DEF Delivered
    <3>3. Status \in {"open", "ended"} /\ Status' = "closed"
      BY <3>1 DEF Status
    <3>4. Relational!Close
      BY <2>2, <3>2, <3>3 DEF Relational!Close, Query, Status
    <3> QED BY <3>4 DEF Relational!Next
  <2>9. CASE UNCHANGED vars
    <3>1. Delivered' = Delivered /\ Status' = Status
      BY <2>9 DEF vars, Delivered, Status
    <3> QED BY <2>2, <3>1 DEF Relational!vars, Query, Status
  <2> QED BY <2>4, <2>5, <2>6, <2>7, <2>8, <2>9 DEF Next
<1> QED BY <1>1, <1>2, Invariance, PTL DEF Spec, ImplementsRelationalJoin, Relational!Spec
=============================================================================
