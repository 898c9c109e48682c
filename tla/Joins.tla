------------------------------- MODULE Joins -------------------------------
(***************************************************************************)
(* JoinExecutor (src/src/execution/join_executor.cpp): how one join picks  *)
(* its algorithm and how the nested loop, hash and merge joins build the   *)
(* output row by row, from two inputs already drained.                     *)
(*                                                                         *)
(* The left input has one column, l.k; the right input one, r.k or r.m.  A *)
(* row is its cell, an output row a pair of positions, 0 for the side that *)
(* mergeRows fills with empty cells.                                       *)
(***************************************************************************)
EXTENDS Sequences, Functions, Cells, JoinAnswer

CONSTANTS
    Inputs,           \* the joins a behaviour may start with
    TinySide,         \* at most so many rows on a side: nested loop (32)
    TinyProduct,      \* or so many pairs (4096)
    MergeSide         \* from so many sorted rows on a side: merge (256)

ASSUME JoinAssumption ==
    /\ TinySide \in Nat /\ TinyProduct \in Nat /\ MergeSide \in Nat
    /\ \A in \in Inputs : /\ in.left \in Seq(Cell) /\ in.right \in Seq(Cell)
                          /\ in.type \in {"INNER", "LEFT", "RIGHT", "FULL", "CROSS"}
                          /\ in.algorithm \in {"NESTED_LOOP", "HASH", "MERGE"}
                          /\ in.op \in {"none", "=", "#", "<", ">", "<=", ">="}
                          /\ in.type = "CROSS" => in.op = "none"

VARIABLES
    join,             \* the JoinExecutor's parameters and the drained inputs
    phase,            \* where open(), next() and close() stand
    i, j,             \* loop indices: rows done on the left or probe side, merge cursors
    matched,          \* rightMatched, or buildMatched of a hash join
    out,              \* outputRows_
    cursor            \* cursor_: rows next() has handed out

vars == <<join, phase, i, j, matched, out, cursor>>

----------------------------------------------------------------------------
(* Columns and the condition *)

\* The bare names that name one column of the merged row; an ambiguous one has
\* no entry in uniqueBareToQualified_ and no alias in the merged row.
UniqueBare == IF join.rightName = "k" THEN {} ELSE {"k", join.rightName}

\* The side a name of an equi condition stands for: a qualified name as it is,
\* a bare one when it is unique.
SideOf(c) ==
    CASE c.q = "l" /\ c.n = "k"                                 -> "left"
      [] c.q = "r" /\ c.n = join.rightName                      -> "right"
      [] c.q = "" /\ c.n \in UniqueBare                         ->
            IF c.n = "k" THEN "left" ELSE "right"
      [] OTHER                                                  -> "none"

\* The side the compiled condition reads a name from: it tries the name, then
\* the part after the dot.
Reads(c) ==
    IF SideOf(c) = "none" /\ c.n \in UniqueBare THEN SideOf([c EXCEPT !.q = ""])
    ELSE SideOf(c)

Sound == join.op # "none" => Reads(join.a) # "none" /\ Reads(join.b) # "none"

Operand(c, l, r) == IF Reads(c) = "left" THEN join.left[l] ELSE join.right[r]

\* matchesCondition on the merged row of l and r; no condition is true.
Holds(l, r) ==
    join.op # "none" =>
        Satisfies(CompareCompiled(Operand(join.a, l, r), Operand(join.b, l, r)), join.op)

\* extractEquiJoinKeys: a bare comparison of one column of each side.
IsEqui == join.op = "=" /\ {SideOf(join.a), SideOf(join.b)} = {"left", "right"}

----------------------------------------------------------------------------
(* The choice of algorithm *)

Left == Len(join.left)
Right == Len(join.right)
Smaller == IF Left <= Right THEN Left ELSE Right

\* cmpValues.
CompareKeys(a, b) == CompareNumbersFirst(a, b, IntCell)

\* isMonotonicNonDecreasing.
Sorted(keys) == \A p \in 1..Len(keys) - 1 : CompareKeys(keys[p], keys[p + 1]) <= 0

\* chooseAlgorithm, where the hash join planned is only a default.  An explicit
\* algorithm falls back to the nested loop by itself when there are no keys.
Chosen ==
    CASE join.type = "CROSS" \/ ~IsEqui -> "NESTED_LOOP"
      [] join.type # "CROSS" /\ IsEqui /\ join.algorithm # "HASH" -> join.algorithm
      [] join.type # "CROSS" /\ IsEqui /\ join.algorithm = "HASH" ->
            IF join.type # "INNER" THEN "HASH"
            ELSE IF Smaller <= TinySide \/ Left * Right <= TinyProduct THEN "NESTED_LOOP"
            ELSE IF Sorted(join.left) /\ Sorted(join.right) /\ Smaller >= MergeSide
            THEN "MERGE" ELSE "HASH"

KeepsLeft == join.type \in {"LEFT", "FULL"}
KeepsRight == join.type \in {"RIGHT", "FULL"}

\* The side a hash join builds its table from; the other side probes it.
BuildsRight == KeepsLeft \/ (join.type = "INNER" /\ Right <= Left)
Build == IF BuildsRight THEN join.right ELSE join.left
Probe == IF BuildsRight THEN join.left ELSE join.right

\* The merge order of the two sides.
LeftOrder == StableOrder(Left, LAMBDA a, b : CompareKeys(join.left[a], join.left[b]))
RightOrder == StableOrder(Right, LAMBDA a, b : CompareKeys(join.right[a], join.right[b]))

----------------------------------------------------------------------------
(* open() *)

\* One row of a side merged with rows of the other side, 0 for no row.
WithLeft(l, rights) == [h \in DOMAIN rights |-> <<l, rights[h]>>]

WithRight(r, lefts) == [h \in DOMAIN lefts |-> <<lefts[h], r>>]

Merged(p, builds) == IF BuildsRight THEN WithLeft(p, builds) ELSE WithRight(p, builds)

Emit(rows) == out' = out \o rows

\* Both children are drained and closed, then the algorithm runs.
Open ==
    /\ phase = "new"
    /\ phase' = Chosen
    /\ out' = <<>> /\ cursor' = 0 /\ i' = 1 /\ j' = 1 /\ matched' = {}
    /\ UNCHANGED join

\* Mutant: a left row without a match is dropped whatever the type.
NestedLoopRowInner ==
    /\ phase = "NESTED_LOOP" /\ i <= Left
    /\ Right > 0 => Sound
    /\ LET hits == {r \in 1..Right : Holds(i, r)} IN
        /\ Emit(WithLeft(i, Ascending(hits)))
        /\ matched' = IF KeepsRight THEN matched \cup hits ELSE matched
    /\ i' = i + 1
    /\ UNCHANGED <<join, phase, j, cursor>>

\* One turn of the outer loop of runNestedLoopJoin.
NestedLoopRow ==
    /\ phase = "NESTED_LOOP" /\ i <= Left
    /\ Right > 0 => Sound
    /\ LET hits == {r \in 1..Right : Holds(i, r)} IN
        /\ Emit(IF hits = {} THEN IF KeepsLeft THEN << <<i, 0>> >> ELSE <<>>
                ELSE WithLeft(i, Ascending(hits)))
        /\ matched' = IF KeepsRight THEN matched \cup hits ELSE matched
    /\ i' = i + 1
    /\ UNCHANGED <<join, phase, j, cursor>>

\* The first merged row a condition over unknown columns is evaluated on.
UnknownColumn ==
    /\ phase = "NESTED_LOOP" /\ i <= Left /\ Right > 0
    /\ ~Sound
    /\ phase' = "failed"
    /\ UNCHANGED <<join, i, j, matched, out, cursor>>

NestedLoopUnmatched ==
    /\ phase = "NESTED_LOOP" /\ i > Left
    /\ Emit(IF KeepsRight THEN WithLeft(0, Ascending((1..Right) \ matched)) ELSE <<>>)
    /\ phase' = "ready"
    /\ UNCHANGED <<join, i, j, matched, cursor>>

\* Mutant: a probe row without a match is kept by the type of the left side,
\* whichever side probes.
HashProbeOuterLeft ==
    /\ phase = "HASH" /\ i <= Len(Probe)
    /\ LET hits == {b \in 1..Len(Build) : Build[b] = Probe[i]}
       IN /\ Emit(IF hits = {} THEN IF KeepsLeft THEN Merged(i, <<0>>) ELSE <<>>
                  ELSE Merged(i, Ascending(hits)))
          /\ matched' = IF KeepsRight THEN matched \cup hits ELSE matched
    /\ i' = i + 1
    /\ UNCHANGED <<join, phase, j, cursor>>

\* One row of the probe side.  Buckets are keyed by the text itself; the
\* condition is not evaluated again, since it is the equality of the keys.
HashProbe ==
    /\ phase = "HASH" /\ i <= Len(Probe)
    /\ LET hits == {b \in 1..Len(Build) : Build[b] = Probe[i]}
           outer == (BuildsRight /\ KeepsLeft) \/ (~BuildsRight /\ KeepsRight)
       IN /\ Emit(IF hits = {} THEN IF outer THEN Merged(i, <<0>>) ELSE <<>>
                  ELSE Merged(i, Ascending(hits)))
          /\ matched' = IF KeepsRight THEN matched \cup hits ELSE matched
    /\ i' = i + 1
    /\ UNCHANGED <<join, phase, j, cursor>>

\* The unmatched rows of the build side, for RIGHT and FULL alike: a RIGHT join
\* builds on the left, so these are left rows and it answers as FULL does.
HashUnmatched ==
    /\ phase = "HASH" /\ i > Len(Probe)
    /\ Emit(IF KeepsRight THEN Merged(0, Ascending((1..Len(Build)) \ matched)) ELSE <<>>)
    /\ phase' = "ready"
    /\ UNCHANGED <<join, i, j, matched, cursor>>

----------------------------------------------------------------------------
(* runMergeJoin: i and j are cursors in the merge orders *)

LeftKeys == [p \in 1..Left |-> join.left[LeftOrder[p]]]
RightKeys == [q \in 1..Right |-> join.right[RightOrder[q]]]

Merging == phase = "MERGE" /\ i <= Left /\ j <= Right

\* One past the keys, of n in order, that equal the one at from.
GroupEnd(keys, n, from) ==
    CHOOSE e \in from + 1..n + 1 :
        /\ \A p \in from..e - 1 : CompareKeys(keys[p], keys[from]) = 0
        /\ e <= n => CompareKeys(keys[e], keys[from]) # 0

LeftGroupEnd == GroupEnd(LeftKeys, Left, i)
RightGroupEnd == GroupEnd(RightKeys, Right, j)

\* Positions from..to of a merge order.
Stretch(order, from, to) == [h \in 1..to - from + 1 |-> order[from + h - 1]]

\* One left row of a group against the right rows of its group; the right
\* cursor moves past the group with the last of its left rows.
MergeGroup ==
    /\ Merging /\ CompareKeys(LeftKeys[i], RightKeys[j]) = 0
    /\ LET l == LeftOrder[i]
           hits == {q \in j..RightGroupEnd - 1 : Holds(l, RightOrder[q])}
           inOrder == Ascending(hits)
           rights == [h \in DOMAIN inOrder |-> RightOrder[inOrder[h]]]
       IN /\ Emit(IF hits = {} THEN IF KeepsLeft THEN << <<l, 0>> >> ELSE <<>>
                  ELSE WithLeft(l, rights))
          /\ matched' = IF KeepsRight THEN matched \cup {RightOrder[q] : q \in hits} ELSE matched
    /\ i' = i + 1
    /\ j' = IF i + 1 = LeftGroupEnd THEN RightGroupEnd ELSE j
    /\ UNCHANGED <<join, phase, cursor>>

\* Mutant: a group is put out without moving past it.
MergeLeftStuck ==
    /\ Merging /\ CompareKeys(LeftKeys[i], RightKeys[j]) < 0
    /\ IF KeepsLeft
       THEN /\ Emit(WithRight(0, Stretch(LeftOrder, i, LeftGroupEnd - 1)))
            /\ i' = i
       ELSE Emit(<<>>) /\ i' = i + 1
    /\ UNCHANGED <<join, phase, j, matched, cursor>>

\* The left key is the smaller: its group at once for LEFT and FULL, one row
\* otherwise.
MergeLeft ==
    /\ Merging /\ CompareKeys(LeftKeys[i], RightKeys[j]) < 0
    /\ IF KeepsLeft
       THEN /\ Emit(WithRight(0, Stretch(LeftOrder, i, LeftGroupEnd - 1)))
            /\ i' = LeftGroupEnd
       ELSE Emit(<<>>) /\ i' = i + 1
    /\ UNCHANGED <<join, phase, j, matched, cursor>>

\* Mutant: rows emitted here are not marked.
MergeRightUnmarked ==
    /\ Merging /\ CompareKeys(LeftKeys[i], RightKeys[j]) > 0
    /\ LET rights == Stretch(RightOrder, j, RightGroupEnd - 1) IN
        Emit(IF KeepsRight THEN WithLeft(0, rights) ELSE <<>>)
    /\ j' = RightGroupEnd
    /\ UNCHANGED <<join, phase, i, matched, cursor>>

\* The right key is the smaller: its group is emitted and marked.
MergeRight ==
    /\ Merging /\ CompareKeys(LeftKeys[i], RightKeys[j]) > 0
    /\ LET rights == Stretch(RightOrder, j, RightGroupEnd - 1) IN
        IF KeepsRight
        THEN Emit(WithLeft(0, rights)) /\ matched' = matched \cup Range(rights)
        ELSE Emit(<<>>) /\ UNCHANGED matched
    /\ j' = RightGroupEnd
    /\ UNCHANGED <<join, phase, i, cursor>>

\* Mutant: the left rows after the last right key are forgotten.
MergeResidualRight ==
    /\ phase = "MERGE" /\ ~Merging
    /\ Emit(IF KeepsRight THEN WithLeft(0, Stretch(RightOrder, j, Right)) ELSE <<>>)
    /\ phase' = "MERGE_UNMATCHED"
    /\ UNCHANGED <<join, i, j, matched, cursor>>

\* The two loops over what one side has left: the rows emitted by the second
\* are not marked.
MergeResidual ==
    /\ phase = "MERGE" /\ ~Merging
    /\ Emit((IF KeepsLeft THEN WithRight(0, Stretch(LeftOrder, i, Left)) ELSE <<>>)
            \o (IF KeepsRight THEN WithLeft(0, Stretch(RightOrder, j, Right)) ELSE <<>>))
    /\ phase' = "MERGE_UNMATCHED"
    /\ i' = IF KeepsLeft THEN Left + 1 ELSE i
    /\ j' = IF KeepsRight THEN Right + 1 ELSE j
    /\ UNCHANGED <<join, matched, cursor>>

\* The last pass: every right row that is not marked.
MergeUnmatched ==
    /\ phase = "MERGE_UNMATCHED"
    /\ Emit(IF KeepsRight THEN WithLeft(0, Ascending((1..Right) \ matched)) ELSE <<>>)
    /\ phase' = "ready"
    /\ UNCHANGED <<join, i, j, matched, cursor>>

----------------------------------------------------------------------------
(* next() and close() *)

NextRow ==
    /\ phase = "ready" /\ cursor < Len(out)
    /\ cursor' = cursor + 1
    /\ UNCHANGED <<join, phase, i, j, matched, out>>

\* next() returns false.
NoMoreRows ==
    /\ phase = "ready" /\ cursor = Len(out)
    /\ phase' = "exhausted"
    /\ UNCHANGED <<join, i, j, matched, out, cursor>>

\* Mutant: the cursor survives the rows it points into.
CloseKeepingCursor ==
    /\ phase \in {"ready", "exhausted"}
    /\ phase' = "closed"
    /\ out' = <<>>
    /\ UNCHANGED <<join, i, j, matched, cursor>>

\* The operator above may close before it has seen every row.
Close ==
    /\ phase \in {"ready", "exhausted"}
    /\ phase' = "closed"
    /\ out' = <<>> /\ cursor' = 0
    /\ UNCHANGED <<join, i, j, matched>>

----------------------------------------------------------------------------

Init ==
    /\ join \in Inputs
    /\ phase = "new"
    /\ i = 1 /\ j = 1 /\ matched = {} /\ out = <<>> /\ cursor = 0

Loop ==
    \/ NestedLoopRow \/ UnknownColumn \/ NestedLoopUnmatched
    \/ HashProbe \/ HashUnmatched
    \/ MergeGroup \/ MergeLeft \/ MergeRight \/ MergeResidual \/ MergeUnmatched

Next == Open \/ Loop \/ NextRow \/ NoMoreRows \/ Close

Spec == Init /\ [][Next]_vars

----------------------------------------------------------------------------
(* Properties *)

TypeOK ==
    /\ join.left \in Seq(Cell) /\ join.right \in Seq(Cell)
    /\ phase \in {"new", "NESTED_LOOP", "HASH", "MERGE", "MERGE_UNMATCHED", "ready",
                  "exhausted", "closed", "failed"}
    /\ i \in Nat /\ j \in Nat /\ cursor \in 0..Len(out)
    /\ matched \subseteq Nat \ {0}
    /\ out \in Seq((0..Left) \X (0..Right))

Pairs(Matches(_, _)) == {p \in (1..Left) \X (1..Right) : Matches(p[1], p[2])}

\* The pairs that the chosen algorithm takes for matching: a hash join wants
\* the same text, a merge join the same key and the condition.
PhysicalPairs ==
    CASE Chosen = "NESTED_LOOP" -> Pairs(Holds)
      [] Chosen = "HASH"  -> Pairs(LAMBDA l, r : join.left[l] = join.right[r])
      [] Chosen = "MERGE" -> Pairs(LAMBDA l, r : CompareKeys(join.left[l], join.right[r]) = 0)

\* A RIGHT join by hash answers as a FULL join.
PhysicalType == IF join.type = "RIGHT" /\ Chosen = "HASH" THEN "FULL" ELSE join.type

Matching == IF Sound THEN PhysicalPairs ELSE {}

PhysicalAnswer == Answer(PhysicalType, Matching, Left, Right)

\* The rows of the answer that the loops have passed.
Passed(row) ==
    CASE phase = "NESTED_LOOP" -> row[1] \in 1..i - 1
      [] phase = "HASH"        -> row[IF BuildsRight THEN 1 ELSE 2] \in 1..i - 1
      [] phase = "MERGE"       ->
            \/ \E p \in 1..i - 1 : row[1] = LeftOrder[p]
            \/ row[1] = 0 /\ \E q \in 1..j - 1 : row[2] = RightOrder[q]
      [] phase \in {"MERGE_UNMATCHED", "ready", "exhausted"} -> TRUE
      [] phase \in {"new", "failed", "closed"} -> FALSE

\* At every turn of every loop the rows put out are those of the answer that
\* the loop has passed: none comes out early, late or without belonging there.
OutputKeepsPace == Range(out) = {row \in PhysicalAnswer : Passed(row)}

Delivered == {out[p] : p \in 1..cursor}

\* Choosing, sorting, hashing and the order of the loops are invisible: next()
\* hands out rows of the relational join only, none is missing when it returns
\* false, and open() throws only for columns that are not there.
Relational == INSTANCE RelationalJoin WITH
    query <- [type |-> PhysicalType, pairs |-> Matching,
              left |-> Left, right |-> Right, sound |-> Sound],
    delivered <- Delivered,
    status <- CASE phase = "exhausted" -> "ended"
                [] phase = "closed"    -> "closed"
                [] phase = "failed"    -> "failed"
                [] OTHER               -> "open"

ImplementsRelationalJoin == Relational!Spec

\* No two cells of the inputs are equal numbers spelt differently.
OneSpelling ==
    LET cells == Range(join.left) \cup Range(join.right) IN
    \A a, b \in cells : CompareCompiled(a, b) = 0 => a = b

\* Over such cells the answer is that of the SQL join, whichever algorithm the
\* sizes of the inputs select; RIGHT joins by hash are the exception.
SizesKeepTheAnswer ==
    phase = "ready" /\ OneSpelling /\ Sound /\ ~(join.type = "RIGHT" /\ Chosen = "HASH")
        => Range(out) = Answer(join.type, Pairs(Holds), Left, Right)

\* No row comes out twice, except that a merge join of type RIGHT or FULL, which
\* only an explicit choice of algorithm can bring about, repeats the unmatched
\* right rows beyond the last left key.
RepeatsOnlyResidual ==
    \A p, q \in DOMAIN out :
        p # q /\ out[p] = out[q] =>
            /\ Chosen = "MERGE" /\ KeepsRight
            /\ out[p][1] = 0
            /\ \A l \in 1..Left : CompareKeys(join.left[l], join.right[out[p][2]]) < 0

\* The turns the loops of open() can still take.
TurnsLeft ==
    CASE phase = "NESTED_LOOP"     -> Left + 2 - i
      [] phase = "HASH"            -> Len(Probe) + 2 - i
      [] phase = "MERGE"           -> Left + Right + 4 - i - j
      [] phase = "MERGE_UNMATCHED" -> 1
      [] OTHER                     -> 0

\* The loops of open() end: every turn of one leaves it fewer to take.
OpenProgresses == [][TurnsLeft > 0 => TurnsLeft' < TurnsLeft /\ TurnsLeft' >= 0]_vars

\* What the header of JoinExecutor says of a RIGHT join.
RightJoinIsARightJoin ==
    phase = "ready" /\ OneSpelling /\ Sound /\ join.type = "RIGHT"
        => Range(out) = Answer("RIGHT", Pairs(Holds), Left, Right)
=============================================================================
