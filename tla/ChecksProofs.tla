---------------------------- MODULE ChecksProofs ----------------------------
(***************************************************************************)
(* Theorems about Checks: what a CREATE TABLE declares is what its columns *)
(* are held to, through every statement and restart after it.              *)
(***************************************************************************)
EXTENDS Checks, Traces

----------------------------------------------------------------------------
(* What the first k items of a CREATE TABLE say of a column *)

ClauseAt(d, p, n) == d[p].i \in ClauseKinds /\ OwnerOf(d, p) = n
TableReferences(d, k, n) == {p \in 1..k : ReferenceAt(d, p, n)}

LEMMA OwnerNext ==
    ASSUME NEW d, NEW k \in Nat
    PROVE  /\ OwnerOf(d, 0) = "none"
           /\ OwnerOf(d, k + 1) = IF d[k + 1].i = "column" THEN d[k + 1].n ELSE OwnerOf(d, k)
<1> DEFINE before(p) == {q \in 1..p : d[q].i = "column"}
<1>1. OwnerOf(d, 0) = "none"
  <2>1. before(0) = {} OBVIOUS
  <2> QED BY <2>1 DEF OwnerOf, NamedLast
<1>2. CASE d[k + 1].i = "column"
  <2>1. k + 1 \in before(k + 1) /\ \A r \in before(k + 1) : r <= k + 1 BY <1>2
  <2>2. \A q \in before(k + 1) : (\A r \in before(k + 1) : r <= q) => q = k + 1 BY <2>1
  <2>3. (CHOOSE q \in before(k + 1) : \A r \in before(k + 1) : r <= q) = k + 1
    <3> HIDE DEF before
    <3> QED BY <2>1, <2>2
  <2>4. before(k + 1) # {} BY <2>1
  <2> QED BY <1>1, <1>2, <2>3, <2>4 DEF OwnerOf, NamedLast
<1>3. CASE d[k + 1].i # "column"
  <2>1. before(k + 1) = before(k) BY <1>3
  <2> QED BY <1>1, <1>3, <2>1 DEF OwnerOf
<1> QED BY <1>2, <1>3

LEMMA DeclaredNext ==
    ASSUME NEW d, NEW k \in Nat
    PROVE  /\ DeclaredIn(d, 0) = {}
           /\ d[k + 1].i = "column" => DeclaredIn(d, k + 1) = DeclaredIn(d, k) \cup {d[k + 1].n}
           /\ d[k + 1].i # "column" => DeclaredIn(d, k + 1) = DeclaredIn(d, k)
           /\ \A j \in 0..k : DeclaredIn(d, j) \subseteq DeclaredIn(d, k)
<1>1. 1..k + 1 = 1..k \cup {k + 1} /\ 1..0 = {} OBVIOUS
<1>2. DeclaredIn(d, 0) = {} BY <1>1 DEF DeclaredIn
<1>3. ASSUME NEW j \in 0..k PROVE DeclaredIn(d, j) \subseteq DeclaredIn(d, k)
  <2>1. 1..j \subseteq 1..k OBVIOUS
  <2> QED BY <2>1, Zenon DEF DeclaredIn
<1>4. ASSUME d[k + 1].i = "column" PROVE DeclaredIn(d, k + 1) = DeclaredIn(d, k) \cup {d[k + 1].n}
  <2>1. {r \in 1..k + 1 : d[r].i = "column"} = {r \in 1..k : d[r].i = "column"} \cup {k + 1}
    BY <1>1, <1>4
  <2> QED BY <2>1 DEF DeclaredIn
<1>5. ASSUME d[k + 1].i # "column" PROVE DeclaredIn(d, k + 1) = DeclaredIn(d, k)
  <2>1. {r \in 1..k + 1 : d[r].i = "column"} = {r \in 1..k : d[r].i = "column"} BY <1>1, <1>5
  <2> QED BY <2>1 DEF DeclaredIn
<1> QED BY <1>2, <1>3, <1>4, <1>5

\* A clause belongs to a column that is declared before it.
LEMMA ClausesHaveOwners ==
    ASSUME NEW d, Declaration(d), NEW p \in 1..Len(d), d[p].i \in ClauseKinds \cup {"column"}
    PROVE  OwnerOf(d, p) \in DeclaredIn(d, p)
<1> DEFINE bad == {q \in 0..Len(d) : /\ q # 0 /\ d[q].i \in ClauseKinds \cup {"column"}
                                     /\ OwnerOf(d, q) \notin DeclaredIn(d, q)}
<1>1. d \in Seq(ToSet(d)) /\ Len(d) \in Nat /\ DOMAIN d = 1..Len(d) BY DEF Declaration
<1>2. ASSUME NEW q \in 1..Len(d), q - 1 \notin bad PROVE q \notin bad
  <2> SUFFICES ASSUME d[q].i \in ClauseKinds \cup {"column"}
               PROVE  OwnerOf(d, q) \in DeclaredIn(d, q) OBVIOUS
  <2>1. q - 1 \in Nat /\ (q - 1) + 1 = q /\ q - 1 \in 0..Len(d) BY <1>1
  <2>2. CASE d[q].i = "column"
    <3>1. OwnerOf(d, q) = d[q].n BY <2>1, <2>2, OwnerNext
    <3>2. DeclaredIn(d, q) = DeclaredIn(d, q - 1) \cup {d[q].n} BY <2>1, <2>2, DeclaredNext
    <3> QED BY <3>1, <3>2
  <2>3. CASE d[q].i # "column"
    <3>1. q > 1 /\ d[q - 1].i \in ClauseKinds \cup {"column"} BY <1>1, <2>3 DEF Declaration
    <3>2. OwnerOf(d, q - 1) \in DeclaredIn(d, q - 1) BY <1>2, <2>1, <3>1
    <3>3. OwnerOf(d, q) = OwnerOf(d, q - 1) BY <2>1, <2>3, OwnerNext
    <3>4. DeclaredIn(d, q) = DeclaredIn(d, q - 1) BY <2>1, <2>3, DeclaredNext
    <3> QED BY <3>2, <3>3, <3>4
  <2> QED BY <2>2, <2>3
<1>3. bad \in SUBSET (0..Len(d)) /\ 0 \notin bad OBVIOUS
<1>4. bad = {}
  <2> HIDE DEF bad
  <2> QED BY <1>1, <1>2, <1>3, FirstBad
<1> QED BY <1>1, <1>4

LEMMA OfColumnNext ==
    ASSUME NEW d, NEW k \in Nat, NEW n, NEW kinds
    PROVE  /\ OfColumn(d, 0, n, kinds) = {}
           /\ OfColumn(d, k, n, kinds) \in SUBSET (1..k)
           /\ d[k + 1].i \in kinds /\ OwnerOf(d, k + 1) = n
              => OfColumn(d, k + 1, n, kinds) = OfColumn(d, k, n, kinds) \cup {k + 1}
           /\ ~(d[k + 1].i \in kinds /\ OwnerOf(d, k + 1) = n)
              => OfColumn(d, k + 1, n, kinds) = OfColumn(d, k, n, kinds)
<1>1. 1..k + 1 = 1..k \cup {k + 1} /\ k + 1 \notin 1..k /\ 1..0 = {} OBVIOUS
<1> QED BY <1>1 DEF OfColumn

LEMMA TableReferencesNext ==
    ASSUME NEW d, NEW k \in Nat, NEW n
    PROVE  /\ TableReferences(d, 0, n) = {}
           /\ TableReferences(d, k, n) \in SUBSET (1..k)
           /\ ReferenceAt(d, k + 1, n)
              => TableReferences(d, k + 1, n) = TableReferences(d, k, n) \cup {k + 1}
           /\ ~ReferenceAt(d, k + 1, n)
              => TableReferences(d, k + 1, n) = TableReferences(d, k, n)
<1>1. 1..k + 1 = 1..k \cup {k + 1} /\ k + 1 \notin 1..k /\ 1..0 = {} OBVIOUS
<1> QED BY <1>1 DEF TableReferences

LEMMA LastNext ==
    ASSUME NEW k \in Nat, NEW s \in SUBSET (1..k)
    PROVE  LastOf(s \cup {k + 1}) = {k + 1}
<1>1. \A q \in s : q <= k /\ q \in Nat /\ q # k + 1 OBVIOUS
<1>2. k + 1 \in LastOf(s \cup {k + 1}) BY <1>1 DEF LastOf
<1>3. ASSUME NEW q \in LastOf(s \cup {k + 1}) PROVE q = k + 1
  <2>1. k + 1 <= q /\ q \in s \cup {k + 1} BY DEF LastOf
  <2> QED BY <1>1, <2>1
<1> QED BY <1>2, <1>3

\* What the next item changes of what is said of a column.
LEMMA SaysNext ==
    ASSUME NEW d, NEW k \in Nat, NEW n
    PROVE  LET i == d[k + 1].i
               mine == ClauseAt(d, k + 1, n)
           IN /\ KeyOf(d, k + 1, n) <=> \/ KeyOf(d, k, n)
                                        \/ mine /\ i = "primary_key"
                                        \/ i = "PRIMARY_KEY" /\ n \in ToSet(d[k + 1].c)
              /\ OfColumn(d, k + 1, n, {"unique"}) # {} <=>
                   OfColumn(d, k, n, {"unique"}) # {} \/ (mine /\ i = "unique")
              /\ NotNullOf(d, k + 1, n) <=>
                   \/ mine /\ i = "not_null"
                   \/ ~(mine /\ i \in {"null", "not_null"}) /\ NotNullOf(d, k, n)
              /\ \A fk : ReferenceOf(d, k + 1, n, fk) <=>
                           \/ mine /\ i = "references" /\ fk = d[k + 1].ref
                           \/ ReferenceAt(d, k + 1, n) /\ fk = d[k + 1].refs[1]
                           \/ /\ ~(mine /\ i = "references") /\ ~ReferenceAt(d, k + 1, n)
                              /\ ReferenceOf(d, k, n, fk)
<1> DEFINE i == d[k + 1].i
           mine == ClauseAt(d, k + 1, n)
<1>1. 1..k + 1 = 1..k \cup {k + 1} /\ k + 1 \notin 1..k OBVIOUS
<1>2. ASSUME NEW kinds \in SUBSET ClauseKinds
      PROVE  /\ mine /\ i \in kinds => OfColumn(d, k + 1, n, kinds) = OfColumn(d, k, n, kinds) \cup {k + 1}
             /\ ~(mine /\ i \in kinds) => OfColumn(d, k + 1, n, kinds) = OfColumn(d, k, n, kinds)
             /\ OfColumn(d, k, n, kinds) \in SUBSET (1..k)
  BY OfColumnNext DEF ClauseAt
<1>3. /\ {"primary_key"} \in SUBSET ClauseKinds /\ {"unique"} \in SUBSET ClauseKinds
      /\ {"references"} \in SUBSET ClauseKinds /\ {"null", "not_null"} \in SUBSET ClauseKinds
      /\ "FOREIGN_KEY" \notin ClauseKinds
  BY DEF ClauseKinds
<1> HIDE DEF mine, i
<1>4. KeyOf(d, k + 1, n) <=> \/ KeyOf(d, k, n)
                             \/ mine /\ i = "primary_key"
                             \/ i = "PRIMARY_KEY" /\ n \in ToSet(d[k + 1].c)
  <2>1. OfColumn(d, k + 1, n, {"primary_key"}) # {} <=>
          OfColumn(d, k, n, {"primary_key"}) # {} \/ (mine /\ i = "primary_key")
    <3>1. CASE mine /\ i = "primary_key" BY <1>2, <1>3, <3>1
    <3>2. CASE ~(mine /\ i = "primary_key")
      <4>1. OfColumn(d, k + 1, n, {"primary_key"}) = OfColumn(d, k, n, {"primary_key"})
        BY <1>2, <1>3, <3>2
      <4> QED BY <3>2, <4>1
    <3> QED BY <3>1, <3>2
  <2>2. (\E p \in 1..k + 1 : d[p].i = "PRIMARY_KEY" /\ n \in ToSet(d[p].c)) <=>
          \/ \E p \in 1..k : d[p].i = "PRIMARY_KEY" /\ n \in ToSet(d[p].c)
          \/ i = "PRIMARY_KEY" /\ n \in ToSet(d[k + 1].c)
    <3> DEFINE names(p) == d[p].i = "PRIMARY_KEY" /\ n \in ToSet(d[p].c)
    <3>1. names(k + 1) <=> i = "PRIMARY_KEY" /\ n \in ToSet(d[k + 1].c) BY DEF i
    <3> HIDE DEF names
    <3>2. (\E p \in 1..k + 1 : names(p)) <=> (\E p \in 1..k : names(p)) \/ names(k + 1)
      BY <1>1, Zenon
    <3> QED BY <3>1, <3>2, Zenon DEF names
  <2> QED BY <2>1, <2>2, Zenon DEF KeyOf
<1>5. OfColumn(d, k + 1, n, {"unique"}) # {} <=>
        OfColumn(d, k, n, {"unique"}) # {} \/ (mine /\ i = "unique")
  <2>1. CASE mine /\ i = "unique" BY <1>2, <1>3, <2>1
  <2>2. CASE ~(mine /\ i = "unique")
    <3>1. OfColumn(d, k + 1, n, {"unique"}) = OfColumn(d, k, n, {"unique"}) BY <1>2, <1>3, <2>2
    <3> QED BY <2>2, <3>1
  <2> QED BY <2>1, <2>2
<1>6. NotNullOf(d, k + 1, n) <=>
        \/ mine /\ i = "not_null"
        \/ ~(mine /\ i \in {"null", "not_null"}) /\ NotNullOf(d, k, n)
  <2> DEFINE before == OfColumn(d, k, n, {"null", "not_null"})
             now == OfColumn(d, k + 1, n, {"null", "not_null"})
  <2>1. CASE mine /\ i \in {"null", "not_null"}
    <3>1. now = before \cup {k + 1} /\ before \in SUBSET (1..k) BY <1>2, <1>3, <2>1
    <3>2. LastOf(now) = {k + 1}
      <4> HIDE DEF before, now
      <4> QED BY <3>1, LastNext
    <3>3. NotNullOf(d, k + 1, n) <=> i = "not_null" BY <3>2 DEF NotNullOf, i
    <3> QED BY <2>1, <3>3
  <2>2. CASE ~(mine /\ i \in {"null", "not_null"})
    <3>1. now = before BY <1>2, <1>3, <2>2
    <3>2. NotNullOf(d, k + 1, n) <=> NotNullOf(d, k, n) BY <3>1, Zenon DEF NotNullOf
    <3> QED BY <2>2, <3>2
  <2> QED BY <2>1, <2>2
<1>7. ASSUME NEW fk
      PROVE  ReferenceOf(d, k + 1, n, fk) <=>
               \/ mine /\ i = "references" /\ fk = d[k + 1].ref
               \/ ReferenceAt(d, k + 1, n) /\ fk = d[k + 1].refs[1]
               \/ /\ ~(mine /\ i = "references") /\ ~ReferenceAt(d, k + 1, n)
                  /\ ReferenceOf(d, k, n, fk)
  <2> DEFINE column == OfColumn(d, k, n, {"references"})
             table == TableReferences(d, k, n)
             held == ReferenceAt(d, k + 1, n)
  <2>1. ReferencesOf(d, k, n) = column \cup table BY DEF ReferencesOf, TableReferences
  <2>2. column \in SUBSET (1..k) /\ table \in SUBSET (1..k) BY OfColumnNext, TableReferencesNext
  <2>3. /\ mine /\ i = "references" => OfColumn(d, k + 1, n, {"references"}) = column \cup {k + 1}
        /\ ~(mine /\ i = "references") => OfColumn(d, k + 1, n, {"references"}) = column
    BY <1>2, <1>3
  <2>4. /\ held => TableReferences(d, k + 1, n) = table \cup {k + 1}
        /\ ~held => TableReferences(d, k + 1, n) = table
    BY TableReferencesNext
  <2>5. ReferencesOf(d, k + 1, n) = OfColumn(d, k + 1, n, {"references"}) \cup TableReferences(d, k + 1, n)
    BY DEF ReferencesOf, TableReferences
  <2>6. held => i = "FOREIGN_KEY" /\ i # "references" BY DEF ReferenceAt, i
  <2> HIDE DEF column, table, held
  <2>7. CASE held \/ (mine /\ i = "references")
    <3>1. ReferencesOf(d, k + 1, n) = (column \cup table) \cup {k + 1} BY <2>3, <2>4, <2>5, <2>7
    <3>2. LastOf(ReferencesOf(d, k + 1, n)) = {k + 1}
      <4>1. column \cup table \in SUBSET (1..k) BY <2>2
      <4> QED BY <3>1, <4>1, LastNext
    <3>3. ReferenceOf(d, k + 1, n, fk) <=>
            fk = IF i = "references" THEN d[k + 1].ref ELSE d[k + 1].refs[1]
      BY <3>1, <3>2 DEF ReferenceOf, i
    <3> QED BY <2>6, <2>7, <3>3 DEF held
  <2>8. CASE ~held /\ ~(mine /\ i = "references")
    <3>1. ReferencesOf(d, k + 1, n) = ReferencesOf(d, k, n) BY <2>1, <2>3, <2>4, <2>5, <2>8
    <3>2. ReferenceOf(d, k + 1, n, fk) <=> ReferenceOf(d, k, n, fk) BY <3>1, Zenon DEF ReferenceOf
    <3> QED BY <2>8, <3>2 DEF held
  <2> QED BY <2>7, <2>8, Zenon
<1> QED BY <1>4, <1>5, <1>6, <1>7 DEF mine, i

\* Nothing is said of a column that is not declared yet.
LEMMA SaysNothing ==
    ASSUME NEW d, Declaration(d), NEW k \in 0..Len(d), NEW n, n \notin DeclaredIn(d, k),
           \A p \in 1..k : d[p].i = "PRIMARY_KEY" => ToSet(d[p].c) \subseteq DeclaredIn(d, k)
    PROVE  /\ ~KeyOf(d, k, n) /\ OfColumn(d, k, n, {"unique"}) = {}
           /\ ~NotNullOf(d, k, n) /\ ReferenceOf(d, k, n, NoReference)
<1>1. Len(d) \in Nat BY DEF Declaration
<1>2. ASSUME NEW kinds \in SUBSET ClauseKinds PROVE OfColumn(d, k, n, kinds) = {}
  <2> SUFFICES ASSUME NEW p \in 1..k, d[p].i \in kinds, OwnerOf(d, p) = n PROVE FALSE
    BY DEF OfColumn
  <2>1. p \in 1..Len(d) /\ p \in 0..k /\ k \in Nat BY <1>1
  <2>2. OwnerOf(d, p) \in DeclaredIn(d, p) BY <2>1, ClausesHaveOwners
  <2>3. DeclaredIn(d, p) \subseteq DeclaredIn(d, k) BY <2>1, DeclaredNext
  <2> QED BY <2>2, <2>3
<1>3. TableReferences(d, k, n) = {}
  <2> SUFFICES ASSUME NEW p \in 1..k, n \in DeclaredIn(d, p) PROVE FALSE
    BY DEF TableReferences, ReferenceAt
  <2>1. p \in 0..k /\ k \in Nat BY <1>1
  <2>2. DeclaredIn(d, p) \subseteq DeclaredIn(d, k) BY <2>1, DeclaredNext
  <2> QED BY <2>2
<1>4. /\ {"primary_key"} \in SUBSET ClauseKinds /\ {"unique"} \in SUBSET ClauseKinds
      /\ {"references"} \in SUBSET ClauseKinds /\ {"null", "not_null"} \in SUBSET ClauseKinds
  BY DEF ClauseKinds
<1>5. ~KeyOf(d, k, n) BY <1>2, <1>4 DEF KeyOf
<1>6. ~NotNullOf(d, k, n) BY <1>2, <1>4 DEF NotNullOf, LastOf
<1>7. ReferencesOf(d, k, n) = {} BY <1>2, <1>3, <1>4 DEF ReferencesOf, TableReferences
<1> QED BY <1>2, <1>4, <1>5, <1>6, <1>7 DEF ReferenceOf

----------------------------------------------------------------------------
(* The reading of a CREATE TABLE *)

\* The items that are read, and what the parser holds of them.
Done == Len(decl) - Len(todo)
Reading ==
    /\ decl \in Declarations /\ stage \in {"parse", "live", "failed"} /\ restarts \in BOOLEAN
    /\ Done \in 0..Len(decl) /\ todo = SubSeq(decl, Done + 1, Len(decl))

IsColumn(c) ==
    /\ c.pk \in BOOLEAN /\ c.nn \in BOOLEAN /\ c.uq \in BOOLEAN
    /\ c = [pk |-> c.pk, nn |-> c.nn, uq |-> c.uq, fk |-> c.fk, check |-> c.check, enum |-> c.enum]
Columns ==
    /\ cols = [n \in DOMAIN cols |-> cols[n]] /\ \A n \in DOMAIN cols : IsColumn(cols[n])
    /\ DOMAIN cols \subseteq Names \cup {NewName}
    /\ meant = [column |-> meant.column, table |-> meant.table]
    /\ meant.column = [n \in DOMAIN cols |-> meant.column[n]]
KeysDeclared(d, k) ==
    \A p \in 1..k : d[p].i = "PRIMARY_KEY" => ToSet(d[p].c) \subseteq DeclaredIn(d, k)
Parsing ==
    stage = "parse" =>
        /\ DOMAIN cols = DeclaredIn(decl, Done) /\ last = OwnerOf(decl, Done)
        /\ KeysDeclared(decl, Done) /\ restarts = FALSE
ReadSoFar == Reading /\ Columns /\ Parsing

\* Where a clause is read, last is a column.
LEMMA ReadingNext ==
    ASSUME ReadSoFar, Read, decl' = decl
    PROVE  /\ Declaration(decl) /\ Done + 1 \in 1..Len(decl) /\ Done \in Nat /\ Len(decl) \in Nat
           /\ Item = decl[Done + 1] /\ Done' = Done + 1
           /\ todo' = SubSeq(decl, Done + 2, Len(decl))
           /\ DOMAIN cols = DeclaredIn(decl, Done)
           /\ Item.i \in ClauseKinds => OwnerOf(decl, Done + 1) = last /\ last \in DOMAIN cols
           /\ DeclaredIn(decl, Done) \subseteq Names
<1>1. Declaration(decl) /\ stage = "parse" /\ todo # <<>> /\ todo' = Tail(todo)
  BY ChecksAssumption DEF ReadSoFar, Reading, Read
<1>2. /\ decl \in Seq(ToSet(decl)) /\ Done \in 0..Len(decl) /\ todo = SubSeq(decl, Done + 1, Len(decl))
      /\ Len(decl) \in Nat
  BY <1>1 DEF Declaration, ReadSoFar, Reading
<1> HIDE DEF Done
<1>3. /\ Len(todo) = Len(decl) - Done
      /\ \A j \in 1..Len(decl) - Done : todo[j] = decl[Done + j]
      /\ todo \in Seq(ToSet(decl))
  <2>1. Done + 1 \in 1..Len(decl) + 1 /\ Len(decl) \in Done..Len(decl) BY <1>2
  <2>2. CASE Done = Len(decl)
    <3>1. todo = <<>> BY <1>2, <2>2
    <3> QED BY <1>1, <3>1
  <2>3. CASE Done # Len(decl) BY <1>2, <2>3
  <2> QED BY <2>2, <2>3
<1>4. Len(todo) > 0 /\ Done + 1 \in 1..Len(decl) BY <1>1, <1>2, <1>3, EmptySeq
<1>5. Item = decl[Done + 1] BY <1>3, <1>4, <1>2 DEF Item
<1>6. Done' = Done + 1
  <2>1. Len(todo') = Len(todo) - 1 BY <1>1, <1>3, <1>4
  <2> QED BY <1>2, <1>3, <2>1 DEF Done
<1>7. todo' = SubSeq(decl, Done + 2, Len(decl))
  <2> DEFINE left == SubSeq(decl, Done + 2, Len(decl))
  <2>1. /\ todo' \in Seq(ToSet(decl)) /\ Len(todo') = Len(decl) - Done - 1
        /\ \A j \in 1..Len(decl) - Done - 1 : todo'[j] = decl[Done + 1 + j]
    BY <1>1, <1>2, <1>3, <1>4
  <2>2. /\ left \in Seq(ToSet(decl)) /\ Len(left) = Len(decl) - Done - 1
        /\ \A j \in 1..Len(decl) - Done - 1 : left[j] = decl[Done + 1 + j]
    BY <1>2, <1>4, SMTT(30)
  <2> HIDE DEF left
  <2>3. todo' = left BY <2>1, <2>2, SeqEqual
  <2> QED BY <2>3 DEF left
<1>8. DOMAIN cols = DeclaredIn(decl, Done) /\ last = OwnerOf(decl, Done)
  BY <1>1 DEF ReadSoFar, Parsing
<1>9. ASSUME Item.i \in ClauseKinds PROVE OwnerOf(decl, Done + 1) = last /\ last \in DOMAIN cols
  <2>1. decl[Done + 1].i # "column" BY <1>5, <1>9 DEF ClauseKinds
  <2>2. OwnerOf(decl, Done + 1) = OwnerOf(decl, Done) /\ DeclaredIn(decl, Done + 1) = DeclaredIn(decl, Done)
    BY <1>2, <2>1, OwnerNext, DeclaredNext
  <2>3. OwnerOf(decl, Done + 1) \in DeclaredIn(decl, Done + 1)
    BY <1>1, <1>4, <1>5, <1>9, ClausesHaveOwners
  <2> QED BY <1>8, <2>2, <2>3
<1>10. DeclaredIn(decl, Done) \subseteq Names
  <2> SUFFICES ASSUME NEW r \in 1..Done, decl[r].i = "column" PROVE decl[r].n \in Names
    BY DEF DeclaredIn
  <2>1. r \in DOMAIN decl BY <1>2
  <2> QED BY <1>1, <2>1 DEF Declaration
<1>11. Done \in Nat BY <1>2
<1> QED BY <1>1, <1>2, <1>4, <1>5, <1>6, <1>7, <1>8, <1>9, <1>10, <1>11

\* What a clause changes of the column.
LEMMA ClauseSays ==
    ASSUME NEW c, IsColumn(c), NEW item, item.i \in ClauseKinds
    PROVE  LET now == ColumnClause(c, item) IN
           /\ IsColumn(now)
           /\ now.pk <=> c.pk \/ item.i = "primary_key"
           /\ now.uq <=> c.uq \/ item.i = "unique"
           /\ now.nn <=> (c.nn /\ item.i # "null") \/ item.i \in {"primary_key", "not_null"}
           /\ now.fk = IF item.i = "references" THEN item.ref ELSE c.fk
           /\ now.check = IF item.i = "check" THEN TextOf(item.e) ELSE c.check
           /\ now.enum = c.enum
<1> DEFINE t == TextOf(item.e)
<1>1. /\ c.pk \in BOOLEAN /\ c.nn \in BOOLEAN /\ c.uq \in BOOLEAN
      /\ c = [pk |-> c.pk, nn |-> c.nn, uq |-> c.uq, fk |-> c.fk, check |-> c.check, enum |-> c.enum]
  BY DEF IsColumn
<1>2. t = TextOf(item.e) OBVIOUS
<1> HIDE DEF t
<1>3. CASE item.i = "primary_key"
  <2>1. ColumnClause(c, item) = [c EXCEPT !.pk = TRUE, !.nn = TRUE] BY <1>3 DEF ColumnClause
  <2> QED BY <1>1, <1>3, <2>1 DEF IsColumn
<1>4. CASE item.i = "unique"
  <2>1. ColumnClause(c, item) = [c EXCEPT !.uq = TRUE] BY <1>4 DEF ColumnClause
  <2> QED BY <1>1, <1>4, <2>1 DEF IsColumn
<1>5. CASE item.i = "not_null"
  <2>1. ColumnClause(c, item) = [c EXCEPT !.nn = TRUE] BY <1>5 DEF ColumnClause
  <2> QED BY <1>1, <1>5, <2>1 DEF IsColumn
<1>6. CASE item.i = "null"
  <2>1. ColumnClause(c, item) = [c EXCEPT !.nn = FALSE] BY <1>6 DEF ColumnClause
  <2> QED BY <1>1, <1>6, <2>1 DEF IsColumn
<1>7. CASE item.i \in {"not", "default"}
  <2>1. ColumnClause(c, item) = c BY <1>7 DEF ColumnClause
  <2> QED BY <1>1, <1>7, <2>1 DEF IsColumn
<1>8. CASE item.i = "references"
  <2>1. ColumnClause(c, item) = [c EXCEPT !.fk = item.ref] BY <1>8 DEF ColumnClause
  <2> QED BY <1>1, <1>8, <2>1 DEF IsColumn
<1>9. CASE item.i = "check"
  <2>1. ColumnClause(c, item) = [c EXCEPT !.check = t] BY <1>2, <1>9 DEF ColumnClause
  <2> QED BY <1>1, <1>2, <1>9, <2>1 DEF IsColumn
<1>10. item.i \in {"primary_key", "unique", "not_null", "null", "not", "default", "references", "check"}
  BY DEF ClauseKinds
<1> QED BY <1>3, <1>4, <1>5, <1>6, <1>7, <1>8, <1>9, <1>10

\* What each action does to the columns.
LEMMA ReadColumnDoes ==
    ASSUME ReadSoFar, ReadColumn
    PROVE  /\ Read /\ Item.i = "column" /\ UNCHANGED <<decl, tableChecks, rows, restarts>>
           /\ stage = "parse" /\ meant' = [column |-> meant'.column, table |-> meant.table]
           /\ \/ stage' = "failed" /\ UNCHANGED <<cols, last, meant>>
              \/ /\ stage' = "parse" /\ last' = Item.n /\ Item.n \notin DOMAIN cols
                 /\ cols' = With(cols, Item.n, Plain(Item))
                 /\ meant'.column = With(meant.column, Item.n, <<>>)
<1>1. Read /\ Item.i = "column" /\ UNCHANGED <<decl, tableChecks, rows, restarts>> /\ stage = "parse"
  BY DEF ReadColumn, Read
<1>2. meant = [column |-> meant.column, table |-> meant.table] BY DEF ReadSoFar, Columns
<1>3. CASE Item.n \in DOMAIN cols BY <1>1, <1>2, <1>3 DEF ReadColumn
<1>4. CASE Item.n \notin DOMAIN cols
  <2>1. /\ cols' = With(cols, Item.n, Plain(Item)) /\ last' = Item.n /\ UNCHANGED stage
        /\ meant' = [meant EXCEPT !.column = With(@, Item.n, <<>>)]
    BY <1>4, Zenon DEF ReadColumn
  <2> DEFINE w == With(meant.column, Item.n, <<>>)
  <2>2. meant' = [meant EXCEPT !.column = w] BY <2>1
  <2> HIDE DEF w
  <2>3. meant'.column = w /\ meant' = [column |-> w, table |-> meant.table] BY <1>2, <2>2
  <2> QED BY <1>1, <1>4, <2>1, <2>3 DEF w
<1> QED BY <1>3, <1>4

LEMMA ReadColumnClauseDoes ==
    ASSUME ReadSoFar, ReadColumnClause
    PROVE  /\ Read /\ Item.i \in ClauseKinds /\ UNCHANGED <<decl, stage, last, tableChecks, rows, restarts>>
           /\ stage = "parse" /\ meant' = [column |-> meant'.column, table |-> meant.table]
           /\ last \in DOMAIN cols
           /\ cols' = [cols EXCEPT ![last] = ColumnClause(cols[last], Item)]
           /\ meant'.column = IF Item.i = "check" THEN [meant.column EXCEPT ![last] = Item.e]
                              ELSE meant.column
<1>1. /\ Read /\ Item.i \in ClauseKinds /\ UNCHANGED <<decl, stage, last, tableChecks, rows, restarts>>
      /\ stage = "parse"
  BY DEF ReadColumnClause, Read, ClauseKinds
<1>2. meant = [column |-> meant.column, table |-> meant.table] BY DEF ReadSoFar, Columns
<1>3. last \in DOMAIN cols BY <1>1, ReadingNext
<1>4. cols' = [cols EXCEPT ![last] = ColumnClause(cols[last], Item)] BY Zenon DEF ReadColumnClause
<1>5. CASE Item.i = "check"
  <2> DEFINE w == [meant.column EXCEPT ![last] = Item.e]
  <2>1. meant' = [meant EXCEPT !.column = w] BY <1>5, Zenon DEF ReadColumnClause
  <2> HIDE DEF w
  <2>2. meant'.column = w /\ meant' = [column |-> w, table |-> meant.table] BY <1>2, <2>1
  <2> QED BY <1>1, <1>3, <1>4, <1>5, <2>2 DEF w
<1>6. CASE Item.i # "check"
  <2>1. meant' = meant BY <1>6, Zenon DEF ReadColumnClause
  <2> QED BY <1>1, <1>2, <1>3, <1>4, <1>6, <2>1
<1> QED BY <1>5, <1>6

LEMMA ReadPrimaryKeyDoes ==
    ASSUME ReadSoFar, ReadPrimaryKey
    PROVE  /\ Read /\ Item.i = "PRIMARY_KEY" /\ UNCHANGED <<decl, last, tableChecks, meant, rows, restarts>>
           /\ stage = "parse"
           /\ \/ stage' = "failed" /\ UNCHANGED cols
              \/ /\ stage' = "parse" /\ ToSet(Item.c) \subseteq DOMAIN cols
                 /\ DOMAIN cols' = DOMAIN cols /\ cols' = [n \in DOMAIN cols |-> cols'[n]]
                 /\ \A n \in DOMAIN cols :
                      cols'[n] = IF n \in ToSet(Item.c) THEN [cols[n] EXCEPT !.pk = TRUE, !.nn = TRUE]
                                 ELSE cols[n]
<1>1. Read /\ Item.i = "PRIMARY_KEY" /\ UNCHANGED <<decl, last, tableChecks, meant, rows, restarts>>
  BY Zenon DEF ReadPrimaryKey
<1>2. stage = "parse" BY <1>1 DEF Read
<1>3. CASE ToSet(Item.c) \subseteq DOMAIN cols
  <2> DEFINE w == [n \in DOMAIN cols |->
                     IF n \in ToSet(Item.c) THEN [cols[n] EXCEPT !.pk = TRUE, !.nn = TRUE] ELSE cols[n]]
  <2>1. cols' = w /\ stage' = stage BY <1>3, Zenon DEF ReadPrimaryKey
  <2>2. /\ DOMAIN w = DOMAIN cols /\ w = [n \in DOMAIN cols |-> w[n]]
        /\ \A n \in DOMAIN cols :
             w[n] = IF n \in ToSet(Item.c) THEN [cols[n] EXCEPT !.pk = TRUE, !.nn = TRUE] ELSE cols[n]
    OBVIOUS
  <2> HIDE DEF w
  <2> QED BY <1>1, <1>2, <1>3, <2>1, <2>2, Zenon
<1>4. CASE ~(ToSet(Item.c) \subseteq DOMAIN cols)
  <2>1. stage' = "failed" /\ UNCHANGED cols BY <1>4, Zenon DEF ReadPrimaryKey
  <2> QED BY <1>1, <1>2, <2>1
<1> QED BY <1>3, <1>4

LEMMA ReadForeignKeyDoes ==
    ASSUME ReadSoFar, ReadForeignKey
    PROVE  /\ Read /\ Item.i = "FOREIGN_KEY"
           /\ UNCHANGED <<decl, stage, last, tableChecks, meant, rows, restarts>> /\ stage = "parse"
           /\ HeldByOne(Item) => cols' = [cols EXCEPT ![Item.c[1]] = [cols[Item.c[1]] EXCEPT !.fk = Item.refs[1]]]
           /\ ~HeldByOne(Item) => cols' = cols
<1>1. Read /\ Item.i = "FOREIGN_KEY" /\ UNCHANGED <<decl, stage, last, tableChecks, meant, rows, restarts>>
  BY Zenon DEF ReadForeignKey
<1>2. stage = "parse" BY <1>1 DEF Read
<1>3. HeldByOne(Item) => cols' = [cols EXCEPT ![Item.c[1]] = [cols[Item.c[1]] EXCEPT !.fk = Item.refs[1]]]
  BY Zenon DEF ReadForeignKey
<1>4. ~HeldByOne(Item) => cols' = cols BY Zenon DEF ReadForeignKey
<1> QED BY <1>1, <1>2, <1>3, <1>4

LEMMA ReadTableCheckDoes ==
    ASSUME ReadSoFar, ReadTableCheck
    PROVE  /\ Read /\ Item.i = "CHECK" /\ UNCHANGED <<decl, stage, cols, last, rows, restarts>>
           /\ stage = "parse" /\ meant' = [column |-> meant.column, table |-> meant'.table]
           /\ \/ UNCHANGED <<tableChecks, meant>>
              \/ /\ tableChecks' = Append(tableChecks, TextOf(Item.e))
                 /\ meant'.table = Append(meant.table, Item.e)
<1>1. Read /\ Item.i = "CHECK" /\ UNCHANGED <<decl, stage, cols, last, rows, restarts>>
  BY Zenon DEF ReadTableCheck
<1>2. stage = "parse" BY <1>1 DEF Read
<1>3. meant = [column |-> meant.column, table |-> meant.table] BY DEF ReadSoFar, Columns
<1>4. CASE Contains(tableChecks, TextOf(Item.e))
  <2>1. UNCHANGED <<tableChecks, meant>> BY <1>4, Zenon DEF ReadTableCheck
  <2> QED BY <1>1, <1>2, <1>3, <2>1
<1>5. CASE ~Contains(tableChecks, TextOf(Item.e))
  <2> DEFINE w == Append(meant.table, Item.e)
  <2>1. tableChecks' = Append(tableChecks, TextOf(Item.e)) /\ meant' = [meant EXCEPT !.table = w]
    BY <1>5, Zenon DEF ReadTableCheck
  <2> HIDE DEF w
  <2>2. meant'.table = w /\ meant' = [column |-> meant.column, table |-> w] BY <1>3, <2>1
  <2> QED BY <1>1, <1>2, <2>1, <2>2 DEF w
<1> QED BY <1>4, <1>5

\* The text that Built keeps, before it is normalised.
BuiltText(n, c) ==
    IF c.enum = <<>> THEN c.check
    ELSE IF c.check = NoText THEN ListText(Strings(c.enum))
    ELSE <<Kw("(")>> \o c.check \o <<Kw(")"), Kw("AND"), Kw("(")>>
         \o PrimaryText(EnumPredicate(n, c.enum), <<>>) \o <<Kw(")")>>

LEMMA BuiltSays ==
    ASSUME NEW n, NEW c, IsColumn(c)
    PROVE  /\ IsColumn(Built(n, c))
           /\ Built(n, c).pk = c.pk /\ Built(n, c).uq = c.uq /\ Built(n, c).fk = c.fk
           /\ Built(n, c).nn = (c.nn \/ c.pk)
           /\ Built(n, c).check = NormalizeStoredColumnCheckExpr(BuiltText(n, c), n)
<1> DEFINE check == NormalizeStoredColumnCheckExpr(BuiltText(n, c), n)
           nn == c.nn \/ c.pk
<1>1. Built(n, c) = [c EXCEPT !.nn = nn, !.check = check] BY Zenon DEF Built, BuiltText
<1>2. /\ c.pk \in BOOLEAN /\ c.nn \in BOOLEAN /\ c.uq \in BOOLEAN /\ nn \in BOOLEAN
      /\ c = [pk |-> c.pk, nn |-> c.nn, uq |-> c.uq, fk |-> c.fk, check |-> c.check, enum |-> c.enum]
  BY DEF IsColumn
<1> HIDE DEF check, nn
<1>3. Built(n, c) = [pk |-> c.pk, nn |-> nn, uq |-> c.uq, fk |-> c.fk, check |-> check, enum |-> c.enum]
  BY <1>1, <1>2
<1>4. /\ IsColumn(Built(n, c)) /\ Built(n, c).pk = c.pk /\ Built(n, c).uq = c.uq
      /\ Built(n, c).fk = c.fk /\ Built(n, c).nn = nn /\ Built(n, c).check = check
  BY <1>2, <1>3 DEF IsColumn
<1> QED BY <1>4 DEF nn, check

\* While a CREATE TABLE is read its table is not live.
LEMMA ReadersOnly ==
    ASSUME ReadSoFar, stage' = "live"
    PROVE  ~(ReadColumn \/ ReadColumnClause \/ ReadTableCheck \/ ReadPrimaryKey \/ ReadForeignKey)
BY ReadColumnDoes, ReadColumnClauseDoes, ReadTableCheckDoes, ReadPrimaryKeyDoes, ReadForeignKeyDoes

LEMMA BuildDoes ==
    ASSUME ReadSoFar, Build
    PROVE  /\ stage = "parse" /\ stage' = "live" /\ todo = <<>> /\ Done = Len(decl)
           /\ UNCHANGED <<todo, decl, last, tableChecks, rows, restarts>>
           /\ cols' = [n \in DOMAIN cols |-> Built(n, cols[n])]
           /\ meant' = [column |-> meant'.column, table |-> meant.table]
           /\ meant'.column = [n \in DOMAIN cols |-> BuiltMeaning(n, cols[n], meant.column[n])]
<1>1. /\ stage = "parse" /\ stage' = "live" /\ todo = <<>>
      /\ UNCHANGED <<todo, decl, last, tableChecks, rows, restarts>>
      /\ cols' = [n \in DOMAIN cols |-> Built(n, cols[n])]
  BY Zenon DEF Build
<1>2. Done = Len(decl)
  <2>1. Declaration(decl) /\ Done \in 0..Len(decl) BY ChecksAssumption DEF ReadSoFar, Reading
  <2>2. Len(decl) \in Nat BY <2>1 DEF Declaration
  <2>3. Len(<<>>) = 0 OBVIOUS
  <2> QED BY <1>1, <2>1, <2>2, <2>3 DEF Done
<1> DEFINE w == [n \in DOMAIN cols |-> BuiltMeaning(n, cols[n], meant.column[n])]
<1>3. meant' = [meant EXCEPT !.column = w] BY Zenon DEF Build
<1>4. meant = [column |-> meant.column, table |-> meant.table] BY DEF ReadSoFar, Columns
<1> HIDE DEF w
<1>5. meant'.column = w /\ meant' = [column |-> w, table |-> meant.table] BY <1>3, <1>4
<1> QED BY <1>1, <1>2, <1>5 DEF w

\* How a RENAME changes the names of the columns, and each column.
OldName(n, from) == IF n = NewName THEN from ELSE n
NewNameOf(n, from) == IF n = from THEN NewName ELSE n
RenamedColumn(c, from) == [c EXCEPT !.check = Rewritten(@, from, NewName)]

LEMMA RenamedSays ==
    ASSUME NEW c, IsColumn(c), NEW from
    PROVE  LET now == RenamedColumn(c, from) IN
           /\ IsColumn(now) /\ now.pk = c.pk /\ now.uq = c.uq /\ now.fk = c.fk /\ now.nn = c.nn
           /\ now.check = Rewritten(c.check, from, NewName)
<1> DEFINE check == Rewritten(c.check, from, NewName)
<1>1. RenamedColumn(c, from) = [c EXCEPT !.check = check] BY Zenon DEF RenamedColumn
<1>2. /\ c.pk \in BOOLEAN /\ c.nn \in BOOLEAN /\ c.uq \in BOOLEAN
      /\ c = [pk |-> c.pk, nn |-> c.nn, uq |-> c.uq, fk |-> c.fk, check |-> c.check, enum |-> c.enum]
  BY DEF IsColumn
<1> HIDE DEF check
<1>3. RenamedColumn(c, from)
        = [pk |-> c.pk, nn |-> c.nn, uq |-> c.uq, fk |-> c.fk, check |-> check, enum |-> c.enum]
  BY <1>1, <1>2
<1>4. /\ IsColumn(RenamedColumn(c, from)) /\ RenamedColumn(c, from).pk = c.pk
      /\ RenamedColumn(c, from).uq = c.uq /\ RenamedColumn(c, from).fk = c.fk
      /\ RenamedColumn(c, from).nn = c.nn /\ RenamedColumn(c, from).check = check
  BY <1>2, <1>3 DEF IsColumn
<1> QED BY <1>4 DEF check

LEMMA RenameDoes ==
    ASSUME ReadSoFar, NEW from \in Names, Rename(from)
    PROVE  LET names == {NewNameOf(n, from) : n \in DOMAIN cols} IN
           /\ stage = "live" /\ UNCHANGED <<todo, decl, stage, last, restarts>>
           /\ from \in DOMAIN cols /\ NewName \notin DOMAIN cols
           /\ cols' = [n \in names |-> RenamedColumn(cols[OldName(n, from)], from)]
           /\ tableChecks' = [k \in DOMAIN tableChecks |-> Rewritten(tableChecks[k], from, NewName)]
           /\ rows' = {[n \in names |-> r[OldName(n, from)]] : r \in rows}
           /\ Valid(cols', tableChecks', rows')
           /\ meant' = [column |-> [n \in names |->
                                      RenamedIn(meant.column[OldName(n, from)], from, NewName)],
                        table |-> [k \in DOMAIN meant.table |->
                                     RenamedIn(meant.table[k], from, NewName)]]
BY Zenon DEF Rename, NewNameOf, OldName, RenamedColumn

LEMMA RenamedNames ==
    ASSUME NEW names, NEW from \in names, NewName \notin names
    PROVE  /\ {NewNameOf(n, from) : n \in names} = (names \ {from}) \cup {NewName}
           /\ \A n \in {NewNameOf(m, from) : m \in names} : OldName(n, from) \in names
           /\ \A n \in names : OldName(NewNameOf(n, from), from) = n
BY DEF NewNameOf, OldName

RestartedColumn(n, c, several) ==
    [c EXCEPT !.check = Reloaded(@, n), !.uq = @ /\ ~several]

LEMMA RestartedSays ==
    ASSUME NEW n, NEW c, IsColumn(c), NEW several \in BOOLEAN
    PROVE  LET now == RestartedColumn(n, c, several) IN
           /\ IsColumn(now) /\ now.pk = c.pk /\ now.fk = c.fk /\ now.nn = c.nn
           /\ now.uq = (c.uq /\ ~several) /\ now.check = Reloaded(c.check, n)
<1> DEFINE check == Reloaded(c.check, n)
           uq == c.uq /\ ~several
<1>1. RestartedColumn(n, c, several) = [c EXCEPT !.check = check, !.uq = uq]
  BY Zenon DEF RestartedColumn
<1>2. /\ c.pk \in BOOLEAN /\ c.nn \in BOOLEAN /\ c.uq \in BOOLEAN /\ uq \in BOOLEAN
      /\ c = [pk |-> c.pk, nn |-> c.nn, uq |-> c.uq, fk |-> c.fk, check |-> c.check, enum |-> c.enum]
  BY DEF IsColumn
<1> HIDE DEF check, uq
<1>3. RestartedColumn(n, c, several)
        = [pk |-> c.pk, nn |-> c.nn, uq |-> uq, fk |-> c.fk, check |-> check, enum |-> c.enum]
  BY <1>1, <1>2
<1>4. /\ IsColumn(RestartedColumn(n, c, several)) /\ RestartedColumn(n, c, several).pk = c.pk
      /\ RestartedColumn(n, c, several).fk = c.fk /\ RestartedColumn(n, c, several).nn = c.nn
      /\ RestartedColumn(n, c, several).uq = uq /\ RestartedColumn(n, c, several).check = check
  BY <1>2, <1>3 DEF IsColumn
<1> QED BY <1>4 DEF check, uq

Keyed(cs) == {n \in DOMAIN cs : cs[n].pk}
OneOfSeveral(cs, n) == n \in Keyed(cs) /\ Cardinality(Keyed(cs)) > 1

LEMMA RestartDoes ==
    ASSUME Restart, stage' = "live"
    PROVE  /\ stage = "live" /\ restarts' = TRUE
           /\ UNCHANGED <<todo, decl, stage, last, tableChecks, meant, rows>>
           /\ cols' = [n \in DOMAIN cols |-> RestartedColumn(n, cols[n], OneOfSeveral(cols, n))]
BY Zenon DEF Restart, RestartedColumn, OneOfSeveral, Keyed

LEMMA RestartRefused ==
    ASSUME Restart, stage' # "live"
    PROVE  /\ stage' = "failed" /\ stage = "live"
           /\ UNCHANGED <<todo, decl, cols, last, tableChecks, meant, rows, restarts>>
BY Zenon DEF Restart

LEMMA AddCheckDoes ==
    ASSUME ReadSoFar, NEW e \in LaterChecks, AddCheck(e)
    PROVE  /\ stage = "live" /\ ~Renaming
           /\ UNCHANGED <<todo, decl, stage, cols, last, rows, restarts>>
           /\ tableChecks' = Append(tableChecks, TextOf(e)) /\ Valid(cols, tableChecks', rows)
           /\ meant' = [column |-> meant.column, table |-> Append(meant.table, e)]
<1>1. /\ stage = "live" /\ ~Renaming
      /\ UNCHANGED <<todo, decl, stage, cols, last, rows, restarts>>
      /\ tableChecks' = Append(tableChecks, TextOf(e)) /\ Valid(cols, tableChecks', rows)
  BY Zenon DEF AddCheck
<1> DEFINE w == Append(meant.table, e)
<1>2. meant' = [meant EXCEPT !.table = w] BY Zenon DEF AddCheck
<1>3. meant = [column |-> meant.column, table |-> meant.table] BY DEF ReadSoFar, Columns
<1> HIDE DEF w
<1>4. meant' = [column |-> meant.column, table |-> w] BY <1>2, <1>3
<1> QED BY <1>1, <1>4 DEF w

\* The reading is an invariant.
LEMMA ReadSoFarInit == Init => ReadSoFar
<1> SUFFICES ASSUME Init PROVE ReadSoFar OBVIOUS
<1>1. decl \in Declarations /\ Declaration(decl) /\ todo = decl BY ChecksAssumption DEF Init
<1>2. decl \in Seq(ToSet(decl)) /\ Len(decl) \in Nat BY <1>1 DEF Declaration
<1>3. Done = 0 BY <1>1, <1>2 DEF Done
<1>4. Reading
  <2>1. SubSeq(decl, 1, Len(decl)) = decl BY <1>2
  <2>2. Done + 1 = 1 /\ Done \in 0..Len(decl) BY <1>2, <1>3
  <2> HIDE DEF Done
  <2>3. todo = SubSeq(decl, Done + 1, Len(decl)) BY <1>1, <2>1, <2>2
  <2> QED BY <1>1, <2>2, <2>3 DEF Init, Reading
<1>5. cols = <<>> /\ DOMAIN cols = {} /\ meant.column = <<>> BY DEF Init
<1>6. Columns
  <2>1. meant = [column |-> <<>>, table |-> <<>>] BY DEF Init
  <2>2. <<>> = [n \in {} |-> cols[n]] /\ <<>> = [n \in {} |-> meant.column[n]] OBVIOUS
  <2> QED BY <1>5, <2>1, <2>2 DEF Columns
<1>7. Parsing
  <2>1. 1..0 = {} /\ 0 \in Nat OBVIOUS
  <2>2. DeclaredIn(decl, 0) = {} BY <2>1 DEF DeclaredIn
  <2>3. OwnerOf(decl, 0) = "none" BY <2>1, OwnerNext
  <2>4. KeysDeclared(decl, 0) BY <2>1 DEF KeysDeclared
  <2> QED BY <1>3, <1>5, <2>2, <2>3, <2>4 DEF Init, Parsing
<1> QED BY <1>4, <1>6, <1>7 DEF ReadSoFar

\* Reading is kept by whatever reads an item, and by all that leaves todo alone.
LEMMA ReadingKept ==
    ASSUME ReadSoFar, decl' = decl, stage' \in {"parse", "live", "failed"}, restarts' \in BOOLEAN,
           Read \/ todo' = todo
    PROVE  Reading'
<1>1. CASE Read
  <2>1. /\ Done + 1 \in 1..Len(decl) /\ Done' = Done + 1 /\ todo' = SubSeq(decl, Done + 2, Len(decl))
        /\ Done \in Nat /\ Len(decl) \in Nat
    BY <1>1, ReadingNext
  <2>2. Done' + 1 = Done + 2 /\ Done' \in 0..Len(decl)
    <3> HIDE DEF Done
    <3> QED BY <2>1
  <2>3. todo' = SubSeq(decl', Done' + 1, Len(decl')) BY <2>1, <2>2
  <2> QED BY <2>2, <2>3 DEF ReadSoFar, Reading
<1>2. CASE todo' = todo
  <2>1. Done' = Done BY <1>2 DEF Done
  <2> QED BY <1>2, <2>1 DEF ReadSoFar, Reading
<1> QED BY <1>1, <1>2

LEMMA ReadSoFarNext == ReadSoFar /\ [Next]_vars => ReadSoFar'
<1> SUFFICES ASSUME ReadSoFar, [Next]_vars PROVE ReadSoFar' OBVIOUS
<1>0. /\ cols = [n \in DOMAIN cols |-> cols[n]] /\ \A n \in DOMAIN cols : IsColumn(cols[n])
      /\ DOMAIN cols \subseteq Names \cup {NewName}
      /\ meant = [column |-> meant.column, table |-> meant.table]
      /\ meant.column = [n \in DOMAIN cols |-> meant.column[n]]
      /\ decl \in Declarations /\ restarts \in BOOLEAN /\ stage \in {"parse", "live", "failed"}
  BY DEF ReadSoFar, Columns, Reading
<1>1. CASE UNCHANGED vars
  <2>1. Reading' BY <1>0, <1>1, ReadingKept DEF vars
  <2>2. Columns' BY <1>1 DEF ReadSoFar, Columns, vars
  <2>3. Parsing' BY <1>1 DEF ReadSoFar, Parsing, vars, Done
  <2> QED BY <2>1, <2>2, <2>3 DEF ReadSoFar
<1>2. CASE ReadColumn
  <2>1. /\ Read /\ Item.i = "column" /\ UNCHANGED <<decl, tableChecks, rows, restarts>>
        /\ stage = "parse" /\ meant' = [column |-> meant'.column, table |-> meant.table]
    BY <1>2, ReadColumnDoes
  <2>2. /\ Declaration(decl) /\ Done + 1 \in 1..Len(decl) /\ Done \in Nat /\ Len(decl) \in Nat
        /\ Item = decl[Done + 1] /\ Done' = Done + 1 /\ DOMAIN cols = DeclaredIn(decl, Done)
    BY <2>1, ReadingNext
  <2>3. Reading'
    <3>1. stage' \in {"parse", "live", "failed"} BY <1>0, <1>2, ReadColumnDoes
    <3> QED BY <1>0, <2>1, <3>1, ReadingKept
  <2>4. CASE stage' = "failed" /\ UNCHANGED <<cols, last, meant>>
    <3>1. Columns' BY <1>0, <2>4 DEF Columns
    <3>2. Parsing' BY <2>4 DEF Parsing
    <3> QED BY <2>3, <3>1, <3>2 DEF ReadSoFar
  <2>5. CASE /\ stage' = "parse" /\ last' = Item.n /\ Item.n \notin DOMAIN cols
             /\ cols' = With(cols, Item.n, Plain(Item))
             /\ meant'.column = With(meant.column, Item.n, <<>>)
    <3>1. /\ DOMAIN cols' = DOMAIN cols \cup {Item.n} /\ cols' = [n \in DOMAIN cols' |-> cols'[n]]
          /\ \A n \in DOMAIN cols : cols'[n] = cols[n]
          /\ cols'[Item.n] = Plain(Item)
      <4> DEFINE w == With(cols, Item.n, Plain(Item))
      <4>1. /\ DOMAIN w = DOMAIN cols \cup {Item.n} /\ w = [n \in DOMAIN cols \cup {Item.n} |-> w[n]]
            /\ \A n \in DOMAIN cols : n # Item.n => w[n] = cols[n]
            /\ w[Item.n] = Plain(Item)
        BY DEF With
      <4>2. cols' = w BY <2>5
      <4> HIDE DEF w
      <4> QED BY <2>5, <4>1, <4>2
    <3>2. meant'.column = [n \in DOMAIN cols' |-> meant'.column[n]]
      <4>1. DOMAIN meant.column = DOMAIN cols BY <1>0
      <4> DEFINE w == With(meant.column, Item.n, <<>>)
      <4>2. w = [n \in DOMAIN meant.column \cup {Item.n} |-> w[n]] BY DEF With
      <4>3. meant'.column = w BY <2>5
      <4> HIDE DEF w
      <4> QED BY <3>1, <4>1, <4>2, <4>3
    <3>3. Item.n \in Names BY <2>1, <2>2 DEF Declaration
    <3>4. IsColumn(Plain(Item)) BY DEF IsColumn, Plain
    <3>5. Columns'
      <4>1. \A n \in DOMAIN cols' : IsColumn(cols'[n]) BY <1>0, <3>1, <3>4
      <4> QED BY <1>0, <2>1, <3>1, <3>2, <3>3, <4>1 DEF Columns
    <3>6. DeclaredIn(decl, Done + 1) = DeclaredIn(decl, Done) \cup {Item.n} /\ OwnerOf(decl, Done + 1) = Item.n
      BY <2>1, <2>2, DeclaredNext, OwnerNext
    <3>7. KeysDeclared(decl, Done + 1)
      <4> SUFFICES ASSUME NEW p \in 1..Done + 1, decl[p].i = "PRIMARY_KEY"
                   PROVE  ToSet(decl[p].c) \subseteq DeclaredIn(decl, Done + 1) BY DEF KeysDeclared
      <4>1. p # Done + 1 BY <2>1, <2>2
      <4>2. p \in 1..Done
        <5> HIDE DEF Done
        <5> QED BY <2>2, <4>1
      <4> QED BY <2>1, <3>6, <4>2 DEF ReadSoFar, Parsing, KeysDeclared
    <3>8. Parsing'
      <4>1. DOMAIN cols' = DeclaredIn(decl', Done') /\ last' = OwnerOf(decl', Done')
        BY <2>1, <2>2, <2>5, <3>1, <3>6
      <4>2. KeysDeclared(decl', Done') BY <2>1, <2>2, <3>7
      <4>3. restarts' = FALSE BY <2>1 DEF ReadSoFar, Parsing
      <4> QED BY <4>1, <4>2, <4>3 DEF Parsing
    <3> QED BY <2>3, <3>5, <3>8 DEF ReadSoFar
  <2> QED BY <1>2, <2>4, <2>5, ReadColumnDoes
\* What the other items of a CREATE TABLE have in common.
<1>3. ASSUME Read, Item.i # "column", decl' = decl, restarts' = restarts, last' = last,
             stage' \in {"parse", "failed"}, DOMAIN cols' = DOMAIN cols,
             cols' = [n \in DOMAIN cols |-> cols'[n]], \A n \in DOMAIN cols : IsColumn(cols'[n]),
             meant' = [column |-> meant'.column, table |-> meant'.table],
             meant'.column = [n \in DOMAIN cols |-> meant'.column[n]],
             Item.i = "PRIMARY_KEY" => stage' = "failed" \/ ToSet(Item.c) \subseteq DOMAIN cols
      PROVE  ReadSoFar'
  <2>1. /\ Declaration(decl) /\ Done + 1 \in 1..Len(decl) /\ Done \in Nat /\ Len(decl) \in Nat
        /\ Item = decl[Done + 1] /\ Done' = Done + 1 /\ DOMAIN cols = DeclaredIn(decl, Done)
    BY <1>3, ReadingNext
  <2>2. Reading' BY <1>0, <1>3, ReadingKept
  <2>3. Columns' BY <1>0, <1>3 DEF Columns
  <2>4. DeclaredIn(decl, Done + 1) = DeclaredIn(decl, Done) /\ OwnerOf(decl, Done + 1) = OwnerOf(decl, Done)
    BY <1>3, <2>1, DeclaredNext, OwnerNext
  <2>5. stage = "parse" BY <1>3 DEF Read
  <2>6. CASE stage' = "failed"
    <3>1. Parsing' BY <2>6 DEF Parsing
    <3> QED BY <2>2, <2>3, <3>1 DEF ReadSoFar
  <2>7. CASE stage' = "parse"
    <3>1. KeysDeclared(decl, Done + 1)
      <4> SUFFICES ASSUME NEW p \in 1..Done + 1, decl[p].i = "PRIMARY_KEY"
                   PROVE  ToSet(decl[p].c) \subseteq DeclaredIn(decl, Done + 1) BY DEF KeysDeclared
      <4>1. CASE p = Done + 1 BY <1>3, <2>1, <2>4, <2>7, <4>1
      <4>2. CASE p # Done + 1
        <5>1. p \in 1..Done
          <6> HIDE DEF Done
          <6> QED BY <2>1, <4>2
        <5> QED BY <2>4, <2>5, <5>1 DEF ReadSoFar, Parsing, KeysDeclared
      <4> QED BY <4>1, <4>2
    <3>2. Parsing'
      <4>1. DOMAIN cols' = DeclaredIn(decl', Done') /\ last' = OwnerOf(decl', Done')
        BY <1>3, <2>1, <2>4, <2>5 DEF ReadSoFar, Parsing
      <4>2. KeysDeclared(decl', Done') BY <1>3, <2>1, <3>1
      <4>3. restarts' = FALSE BY <1>3, <2>5 DEF ReadSoFar, Parsing
      <4> QED BY <4>1, <4>2, <4>3 DEF Parsing
    <3> QED BY <2>2, <2>3, <3>2 DEF ReadSoFar
  <2> QED BY <1>3, <2>6, <2>7
<1>4. CASE ReadColumnClause
  <2>1. /\ Read /\ Item.i \in ClauseKinds /\ UNCHANGED <<decl, stage, last, tableChecks, rows, restarts>>
        /\ stage = "parse" /\ meant' = [column |-> meant'.column, table |-> meant.table]
        /\ last \in DOMAIN cols
        /\ cols' = [cols EXCEPT ![last] = ColumnClause(cols[last], Item)]
        /\ meant'.column = IF Item.i = "check" THEN [meant.column EXCEPT ![last] = Item.e]
                           ELSE meant.column
    BY <1>4, ReadColumnClauseDoes
  <2>2. IsColumn(ColumnClause(cols[last], Item)) BY <1>0, <2>1, ClauseSays
  <2> DEFINE c == ColumnClause(cols[last], Item)
  <2>3. cols' = [cols EXCEPT ![last] = c] /\ IsColumn(c) BY <2>1, <2>2
  <2> HIDE DEF c
  <2>4. /\ DOMAIN cols' = DOMAIN cols /\ cols' = [n \in DOMAIN cols |-> cols'[n]]
        /\ \A n \in DOMAIN cols : IsColumn(cols'[n])
    BY <1>0, <2>1, <2>3
  <2>5. meant'.column = [n \in DOMAIN cols |-> meant'.column[n]] BY <1>0, <2>1
  <2>6. Item.i # "column" /\ Item.i # "PRIMARY_KEY" BY <2>1 DEF ClauseKinds
  <2>7. meant' = [column |-> meant'.column, table |-> meant'.table] /\ stage' \in {"parse", "failed"}
    BY <2>1
  <2> QED BY <1>3, <2>1, <2>4, <2>5, <2>6, <2>7
<1>5. CASE ReadTableCheck
  <2>1. /\ Read /\ Item.i = "CHECK" /\ UNCHANGED <<decl, stage, cols, last, rows, restarts>>
        /\ stage = "parse" /\ meant' = [column |-> meant.column, table |-> meant'.table]
    BY <1>5, ReadTableCheckDoes
  <2>2. meant'.column = meant.column BY <2>1
  <2>3. meant' = [column |-> meant'.column, table |-> meant'.table] BY <2>1, <2>2
  <2>4. stage' \in {"parse", "failed"} /\ Item.i # "column" /\ Item.i # "PRIMARY_KEY" /\ decl' = decl
        /\ last' = last /\ restarts' = restarts /\ cols' = cols
    BY <2>1
  <2>5. /\ DOMAIN cols' = DOMAIN cols /\ cols' = [n \in DOMAIN cols |-> cols'[n]]
        /\ \A n \in DOMAIN cols : IsColumn(cols'[n])
        /\ meant'.column = [n \in DOMAIN cols |-> meant'.column[n]]
    BY <1>0, <2>2, <2>4
  <2> QED BY <1>3, <2>1, <2>3, <2>4, <2>5
<1>6. CASE ReadPrimaryKey
  <2>1. Read /\ Item.i = "PRIMARY_KEY" /\ UNCHANGED <<decl, last, tableChecks, meant, rows, restarts>>
    BY <1>6, ReadPrimaryKeyDoes
  <2>2. CASE stage' = "failed" /\ UNCHANGED cols BY <1>0, <1>3, <2>1, <2>2
  <2>3. CASE /\ stage' = "parse" /\ ToSet(Item.c) \subseteq DOMAIN cols
             /\ DOMAIN cols' = DOMAIN cols /\ cols' = [n \in DOMAIN cols |-> cols'[n]]
             /\ \A n \in DOMAIN cols :
                  cols'[n] = IF n \in ToSet(Item.c) THEN [cols[n] EXCEPT !.pk = TRUE, !.nn = TRUE]
                             ELSE cols[n]
    <3>1. ASSUME NEW n \in DOMAIN cols PROVE IsColumn(cols'[n])
      <4> DEFINE c == cols[n]
      <4>1. IsColumn(c) BY <1>0
      <4>2. IsColumn([c EXCEPT !.pk = TRUE, !.nn = TRUE])
        <5> DEFINE e == [c EXCEPT !.pk = TRUE, !.nn = TRUE]
        <5>1. e = [c EXCEPT !.pk = TRUE, !.nn = TRUE] OBVIOUS
        <5> HIDE DEF c, e
        <5>2. /\ c.uq \in BOOLEAN
              /\ c = [pk |-> c.pk, nn |-> c.nn, uq |-> c.uq, fk |-> c.fk, check |-> c.check, enum |-> c.enum]
          BY <4>1 DEF IsColumn
        <5>3. e = [pk |-> TRUE, nn |-> TRUE, uq |-> c.uq, fk |-> c.fk, check |-> c.check, enum |-> c.enum]
          BY <5>1, <5>2
        <5>4. IsColumn(e) BY <5>2, <5>3 DEF IsColumn
        <5> QED BY <5>4 DEF e
      <4> QED BY <2>3, <4>1, <4>2
    <3> QED BY <1>0, <1>3, <2>1, <2>3, <3>1
  <2> QED BY <1>6, <2>2, <2>3, ReadPrimaryKeyDoes
<1>7. CASE ReadForeignKey
  <2>1. /\ Read /\ Item.i = "FOREIGN_KEY"
        /\ UNCHANGED <<decl, stage, last, tableChecks, meant, rows, restarts>> /\ stage = "parse"
    BY <1>7, ReadForeignKeyDoes
  <2>2. CASE HeldByOne(Item)
    <3> DEFINE n == Item.c[1]
               c == [cols[n] EXCEPT !.fk = Item.refs[1]]
    <3>1. n \in DOMAIN cols /\ cols' = [cols EXCEPT ![n] = c]
      BY <1>7, <2>2, ReadForeignKeyDoes DEF HeldByOne
    <3>2. IsColumn(c)
      <4>1. IsColumn(cols[n]) BY <1>0, <3>1
      <4> DEFINE d == cols[n]
      <4>2. c = [d EXCEPT !.fk = Item.refs[1]] /\ IsColumn(d) BY <4>1
      <4> HIDE DEF d, c
      <4> QED BY <4>2 DEF IsColumn
    <3> HIDE DEF c
    <3>3. /\ DOMAIN cols' = DOMAIN cols /\ cols' = [m \in DOMAIN cols |-> cols'[m]]
          /\ \A m \in DOMAIN cols : IsColumn(cols'[m])
      BY <1>0, <3>1, <3>2
    <3> QED BY <1>0, <1>3, <2>1, <3>3
  <2>3. CASE ~HeldByOne(Item)
    <3>1. cols' = cols BY <1>7, <2>3, ReadForeignKeyDoes
    <3> QED BY <1>0, <1>3, <2>1, <3>1
  <2> QED BY <2>2, <2>3
<1>8. CASE Build
  <2>1. /\ stage = "parse" /\ stage' = "live"
        /\ UNCHANGED <<todo, decl, last, tableChecks, rows, restarts>>
        /\ cols' = [n \in DOMAIN cols |-> Built(n, cols[n])]
        /\ meant' = [column |-> meant'.column, table |-> meant.table]
        /\ meant'.column = [n \in DOMAIN cols |-> BuiltMeaning(n, cols[n], meant.column[n])]
    BY <1>8, BuildDoes
  <2>2. DOMAIN cols' = DOMAIN cols /\ \A n \in DOMAIN cols : cols'[n] = Built(n, cols[n]) BY <2>1
  <2>3. \A n \in DOMAIN cols : IsColumn(cols'[n]) BY <1>0, <2>2, BuiltSays
  <2>4. cols' = [n \in DOMAIN cols' |-> cols'[n]] BY <2>1
  <2>5. meant'.column = [n \in DOMAIN cols' |-> meant'.column[n]] BY <2>1, <2>2
  <2>6. Columns' BY <1>0, <2>1, <2>2, <2>3, <2>4, <2>5 DEF Columns
  <2>7. Reading' BY <1>0, <2>1, ReadingKept
  <2>8. Parsing' BY <2>1 DEF Parsing
  <2> QED BY <2>6, <2>7, <2>8 DEF ReadSoFar
<1>9. ASSUME NEW row \in Rows, Insert(row) PROVE ReadSoFar'
  <2>1. stage' = stage /\ stage = "live" /\ UNCHANGED <<todo, decl, stage, cols, meant, restarts>>
    BY <1>9 DEF Insert
  <2>2. Reading' BY <1>0, <2>1, ReadingKept
  <2>3. Columns' /\ Parsing' BY <1>0, <2>1 DEF Columns, Parsing
  <2> QED BY <2>2, <2>3 DEF ReadSoFar
<1>10. ASSUME NEW e \in LaterChecks, AddCheck(e) PROVE ReadSoFar'
  <2>1. /\ stage = "live" /\ UNCHANGED <<todo, decl, stage, cols, last, rows, restarts>>
        /\ meant' = [column |-> meant.column, table |-> Append(meant.table, e)]
    BY <1>10, AddCheckDoes
  <2>2. Reading' BY <1>0, <2>1, ReadingKept
  <2>3. meant'.column = meant.column /\ meant' = [column |-> meant'.column, table |-> meant'.table]
    BY <2>1
  <2>4. Columns' /\ Parsing' BY <1>0, <2>1, <2>3 DEF Columns, Parsing
  <2> QED BY <2>2, <2>4 DEF ReadSoFar
<1>11. ASSUME NEW from \in Names, Rename(from) PROVE ReadSoFar'
  <2> DEFINE names == {NewNameOf(n, from) : n \in DOMAIN cols}
             column == [n \in names |-> RenamedIn(meant.column[OldName(n, from)], from, NewName)]
             table == [k \in DOMAIN meant.table |-> RenamedIn(meant.table[k], from, NewName)]
  <2>1. /\ stage = "live" /\ UNCHANGED <<todo, decl, stage, last, restarts>>
        /\ from \in DOMAIN cols /\ NewName \notin DOMAIN cols
        /\ cols' = [n \in names |-> RenamedColumn(cols[OldName(n, from)], from)]
        /\ meant' = [column |-> column, table |-> table]
    BY <1>11, RenameDoes
  <2>2. /\ names = (DOMAIN cols \ {from}) \cup {NewName}
        /\ \A n \in names : OldName(n, from) \in DOMAIN cols
    BY <2>1, RenamedNames
  <2>3. DOMAIN column = names /\ column = [n \in names |-> column[n]] OBVIOUS
  <2> HIDE DEF names, column, table
  <2>4. /\ DOMAIN cols' = names /\ cols' = [n \in DOMAIN cols' |-> cols'[n]]
        /\ \A n \in names : cols'[n] = RenamedColumn(cols[OldName(n, from)], from)
    BY <2>1
  <2>5. \A n \in names : IsColumn(cols'[n]) BY <1>0, <2>2, <2>4, RenamedSays
  <2>6. /\ meant' = [column |-> meant'.column, table |-> meant'.table]
        /\ meant'.column = [n \in DOMAIN cols' |-> meant'.column[n]]
    BY <2>1, <2>3, <2>4
  <2>7. Columns' BY <1>0, <2>2, <2>4, <2>5, <2>6 DEF Columns
  <2>8. Reading' BY <1>0, <2>1, ReadingKept
  <2>9. Parsing' BY <2>1 DEF Parsing
  <2> QED BY <2>7, <2>8, <2>9 DEF ReadSoFar
<1>12. CASE Restart /\ stage' # "live"
  <2>1. /\ stage' = "failed"
        /\ UNCHANGED <<todo, decl, cols, last, tableChecks, meant, rows, restarts>>
    BY <1>12, RestartRefused
  <2>2. Reading' BY <1>0, <2>1, ReadingKept
  <2>3. Columns' /\ Parsing' BY <1>0, <2>1 DEF Columns, Parsing
  <2> QED BY <2>2, <2>3 DEF ReadSoFar
<1>13. CASE Restart /\ stage' = "live"
  <2>1. /\ stage = "live" /\ restarts' = TRUE
        /\ UNCHANGED <<todo, decl, stage, last, tableChecks, meant, rows>>
        /\ cols' = [n \in DOMAIN cols |-> RestartedColumn(n, cols[n], OneOfSeveral(cols, n))]
    BY <1>13, RestartDoes
  <2>2. DOMAIN cols' = DOMAIN cols /\ cols' = [n \in DOMAIN cols' |-> cols'[n]]
        /\ \A n \in DOMAIN cols : cols'[n] = RestartedColumn(n, cols[n], OneOfSeveral(cols, n))
    BY <2>1
  <2>3. ASSUME NEW n \in DOMAIN cols PROVE IsColumn(cols'[n])
    <3>1. OneOfSeveral(cols, n) \in BOOLEAN BY DEF OneOfSeveral
    <3> QED BY <1>0, <2>2, <3>1, RestartedSays
  <2>4. Columns' BY <1>0, <2>1, <2>2, <2>3 DEF Columns
  <2>5. Reading' BY <1>0, <2>1, ReadingKept
  <2>6. Parsing' BY <2>1 DEF Parsing
  <2> QED BY <2>4, <2>5, <2>6 DEF ReadSoFar
<1> QED BY <1>1, <1>2, <1>4, <1>5, <1>6, <1>7, <1>8, <1>9, <1>10, <1>11, <1>12, <1>13 DEF Next

----------------------------------------------------------------------------
(* The constraints of a column are those its declaration says *)

Says(c, d, k, n) ==
    /\ c.pk <=> KeyOf(d, k, n)
    /\ c.uq <=> OfColumn(d, k, n, {"unique"}) # {}
    /\ ~c.pk => (c.nn <=> NotNullOf(d, k, n))
    /\ ReferenceOf(d, k, n, c.fk)
SaidSoFar == stage = "parse" => \A n \in DOMAIN cols : Says(cols[n], decl, Done, n)

\* How the next item has to change a column.
Follows(now, c, item, mine, held, n) ==
    /\ now.pk <=> c.pk \/ (mine /\ item.i = "primary_key") \/ (item.i = "PRIMARY_KEY" /\ n \in ToSet(item.c))
    /\ now.uq <=> c.uq \/ (mine /\ item.i = "unique")
    /\ ~now.pk => (now.nn <=> \/ mine /\ item.i = "not_null"
                              \/ ~(mine /\ item.i \in {"null", "not_null"}) /\ c.nn)
    /\ mine /\ item.i = "references" => now.fk = item.ref
    /\ held => now.fk = item.refs[1]
    /\ ~(mine /\ item.i = "references") /\ ~held => now.fk = c.fk

LEMMA SaysStep ==
    ASSUME NEW d, NEW k \in Nat, NEW n, NEW c, NEW now, Says(c, d, k, n),
           Follows(now, c, d[k + 1], ClauseAt(d, k + 1, n), ReferenceAt(d, k + 1, n), n)
    PROVE  Says(now, d, k + 1, n)
<1> DEFINE i == d[k + 1].i
           mine == ClauseAt(d, k + 1, n)
           held == ReferenceAt(d, k + 1, n)
           key == i = "PRIMARY_KEY" /\ n \in ToSet(d[k + 1].c)
<1>1. /\ KeyOf(d, k + 1, n) <=> KeyOf(d, k, n) \/ (mine /\ i = "primary_key") \/ key
      /\ OfColumn(d, k + 1, n, {"unique"}) # {} <=>
           OfColumn(d, k, n, {"unique"}) # {} \/ (mine /\ i = "unique")
      /\ NotNullOf(d, k + 1, n) <=>
           \/ mine /\ i = "not_null"
           \/ ~(mine /\ i \in {"null", "not_null"}) /\ NotNullOf(d, k, n)
      /\ \A fk : ReferenceOf(d, k + 1, n, fk) <=>
                   \/ mine /\ i = "references" /\ fk = d[k + 1].ref
                   \/ held /\ fk = d[k + 1].refs[1]
                   \/ ~(mine /\ i = "references") /\ ~held /\ ReferenceOf(d, k, n, fk)
  BY SaysNext, Zenon
<1>2. /\ now.pk <=> c.pk \/ (mine /\ i = "primary_key") \/ key
      /\ now.uq <=> c.uq \/ (mine /\ i = "unique")
      /\ ~now.pk => (now.nn <=> \/ mine /\ i = "not_null"
                                \/ ~(mine /\ i \in {"null", "not_null"}) /\ c.nn)
      /\ mine /\ i = "references" => now.fk = d[k + 1].ref
      /\ held => now.fk = d[k + 1].refs[1]
      /\ ~(mine /\ i = "references") /\ ~held => now.fk = c.fk
  BY Zenon DEF Follows
<1>3. held => i # "references" BY DEF ReferenceAt
<1> HIDE DEF i, mine, held, key
<1>4. /\ c.pk <=> KeyOf(d, k, n)
      /\ c.uq <=> OfColumn(d, k, n, {"unique"}) # {}
      /\ ~c.pk => (c.nn <=> NotNullOf(d, k, n))
      /\ ReferenceOf(d, k, n, c.fk)
  BY DEF Says
<1>5. now.pk <=> KeyOf(d, k + 1, n) BY <1>1, <1>2, <1>4
<1>6. now.uq <=> OfColumn(d, k + 1, n, {"unique"}) # {} BY <1>1, <1>2, <1>4
<1>7. ~now.pk => (now.nn <=> NotNullOf(d, k + 1, n)) BY <1>1, <1>2, <1>4
<1>8. ReferenceOf(d, k + 1, n, now.fk)
  <2>1. CASE mine /\ i = "references" BY <1>1, <1>2, <2>1
  <2>2. CASE held BY <1>1, <1>2, <2>2
  <2>3. CASE ~(mine /\ i = "references") /\ ~held BY <1>1, <1>2, <1>4, <2>3
  <2> QED BY <2>1, <2>2, <2>3
<1> QED BY <1>5, <1>6, <1>7, <1>8 DEF Says

LEMMA SaidSoFarInit == Init => SaidSoFar
<1> SUFFICES ASSUME Init PROVE SaidSoFar OBVIOUS
<1>1. cols = <<>> /\ DOMAIN cols = {} BY DEF Init
<1> QED BY <1>1 DEF SaidSoFar

LEMMA SaidSoFarNext == ReadSoFar /\ SaidSoFar /\ [Next]_vars => SaidSoFar'
<1> SUFFICES ASSUME ReadSoFar, SaidSoFar, [Next]_vars, stage' = "parse", NEW n \in DOMAIN cols'
             PROVE  Says(cols'[n], decl', Done', n) BY DEF SaidSoFar
<1>0. \A m \in DOMAIN cols : IsColumn(cols[m]) BY DEF ReadSoFar, Columns
<1>1. CASE UNCHANGED vars
  <2>1. Done' = Done BY <1>1 DEF vars, Done
  <2> QED BY <1>1, <2>1 DEF vars, SaidSoFar
\* What any item does to a column is what it says of it.
<1>2. ASSUME Read, decl' = decl, NEW c, Says(c, decl, Done, n),
             Follows(cols'[n], c, Item, ClauseAt(decl, Done + 1, n), ReferenceAt(decl, Done + 1, n), n)
      PROVE  Says(cols'[n], decl', Done', n)
  <2>1. Item = decl[Done + 1] /\ Done' = Done + 1 /\ Done \in Nat BY <1>2, ReadingNext
  <2>2. Says(cols'[n], decl, Done + 1, n)
    <3> HIDE DEF Done
    <3> QED BY <1>2, <2>1, SaysStep
  <2> QED BY <1>2, <2>1, <2>2
<1>3. ASSUME stage = "parse", n \in DOMAIN cols PROVE Says(cols[n], decl, Done, n) /\ IsColumn(cols[n])
  BY <1>0, <1>3 DEF SaidSoFar
<1>4. CASE ReadColumn
  <2>1. /\ Read /\ Item.i = "column" /\ decl' = decl /\ stage = "parse"
        /\ Item.n \notin DOMAIN cols /\ cols' = With(cols, Item.n, Plain(Item))
    BY <1>4, ReadColumnDoes
  <2>2. /\ Declaration(decl) /\ Done + 1 \in 1..Len(decl) /\ Done \in Nat /\ Len(decl) \in Nat
        /\ Item = decl[Done + 1] /\ DOMAIN cols = DeclaredIn(decl, Done)
    BY <2>1, ReadingNext
  <2>3. ~ClauseAt(decl, Done + 1, n) /\ ~ReferenceAt(decl, Done + 1, n)
    BY <2>1, <2>2 DEF ClauseAt, ReferenceAt, ClauseKinds
  <2>4. ASSUME NEW c, IsColumn(c), cols'[n] = c, Says(c, decl, Done, n)
        PROVE  Says(cols'[n], decl', Done', n)
    <3>1. Follows(c, c, Item, ClauseAt(decl, Done + 1, n), ReferenceAt(decl, Done + 1, n), n)
      BY <2>1, <2>3 DEF Follows
    <3> QED BY <1>2, <2>1, <2>4, <3>1
  <2>5. CASE n = Item.n
    <3>1. cols'[n] = Plain(Item) BY <2>1, <2>5 DEF With
    <3>2. Says(Plain(Item), decl, Done, n)
      <4>1. KeysDeclared(decl, Done) /\ Done \in 0..Len(decl) /\ n \notin DeclaredIn(decl, Done)
        BY <2>1, <2>2, <2>5 DEF ReadSoFar, Reading, Parsing
      <4>2. \A p \in 1..Done : decl[p].i = "PRIMARY_KEY" => ToSet(decl[p].c) \subseteq DeclaredIn(decl, Done)
        BY <4>1 DEF KeysDeclared
      <4> HIDE DEF Done
      <4>3. /\ ~KeyOf(decl, Done, n) /\ OfColumn(decl, Done, n, {"unique"}) = {}
            /\ ~NotNullOf(decl, Done, n) /\ ReferenceOf(decl, Done, n, NoReference)
        BY <2>2, <4>1, <4>2, SaysNothing
      <4>4. ~Plain(Item).pk /\ ~Plain(Item).uq /\ ~Plain(Item).nn /\ Plain(Item).fk = NoReference
        BY DEF Plain
      <4> QED BY <4>3, <4>4 DEF Says
    <3>3. IsColumn(Plain(Item)) BY DEF Plain, IsColumn
    <3> QED BY <2>4, <3>1, <3>2, <3>3
  <2>6. CASE n # Item.n
    <3>1. n \in DOMAIN cols /\ cols'[n] = cols[n] BY <2>1, <2>6 DEF With
    <3> QED BY <1>3, <2>1, <2>4, <3>1
  <2> QED BY <2>5, <2>6
<1>5. CASE ReadColumnClause
  <2>1. /\ Read /\ Item.i \in ClauseKinds /\ decl' = decl /\ stage = "parse" /\ last \in DOMAIN cols
        /\ cols' = [cols EXCEPT ![last] = ColumnClause(cols[last], Item)]
    BY <1>5, ReadColumnClauseDoes
  <2>2. n \in DOMAIN cols /\ Item = decl[Done + 1] /\ OwnerOf(decl, Done + 1) = last
    BY <2>1, ReadingNext
  <2>3. Says(cols[n], decl, Done, n) /\ IsColumn(cols[n]) BY <1>3, <2>1, <2>2
  <2>4. Item.i # "FOREIGN_KEY" /\ Item.i # "PRIMARY_KEY" /\ ~ReferenceAt(decl, Done + 1, n)
    BY <2>1, <2>2 DEF ClauseKinds, ReferenceAt
  <2> DEFINE c == cols[n]
             now == cols'[n]
             k == Done + 1
  <2>5. Follows(now, c, Item, ClauseAt(decl, k, n), ReferenceAt(decl, k, n), n)
    <3>1. CASE n = last
      <4>1. ClauseAt(decl, k, n) BY <2>1, <2>2, <3>1 DEF ClauseAt
      <4>2. now = ColumnClause(c, Item) BY <2>1, <3>1
      <4>3. /\ now.pk <=> c.pk \/ Item.i = "primary_key"
            /\ now.uq <=> c.uq \/ Item.i = "unique"
            /\ now.nn <=> (c.nn /\ Item.i # "null") \/ Item.i \in {"primary_key", "not_null"}
            /\ now.fk = IF Item.i = "references" THEN Item.ref ELSE c.fk
        BY <2>1, <2>3, <4>2, ClauseSays
      <4> HIDE DEF now, c, k
      <4> QED BY <2>4, <4>1, <4>3 DEF Follows, k
    <3>2. CASE n # last
      <4>1. ~ClauseAt(decl, k, n) BY <2>2, <3>2 DEF ClauseAt
      <4>2. now = c BY <2>1, <2>2, <3>2
      <4> HIDE DEF now, c, k
      <4> QED BY <2>4, <4>1, <4>2 DEF Follows, k
    <3> QED BY <3>1, <3>2
  <2> QED BY <1>2, <2>1, <2>3, <2>5
<1>6. CASE ReadTableCheck
  <2>1. Read /\ Item.i = "CHECK" /\ decl' = decl /\ stage = "parse" /\ cols' = cols
    BY <1>6, ReadTableCheckDoes
  <2>2. Item = decl[Done + 1] BY <2>1, ReadingNext
  <2>3. Says(cols[n], decl, Done, n) /\ IsColumn(cols[n]) BY <1>3, <2>1
  <2>4. ~ClauseAt(decl, Done + 1, n) /\ ~ReferenceAt(decl, Done + 1, n)
    BY <2>1, <2>2 DEF ClauseAt, ReferenceAt, ClauseKinds
  <2>5. Follows(cols'[n], cols[n], Item, ClauseAt(decl, Done + 1, n), ReferenceAt(decl, Done + 1, n), n)
    BY <2>1, <2>4 DEF Follows
  <2> QED BY <1>2, <2>1, <2>3, <2>5
<1>7. CASE ReadPrimaryKey
  <2>1. /\ Read /\ Item.i = "PRIMARY_KEY" /\ decl' = decl /\ stage = "parse"
        /\ DOMAIN cols' = DOMAIN cols
        /\ cols'[n] = IF n \in ToSet(Item.c) THEN [cols[n] EXCEPT !.pk = TRUE, !.nn = TRUE] ELSE cols[n]
    <3>1. Read /\ Item.i = "PRIMARY_KEY" /\ decl' = decl /\ stage = "parse" /\ DOMAIN cols' = DOMAIN cols
      BY <1>7, ReadPrimaryKeyDoes
    <3>2. \A m \in DOMAIN cols :
             cols'[m] = IF m \in ToSet(Item.c) THEN [cols[m] EXCEPT !.pk = TRUE, !.nn = TRUE] ELSE cols[m]
      BY <1>7, ReadPrimaryKeyDoes
    <3> QED BY <3>1, <3>2
  <2>2. Item = decl[Done + 1] BY <2>1, ReadingNext
  <2>3. Says(cols[n], decl, Done, n) /\ IsColumn(cols[n]) BY <1>3, <2>1
  <2>4. ~ClauseAt(decl, Done + 1, n) /\ ~ReferenceAt(decl, Done + 1, n)
    BY <2>1, <2>2 DEF ClauseAt, ReferenceAt, ClauseKinds
  <2> DEFINE c == cols[n]
             now == cols'[n]
  <2>5. /\ now.pk <=> c.pk \/ n \in ToSet(Item.c)
        /\ now.uq = c.uq /\ now.fk = c.fk
        /\ n \notin ToSet(Item.c) => now.nn = c.nn
    <3>1. IsColumn(c) /\ now = IF n \in ToSet(Item.c) THEN [c EXCEPT !.pk = TRUE, !.nn = TRUE] ELSE c
      BY <2>1, <2>3
    <3> HIDE DEF c, now
    <3>2. c = [pk |-> c.pk, nn |-> c.nn, uq |-> c.uq, fk |-> c.fk, check |-> c.check, enum |-> c.enum]
      BY <3>1 DEF IsColumn
    <3> QED BY <3>1, <3>2
  <2>6. Follows(now, c, Item, ClauseAt(decl, Done + 1, n), ReferenceAt(decl, Done + 1, n), n)
    <3> HIDE DEF now, c, Done
    <3> QED BY <2>1, <2>4, <2>5 DEF Follows
  <2> QED BY <1>2, <2>1, <2>3, <2>6
<1>8. CASE ReadForeignKey
  <2>1. /\ Read /\ Item.i = "FOREIGN_KEY" /\ decl' = decl /\ stage = "parse"
        /\ HeldByOne(Item) => cols' = [cols EXCEPT ![Item.c[1]] = [cols[Item.c[1]] EXCEPT !.fk = Item.refs[1]]]
        /\ ~HeldByOne(Item) => cols' = cols
    BY <1>8, ReadForeignKeyDoes
  <2>2. /\ Declaration(decl) /\ Done + 1 \in 1..Len(decl) /\ Done \in Nat /\ Len(decl) \in Nat
        /\ Item = decl[Done + 1] /\ DOMAIN cols = DeclaredIn(decl, Done)
    BY <2>1, ReadingNext
  <2>3. n \in DOMAIN cols BY <2>1
  <2>4. Says(cols[n], decl, Done, n) /\ IsColumn(cols[n]) BY <1>3, <2>1, <2>3
  <2>5. ~ClauseAt(decl, Done + 1, n) BY <2>1, <2>2 DEF ClauseAt, ClauseKinds
  <2>6. DeclaredIn(decl, Done + 1) = DOMAIN cols
    <3> HIDE DEF Done
    <3> QED BY <2>1, <2>2, DeclaredNext
  <2>7. ReferenceAt(decl, Done + 1, n) <=> HeldByOne(Item) /\ Item.c[1] = n
    <3>1. Item.c \in Seq(Names) BY <2>1, <2>2 DEF Declaration
    <3>2. Item.c = <<n>> <=> Len(Item.c) = 1 /\ Item.c[1] = n
      <4> DEFINE s == Item.c
      <4>1. s \in Seq(Names) BY <3>1
      <4> HIDE DEF s
      <4>2. ASSUME s = <<n>> PROVE Len(s) = 1 /\ s[1] = n BY <4>2
      <4>3. ASSUME Len(s) = 1, s[1] = n PROVE s = <<n>> BY <4>1, <4>3
      <4> QED BY <4>2, <4>3 DEF s
    <3> QED BY <2>1, <2>2, <2>3, <2>6, <3>2 DEF ReferenceAt, HeldByOne
  <2> DEFINE c == cols[n]
             now == cols'[n]
             held == HeldByOne(Item) /\ Item.c[1] = n
  <2>8. /\ now.pk = c.pk /\ now.uq = c.uq /\ now.nn = c.nn
        /\ held => now.fk = Item.refs[1]
        /\ ~held => now.fk = c.fk
    <3>1. CASE held
      <4>1. IsColumn(c) /\ now = [c EXCEPT !.fk = Item.refs[1]] BY <2>1, <2>3, <2>4, <3>1
      <4> HIDE DEF c, now
      <4>2. c = [pk |-> c.pk, nn |-> c.nn, uq |-> c.uq, fk |-> c.fk, check |-> c.check, enum |-> c.enum]
        BY <4>1 DEF IsColumn
      <4> QED BY <3>1, <4>1, <4>2
    <3>2. CASE ~held
      <4>1. now = c BY <2>1, <2>3, <3>2
      <4> QED BY <3>2, <4>1
    <3> QED BY <3>1, <3>2
  <2>9. Follows(now, c, Item, ClauseAt(decl, Done + 1, n), ReferenceAt(decl, Done + 1, n), n)
    <3> HIDE DEF now, c, Done, held
    <3>1. ReferenceAt(decl, Done + 1, n) <=> held BY <2>7 DEF held
    <3> QED BY <2>1, <2>5, <2>8, <3>1 DEF Follows
  <2> QED BY <1>2, <2>1, <2>4, <2>9
<1>9. ASSUME stage # "parse", stage' = stage PROVE FALSE BY <1>9
<1>10. ~Build /\ ~Restart BY <1>9, Zenon DEF Build, Restart
<1>11. ASSUME NEW row \in Rows, Insert(row) PROVE FALSE BY <1>9, <1>11 DEF Insert
<1>12. ASSUME NEW e \in LaterChecks, AddCheck(e) PROVE FALSE BY <1>9, <1>12 DEF AddCheck
<1>13. ASSUME NEW from \in Names, Rename(from) PROVE FALSE BY <1>9, <1>13, Zenon DEF Rename
<1> QED BY <1>1, <1>4, <1>5, <1>6, <1>7, <1>8, <1>10, <1>11, <1>12, <1>13 DEF Next

\* The same of a live table, where the constraints are complete.
SaidOfAll(cs, d, afterStart) ==
    \A n \in DOMAIN cs :
        /\ cs[n].pk <=> KeyOf(d, Len(d), n)
        /\ cs[n].uq <=> /\ OfColumn(d, Len(d), n, {"unique"}) # {}
                        /\ afterStart /\ cs[n].pk => \A m \in DOMAIN cs : cs[m].pk => m = n
        /\ cs[n].nn <=> cs[n].pk \/ NotNullOf(d, Len(d), n)
        /\ ReferenceOf(d, Len(d), n, cs[n].fk)
SaidLive == stage = "live" /\ ~Renaming => SaidOfAll(cols, decl, restarts)

LEMMA SaidLiveIsKept == ReadSoFar /\ SaidLive => DeclarationKept
<1> SUFFICES ASSUME ReadSoFar, SaidLive, stage = "live", ~Renaming
             PROVE  LET Key(n) == KeyOf(decl, Len(decl), n)
                    IN \A n \in DOMAIN cols :
                        /\ cols[n].pk = Key(n)
                        /\ cols[n].uq = /\ OfColumn(decl, Len(decl), n, {"unique"}) # {}
                                        /\ restarts /\ Key(n) => \A m \in DOMAIN cols : Key(m) => m = n
                        /\ cols[n].nn = (Key(n) \/ NotNullOf(decl, Len(decl), n))
                        /\ ReferenceOf(decl, Len(decl), n, cols[n].fk)
  BY DEF DeclarationKept
<1> DEFINE Key(n) == KeyOf(decl, Len(decl), n)
           Unique(n) == OfColumn(decl, Len(decl), n, {"unique"}) # {}
           Only(n) == restarts /\ Key(n) => \A m \in DOMAIN cols : Key(m) => m = n
           NotNull(n) == NotNullOf(decl, Len(decl), n)
<1>1. ASSUME NEW n \in DOMAIN cols
      PROVE  /\ cols[n].pk \in BOOLEAN /\ cols[n].nn \in BOOLEAN /\ cols[n].uq \in BOOLEAN
             /\ cols[n].pk <=> Key(n)
             /\ cols[n].uq <=> /\ Unique(n)
                               /\ restarts /\ cols[n].pk => \A m \in DOMAIN cols : cols[m].pk => m = n
             /\ cols[n].nn <=> cols[n].pk \/ NotNull(n)
             /\ ReferenceOf(decl, Len(decl), n, cols[n].fk)
  BY Zenon DEF SaidLive, SaidOfAll, ReadSoFar, Columns, IsColumn
<1> HIDE DEF Key, Unique, NotNull
<1>2. ASSUME NEW n \in DOMAIN cols
      PROVE  /\ cols[n].pk = Key(n)
             /\ cols[n].uq = (Unique(n) /\ Only(n))
             /\ cols[n].nn = (Key(n) \/ NotNull(n))
  <2>1. (\A m \in DOMAIN cols : cols[m].pk => m = n) <=> (\A m \in DOMAIN cols : Key(m) => m = n)
    BY <1>1
  <2>2. Key(n) \in BOOLEAN BY DEF Key, KeyOf
  <2>3. cols[n].pk = Key(n) BY <1>1, <2>2
  <2>4. cols[n].uq = (Unique(n) /\ Only(n)) BY <1>1, <2>1, <2>3
  <2>5. cols[n].nn = (Key(n) \/ NotNull(n)) BY <1>1, <2>3
  <2> QED BY <2>3, <2>4, <2>5
<1> QED BY <1>1, <1>2, Zenon DEF Key, Unique, NotNull

LEMMA SaidLiveInit == Init => SaidLive
BY DEF Init, SaidLive

LEMMA Renamed == DOMAIN cols \subseteq Names <=> ~Renaming
BY DEF Renaming

LEMMA SaidLiveNext ==
    ReadSoFar /\ ReadSoFar' /\ SaidSoFar /\ SaidLive /\ [Next]_vars => SaidLive'
<1> SUFFICES ASSUME ReadSoFar, ReadSoFar', SaidSoFar, SaidLive, [Next]_vars,
                    stage' = "live", ~Renaming'
             PROVE  SaidOfAll(cols', decl', restarts') BY DEF SaidLive
<1>0. \A m \in DOMAIN cols : IsColumn(cols[m]) BY DEF ReadSoFar, Columns
<1>1. CASE UNCHANGED <<stage, decl, cols, restarts>> BY <1>1 DEF SaidLive, Renaming
<1>2. CASE Build
  <2>1. /\ stage = "parse" /\ Done = Len(decl) /\ decl' = decl /\ restarts' = restarts
        /\ cols' = [n \in DOMAIN cols |-> Built(n, cols[n])]
    BY <1>2, BuildDoes
  <2>2. restarts' = FALSE BY <2>1 DEF ReadSoFar, Parsing
  <2>3. ASSUME NEW n \in DOMAIN cols
        PROVE  /\ cols'[n].pk <=> KeyOf(decl, Len(decl), n)
               /\ cols'[n].uq <=> OfColumn(decl, Len(decl), n, {"unique"}) # {}
               /\ cols'[n].nn <=> cols'[n].pk \/ NotNullOf(decl, Len(decl), n)
               /\ ReferenceOf(decl, Len(decl), n, cols'[n].fk)
    <3>1. Says(cols[n], decl, Len(decl), n) /\ IsColumn(cols[n]) BY <1>0, <2>1 DEF SaidSoFar
    <3> DEFINE now == cols'[n]
               c == cols[n]
    <3>2. /\ now.pk = c.pk /\ now.uq = c.uq /\ now.fk = c.fk
          /\ now.nn = (c.nn \/ c.pk)
      BY <2>1, <3>1, BuiltSays
    <3>3. c.pk \in BOOLEAN /\ c.nn \in BOOLEAN BY <3>1 DEF IsColumn
    <3>4. Says(c, decl, Len(decl), n) BY <3>1
    <3> HIDE DEF now, c
    <3>5. /\ now.pk <=> KeyOf(decl, Len(decl), n)
          /\ now.uq <=> OfColumn(decl, Len(decl), n, {"unique"}) # {}
          /\ now.nn <=> now.pk \/ NotNullOf(decl, Len(decl), n)
          /\ ReferenceOf(decl, Len(decl), n, now.fk)
      BY <3>2, <3>3, <3>4 DEF Says
    <3> QED BY <3>5 DEF now
  <2>4. DOMAIN cols' = DOMAIN cols BY <2>1
  <2> QED BY <2>1, <2>2, <2>3, <2>4, Zenon DEF SaidOfAll
<1>3. CASE Restart
  <2>1. /\ stage = "live" /\ restarts' = TRUE /\ decl' = decl
        /\ cols' = [n \in DOMAIN cols |-> RestartedColumn(n, cols[n], OneOfSeveral(cols, n))]
    BY <1>3, RestartDoes
  <2>2. DOMAIN cols' = DOMAIN cols BY <2>1
  <2>3. DOMAIN cols \subseteq Names /\ ~Renaming BY <2>2 DEF Renaming
  <2>4. SaidOfAll(cols, decl, restarts) BY <2>1, <2>3 DEF SaidLive
  <2>5. IsFiniteSet(Keyed(cols)) /\ Keyed(cols) \subseteq DOMAIN cols
    <3>1. Keyed(cols) \subseteq Names BY <2>3 DEF Keyed
    <3> QED BY <3>1, ChecksAssumption, FS_Subset DEF Keyed
  <2>6. ASSUME NEW n \in DOMAIN cols, cols[n].pk
        PROVE  OneOfSeveral(cols, n) <=> ~\A m \in DOMAIN cols : cols[m].pk => m = n
    <3>1. n \in Keyed(cols) BY <2>6 DEF Keyed
    <3>2. CASE \A m \in DOMAIN cols : cols[m].pk => m = n
      <4>1. Keyed(cols) = {n} BY <3>1, <3>2 DEF Keyed
      <4>2. Cardinality(Keyed(cols)) = 1 BY <4>1, FS_Singleton
      <4> QED BY <3>2, <4>2 DEF OneOfSeveral
    <3>3. ASSUME NEW m \in DOMAIN cols, cols[m].pk, m # n PROVE OneOfSeveral(cols, n)
      <4>1. {m, n} \subseteq Keyed(cols) BY <3>1, <3>3 DEF Keyed
      <4>2. Cardinality({m, n}) = 2 /\ Cardinality(Keyed(cols)) \in Nat
        <5>1. IsFiniteSet({n}) /\ Cardinality({n}) = 1 BY FS_Singleton
        <5>2. {m, n} = {n} \cup {m} /\ m \notin {n} BY <3>3
        <5>3. Cardinality({n} \cup {m}) = 2 BY <5>1, <5>2, FS_AddElement
        <5> QED BY <2>5, <5>2, <5>3, FS_CardinalityType
      <4>3. Cardinality({m, n}) <= Cardinality(Keyed(cols)) BY <2>5, <4>1, FS_Subset
      <4> QED BY <3>1, <4>2, <4>3 DEF OneOfSeveral
    <3> QED BY <3>2, <3>3
  <2>7. ASSUME NEW n \in DOMAIN cols
        PROVE  /\ cols'[n].pk <=> KeyOf(decl, Len(decl), n)
               /\ cols'[n].uq <=> /\ OfColumn(decl, Len(decl), n, {"unique"}) # {}
                                  /\ cols'[n].pk => \A m \in DOMAIN cols : cols[m].pk => m = n
               /\ cols'[n].nn <=> cols'[n].pk \/ NotNullOf(decl, Len(decl), n)
               /\ ReferenceOf(decl, Len(decl), n, cols'[n].fk)
               /\ cols'[n].pk = cols[n].pk
    <3> DEFINE now == cols'[n]
               c == cols[n]
               several == OneOfSeveral(cols, n)
               only == \A m \in DOMAIN cols : cols[m].pk => m = n
               key == KeyOf(decl, Len(decl), n)
               unique == OfColumn(decl, Len(decl), n, {"unique"}) # {}
    <3>1. IsColumn(c) /\ several \in BOOLEAN /\ now = RestartedColumn(n, c, several)
      BY <1>0, <2>1 DEF OneOfSeveral
    <3>2. /\ now.pk = c.pk /\ now.fk = c.fk /\ now.nn = c.nn /\ now.uq = (c.uq /\ ~several)
      <4> HIDE DEF now, c, several
      <4> QED BY <3>1, RestartedSays
    <3>3. /\ c.pk <=> key
          /\ c.uq <=> unique /\ (restarts /\ c.pk => only)
          /\ c.nn <=> c.pk \/ NotNullOf(decl, Len(decl), n)
          /\ ReferenceOf(decl, Len(decl), n, c.fk)
      BY <2>4, Zenon DEF SaidOfAll
    <3>4. (c.pk => (several <=> ~only)) /\ (~c.pk => ~several)
      <4>1. c.pk => (several <=> ~only) BY <2>6
      <4>2. ~c.pk => ~several BY DEF OneOfSeveral, Keyed
      <4> QED BY <4>1, <4>2
    <3>5. c.pk \in BOOLEAN /\ c.uq \in BOOLEAN /\ restarts \in BOOLEAN
      BY <3>1 DEF IsColumn, ReadSoFar, Reading
    <3> HIDE DEF now, c, several, only, key, unique
    <3>6. /\ now.pk <=> key
          /\ now.uq <=> unique /\ (now.pk => only)
          /\ now.nn <=> now.pk \/ NotNullOf(decl, Len(decl), n)
          /\ ReferenceOf(decl, Len(decl), n, now.fk)
          /\ now.pk = c.pk
      BY <3>1, <3>2, <3>3, <3>4, <3>5
    <3> QED BY <3>6, Zenon DEF now, c, several, only, key, unique
  <2>8. ASSUME NEW n \in DOMAIN cols
        PROVE  (\A m \in DOMAIN cols : cols[m].pk => m = n) <=> (\A m \in DOMAIN cols : cols'[m].pk => m = n)
    BY <2>7
  <2> QED BY <2>1, <2>2, <2>7, <2>8, Zenon DEF SaidOfAll
<1>4. ASSUME NEW from \in Names, Rename(from) PROVE FALSE
  <2>1. /\ from \in DOMAIN cols /\ NewName \notin DOMAIN cols
        /\ DOMAIN cols' = {NewNameOf(n, from) : n \in DOMAIN cols}
    BY <1>4, RenameDoes
  <2>2. NewName \in DOMAIN cols' BY <2>1, RenamedNames
  <2> QED BY <2>2, ChecksAssumption DEF Renaming
<1>5. CASE UNCHANGED vars BY <1>1, <1>5 DEF vars
<1>6. ASSUME NEW row \in Rows, Insert(row) PROVE SaidOfAll(cols', decl', restarts')
  BY <1>1, <1>6 DEF Insert
<1>7. ASSUME NEW e \in LaterChecks, AddCheck(e) PROVE SaidOfAll(cols', decl', restarts')
  BY <1>1, <1>7, AddCheckDoes
<1> QED BY <1>2, <1>3, <1>4, <1>5, <1>6, <1>7, ReadersOnly DEF Next

\* The constraints of every column of the table are those its declaration says:
\* the parser's clauses, one after another on the column read last, the table
\* constraints after them, buildTableMetadata and the restarts lose none and
\* invent none, but for the keys of several columns and UNIQUE in them.
THEOREM DeclarationIsKept == Spec => []DeclarationKept
<1> DEFINE Inv == ReadSoFar /\ SaidSoFar /\ SaidLive
<1>1. Init => Inv BY ReadSoFarInit, SaidSoFarInit, SaidLiveInit
<1>2. Inv /\ [Next]_vars => Inv' BY ReadSoFarNext, SaidSoFarNext, SaidLiveNext
<1>3. Inv => DeclarationKept BY SaidLiveIsKept
<1> HIDE DEF Inv
<1> QED BY <1>1, <1>2, <1>3, PTL DEF Spec
----------------------------------------------------------------------------
(* Texts *)

\* What Separated puts together.
LEMMA SeparatedIs ==
    ASSUME NEW parts, NEW separator
    PROVE  Separated(parts, separator) = FlattenSeq(WithSeparators(parts, separator))
BY DEF Separated, WithSeparators

LEMMA SeparatedPlaces ==
    ASSUME NEW S, NEW parts \in Seq(Seq(S)) \ {<<>>}, NEW separator \in S
    PROVE  /\ Separated(parts, separator) \in Seq(S)
           /\ \E at : PartsAt(at, parts, separator, Separated(parts, separator))
BY SeparatedIs, SeparatedAre

----------------------------------------------------------------------------
(* Tokens and the texts of expressions *)

Symbols(names) ==
    ValueTok(names) \cup {Tok("op", o) : o \in Operators} \cup {Comma}
    \cup {Kw(w) : w \in {"(", ")", "AND", "OR", "NOT", "IN", "BETWEEN"}}

LEMMA TokensDiffer ==
    ASSUME NEW k, NEW w, NEW l, NEW v
    PROVE  /\ Tok(k, w) = Tok(l, v) <=> k = l /\ w = v
           /\ Tok(k, w).k = k /\ Tok(k, w).w = <<w>> /\ Tok(k, w).w[1] = w /\ Len(Tok(k, w).w) = 1
<1>1. Tok(k, w).k = k /\ Tok(k, w).w = <<w>> /\ Tok(l, v).k = l /\ Tok(l, v).w = <<v>> BY DEF Tok
<1>2. <<w>>[1] = w /\ <<v>>[1] = v /\ Len(<<w>>) = 1 OBVIOUS
<1>3. k = l /\ w = v => Tok(k, w) = Tok(l, v) BY Zenon
<1> QED BY <1>1, <1>2, <1>3

\* Commas have a kind of their own among the marks.
LEMMA CommaIsAlone ==
    /\ Comma.k = "kw"
    /\ \A w \in {"(", ")", "AND", "OR", "NOT", "IN", "BETWEEN", "END"} : Kw(w) # Comma
<1>1. Comma.k = "kw" BY TokensDiffer, Zenon DEF Comma, Kw
<1>2. ASSUME NEW w \in {"(", ")", "AND", "OR", "NOT", "IN", "BETWEEN", "END"} PROVE Kw(w) # Comma
  <2>1. w # "," BY Zenon
  <2> QED BY <2>1, TokensDiffer, ZenonT(60) DEF Comma, Kw
<1> QED BY <1>1, <1>2

LEMMA ValueToken ==
    ASSUME NEW names, NEW v \in ValueTok(names)
    PROVE  /\ v.k \in {"id", "num", "str"} /\ IsValue(v) /\ v \in Symbols(names)
           /\ Len(v.w) = 1 /\ v = [k |-> v.k, w |-> <<v.w[1]>>]
           /\ v.k = "id" => v.w[1] \in names /\ v = Id(v.w[1])
           /\ v.k = "num" => v = Num(v.w[1])
           /\ v.k = "str" => v = Str(v.w[1])
<1>1. PICK k, w : k \in {"id", "num", "str"} /\ v = Tok(k, w) /\ (k = "id" => w \in names)
  BY DEF ValueTok, Id, Num, Str
<1>2. v.k = k /\ v.w = <<w>> /\ v.w[1] = w /\ Len(v.w) = 1 BY <1>1, TokensDiffer
<1>3. v = [k |-> v.k, w |-> <<v.w[1]>>] BY <1>1, <1>2 DEF Tok
<1>4. v \in Symbols(names) BY Zenon DEF Symbols
<1> QED BY <1>1, <1>2, <1>3, <1>4 DEF Id, Num, Str, IsValue

\* No mark is a value.
LEMMA MarksAreNoValues ==
    ASSUME NEW w
    PROVE  /\ Kw(w).k = "kw" /\ Tok("op", w).k = "op" /\ ~IsValue(Kw(w)) /\ ~IsValue(Tok("op", w))
           /\ \A n : Id(n) # Kw(w) /\ Id(n) # Tok("op", w) /\ Id(n).k = "id" /\ Id(n).w[1] = n
<1>1. Kw(w).k = "kw" /\ Tok("op", w).k = "op" BY TokensDiffer DEF Kw
<1>2. \A n : Id(n).k = "id" /\ Id(n).w[1] = n BY TokensDiffer DEF Id
<1>3. \A n : Id(n) # Kw(w) /\ Id(n) # Tok("op", w)
  <2> TAKE n
  <2>1. "id" # "kw" /\ "id" # "op" OBVIOUS
  <2> QED BY <1>1, <1>2, <2>1
<1> QED BY <1>1, <1>2, <1>3 DEF IsValue

LEMMA PrimaryShape ==
    ASSUME NEW names, NEW p \in Primary(names)
    PROVE  \/ /\ p.p = "cmp" /\ p.c \in names /\ p.op \in Operators /\ p.v \in ValueTok(names)
           \/ /\ p.p = "between" /\ p.c \in names /\ p.lo \in ValueTok(names) /\ p.hi \in ValueTok(names)
           \/ /\ p.p = "in" /\ p.c \in names /\ p.negated \in BOOLEAN
              /\ p.items \in NonEmpty(ValueTok(names))
           \/ /\ p.p = "paren" /\ p.of \in Nat \ {0}
BY DEF Primary

----------------------------------------------------------------------------
(* Lists *)

LEMMA ListPlaces ==
    ASSUME NEW S, NEW items \in Seq(S) \ {<<>>}
    PROVE  /\ ListText(items) \in Seq(S \cup {Comma})
           /\ Len(ListText(items)) = 2 * Len(items) - 1
           /\ \A k \in 1..Len(items) : ListText(items)[2 * k - 1] = items[k]
           /\ \A k \in 1..Len(items) - 1 : ListText(items)[2 * k] = Comma
<1> DEFINE text == ListText(items)
<1>1. text = FlattenSeq(WithSeparators([k \in DOMAIN items |-> <<items[k]>>], Comma))
  BY SeparatedIs DEF ListText
<1> HIDE DEF text
<1>2. OnesBetween(text, items, Comma, S) BY <1>1, OnesSeparated
<1> QED BY <1>2 DEF text, OnesBetween

----------------------------------------------------------------------------
(* The texts of the parts of an expression *)

Part(names) == NonEmpty(NonEmpty(Primary(names)))
Sentence(names) == NonEmpty(Symbols(names))
Known(p, texts, names) == p.p = "paren" => texts[p.of] \in Sentence(names)

LEMMA SymbolsHold ==
    ASSUME NEW names
    PROVE  /\ \A n \in names : Id(n) \in Symbols(names)
           /\ \A o \in Operators : Tok("op", o) \in Symbols(names)
           /\ \A w \in {"(", ")", "AND", "OR", "NOT", "IN", "BETWEEN"} : Kw(w) \in Symbols(names)
           /\ Comma \in Symbols(names) /\ ValueTok(names) \subseteq Symbols(names)
           /\ Symbols(names) \cup {Comma} = Symbols(names)
BY Zenon DEF Symbols, ValueTok

\* Where the tokens of a primary stand in its text.
ComparisonAt(t, p) == Len(t) = 3 /\ t[1] = Id(p.c) /\ t[2] = Tok("op", p.op) /\ t[3] = p.v
RangeAt(t, p) ==
    /\ Len(t) = 5 /\ t[1] = Id(p.c) /\ t[2] = Kw("BETWEEN") /\ t[3] = p.lo
    /\ t[4] = Kw("AND") /\ t[5] = p.hi
InFrom(p) == IF p.negated THEN 4 ELSE 3
ListAt(t, p) ==
    LET b == InFrom(p)
        n == Len(p.items)
    IN /\ Len(t) = b + 2 * n /\ t[1] = Id(p.c) /\ (p.negated => t[2] = Kw("NOT"))
       /\ t[b - 1] = Kw("IN") /\ t[b] = Kw("(") /\ t[b + 2 * n] = Kw(")")
       /\ \A k \in 1..n : t[b + 2 * k - 1] = p.items[k]
       /\ \A k \in 1..n - 1 : t[b + 2 * k] = Comma
ParenAt(t, s) == Len(t) = Len(s) + 2 /\ t[1] = Kw("(") /\ t[Len(s) + 2] = Kw(")") /\ Spells(t, 2, s)
PrimaryAt(t, p, texts) ==
    /\ p.p = "cmp" => ComparisonAt(t, p)
    /\ p.p = "between" => RangeAt(t, p)
    /\ p.p = "in" => ListAt(t, p)
    /\ p.p = "paren" => ParenAt(t, texts[p.of])

LEMMA ListOf ==
    ASSUME NEW names, NEW p \in Primary(names), p.p = "in", NEW texts
    PROVE  PrimaryText(p, texts) \in Sentence(names) /\ ListAt(PrimaryText(p, texts), p)
<1> DEFINE S == Symbols(names)
           a == <<Id(p.c)>> \o (IF p.negated THEN <<Kw("NOT")>> ELSE <<>>) \o <<Kw("IN"), Kw("(")>>
           list == ListText(p.items)
           b == InFrom(p)
           n == Len(p.items)
           t == PrimaryText(p, texts)
<1>1. p.c \in names /\ p.negated \in BOOLEAN /\ p.items \in NonEmpty(ValueTok(names))
  BY PrimaryShape
<1>2. Id(p.c) \in S /\ Kw("NOT") \in S /\ Kw("IN") \in S /\ Kw("(") \in S /\ Kw(")") \in S
  BY <1>1, SymbolsHold
<1>3. /\ a \in Seq(S) /\ Len(a) = b /\ b \in {3, 4} /\ a[1] = Id(p.c) /\ (p.negated => a[2] = Kw("NOT"))
      /\ a[b - 1] = Kw("IN") /\ a[b] = Kw("(")
  <2> DEFINE a1 == <<Id(p.c)>>
             a2 == IF p.negated THEN <<Kw("NOT")>> ELSE <<>>
             a3 == <<Kw("IN"), Kw("(")>>
             u == a1 \o a2
  <2>1. a1 \in Seq(S) /\ Len(a1) = 1 /\ a1[1] = Id(p.c) BY <1>2
  <2>2. b \in {3, 4} /\ a2 \in Seq(S) /\ Len(a2) = b - 3 /\ (p.negated => Len(a2) = 1 /\ a2[1] = Kw("NOT"))
    BY <1>2 DEF InFrom
  <2>3. a3 \in Seq(S) /\ Len(a3) = 2 /\ a3[1] = Kw("IN") /\ a3[2] = Kw("(") BY <1>2
  <2>4. a = u \o a3 OBVIOUS
  <2> HIDE DEF a1, a2, a3, S, b, a
  <2>5. /\ u \in Seq(S) /\ Len(u) = 1 + Len(a2)
        /\ \A j \in 1..1 : u[j] = a1[j]
        /\ \A j \in 1..Len(a2) : u[1 + j] = a2[j]
    <3>1. /\ u \in Seq(S) /\ Len(u) = Len(a1) + Len(a2)
          /\ \A j \in 1..Len(a1) : u[j] = a1[j]
          /\ \A j \in 1..Len(a2) : u[Len(a1) + j] = a2[j]
      <4>1. a1 \in Seq(S) /\ a2 \in Seq(S) BY <2>1, <2>2
      <4> QED BY <4>1, TwoJoined
    <3> QED BY <2>1, <3>1, Zenon
  <2> HIDE DEF u
  <2>6. /\ a \in Seq(S) /\ Len(a) = Len(u) + 2
        /\ \A j \in 1..Len(u) : a[j] = u[j]
        /\ \A j \in 1..2 : a[Len(u) + j] = a3[j]
    <3>1. /\ a \in Seq(S) /\ Len(a) = Len(u) + Len(a3)
          /\ \A j \in 1..Len(u) : a[j] = u[j]
          /\ \A j \in 1..Len(a3) : a[Len(u) + j] = a3[j]
      <4>1. u \in Seq(S) /\ a3 \in Seq(S) BY <2>3, <2>5
      <4> QED BY <2>4, <4>1, TwoJoined
    <3> QED BY <2>3, <3>1, Zenon
  <2>7. Len(u) = b - 2 /\ Len(a) = b /\ b \in {3, 4} BY <2>2, <2>5, <2>6
  <2>8. a[1] = Id(p.c)
    <3>1. 1 \in 1..1 /\ 1 \in 1..Len(u) BY <2>7
    <3> QED BY <2>1, <2>5, <2>6, <3>1
  <2>9. p.negated => a[2] = Kw("NOT")
    <3> SUFFICES ASSUME p.negated PROVE a[2] = Kw("NOT") OBVIOUS
    <3>1. 1 \in 1..Len(a2) /\ 1 + 1 = 2 /\ 2 \in 1..Len(u) BY <2>2, <2>7
    <3> QED BY <2>2, <2>5, <2>6, <3>1
  <2>10. a[b - 1] = Kw("IN") /\ a[b] = Kw("(")
    <3>1. 1 \in 1..2 /\ 2 \in 1..2 /\ Len(u) + 1 = b - 1 /\ Len(u) + 2 = b BY <2>7
    <3> QED BY <2>3, <2>6, <3>1
  <2> QED BY <2>6, <2>7, <2>8, <2>9, <2>10
<1>4. /\ list \in Seq(S) /\ Len(list) = 2 * n - 1 /\ n \in Nat \ {0}
      /\ \A k \in 1..n : list[2 * k - 1] = p.items[k]
      /\ \A k \in 1..n - 1 : list[2 * k] = Comma
  <2>1. p.items \in Seq(S) \ {<<>>} BY <1>1, SymbolsHold DEF NonEmpty
  <2>2. n \in Nat \ {0} BY <2>1
  <2> QED BY <2>1, <2>2, ListPlaces, SymbolsHold
<1>5. t = a \o list \o <<Kw(")")>>
  <2>1. t = <<Id(p.c)>> \o (IF p.negated THEN <<Kw("NOT")>> ELSE <<>>)
            \o <<Kw("IN"), Kw("(")>> \o list \o <<Kw(")")>>
    BY DEF PrimaryText
  <2> QED BY <2>1
<1> HIDE DEF a, list, S, b, n, t
<1>6. /\ t \in Seq(S) /\ Len(t) = b + Len(list) + 1 /\ t[b + Len(list) + 1] = Kw(")")
      /\ \A j \in 1..b : t[j] = a[j]
      /\ \A j \in 1..Len(list) : t[b + j] = list[j]
  BY <1>2, <1>3, <1>4, <1>5, Bracketed, SMTT(30)
<1>7. Len(t) = b + 2 * n /\ t[b + 2 * n] = Kw(")")
  <2>1. b + Len(list) + 1 = b + 2 * n BY <1>3, <1>4
  <2> QED BY <1>6, <2>1
<1>8. t[1] = Id(p.c) /\ (p.negated => t[2] = Kw("NOT")) /\ t[b - 1] = Kw("IN") /\ t[b] = Kw("(")
  <2>1. 1 \in 1..b /\ 2 \in 1..b /\ b - 1 \in 1..b /\ b \in 1..b BY <1>3
  <2> QED BY <1>3, <1>6, <2>1
<1>12. n \in Nat \ {0} /\ b \in Nat /\ Len(list) = 2 * n - 1 BY <1>3, <1>4
<1>9. ASSUME NEW k \in 1..n PROVE t[b + 2 * k - 1] = p.items[k]
  <2>1. 2 * k - 1 \in 1..2 * n - 1 /\ b + (2 * k - 1) = b + 2 * k - 1 BY <1>12
  <2>2. t[b + (2 * k - 1)] = list[2 * k - 1] BY <1>6, <1>12, <2>1, Zenon
  <2>3. list[2 * k - 1] = p.items[k] BY <1>4
  <2> QED BY <2>1, <2>2, <2>3
<1>10. ASSUME NEW k \in 1..n - 1 PROVE t[b + 2 * k] = Comma
  <2>1. 2 * k \in 1..2 * n - 1 BY <1>12
  <2>2. t[b + 2 * k] = list[2 * k] BY <1>6, <1>12, <2>1, Zenon
  <2>3. list[2 * k] = Comma BY <1>4
  <2> QED BY <2>2, <2>3
<1>11. t \in Seq(S) \ {<<>>}
  <2>1. Len(t) # 0 BY <1>3, <1>4, <1>7
  <2> QED BY <1>6, <2>1
<1> QED BY <1>7, <1>8, <1>9, <1>10, <1>11 DEF ListAt, b, n, t, Sentence, NonEmpty, S

LEMMA PrimaryPlaces ==
    ASSUME NEW names, NEW p \in Primary(names), NEW texts, Known(p, texts, names)
    PROVE  PrimaryText(p, texts) \in Sentence(names) /\ PrimaryAt(PrimaryText(p, texts), p, texts)
<1> DEFINE S == Symbols(names)
           t == PrimaryText(p, texts)
<1>1. CASE p.p = "cmp"
  <2>1. p.c \in names /\ p.op \in Operators /\ p.v \in ValueTok(names) BY <1>1, PrimaryShape
  <2>2. Id(p.c) \in S /\ Tok("op", p.op) \in S /\ p.v \in S BY <2>1, SymbolsHold
  <2>3. t = <<Id(p.c), Tok("op", p.op), p.v>> BY <1>1 DEF PrimaryText
  <2>4. t \in Seq(S) \ {<<>>} /\ ComparisonAt(t, p)
    <3> HIDE DEF S, t
    <3> QED BY <2>2, <2>3 DEF ComparisonAt
  <2> QED BY <1>1, <2>4 DEF PrimaryAt, Sentence, NonEmpty
<1>2. CASE p.p = "between"
  <2>1. p.c \in names /\ p.lo \in ValueTok(names) /\ p.hi \in ValueTok(names) BY <1>2, PrimaryShape
  <2>2. Id(p.c) \in S /\ p.lo \in S /\ p.hi \in S /\ Kw("BETWEEN") \in S /\ Kw("AND") \in S
    BY <2>1, SymbolsHold
  <2>3. t = <<Id(p.c), Kw("BETWEEN"), p.lo, Kw("AND"), p.hi>> BY <1>2 DEF PrimaryText
  <2>4. t \in Seq(S) \ {<<>>} /\ RangeAt(t, p)
    <3> HIDE DEF S, t
    <3> QED BY <2>2, <2>3 DEF RangeAt
  <2> QED BY <1>2, <2>4 DEF PrimaryAt, Sentence, NonEmpty
<1>3. CASE p.p = "in" BY <1>3, ListOf DEF PrimaryAt
<1>4. CASE p.p = "paren"
  <2> DEFINE s == texts[p.of]
             a == <<Kw("(")>>
  <2>1. s \in Seq(S) /\ Kw("(") \in S /\ Kw(")") \in S
    BY <1>4, SymbolsHold DEF Known, Sentence, NonEmpty
  <2>2. t = a \o s \o <<Kw(")")>> BY <1>4 DEF PrimaryText
  <2>3. a \in Seq(S) /\ Len(a) = 1 /\ a[1] = Kw("(") /\ Len(s) \in Nat BY <2>1
  <2> HIDE DEF a, s, S, t
  <2>4. /\ t \in Seq(S) /\ Len(t) = 1 + Len(s) + 1 /\ t[1 + Len(s) + 1] = Kw(")")
        /\ \A j \in 1..1 : t[j] = a[j]
        /\ \A j \in 1..Len(s) : t[1 + j] = s[j]
    <3>1. LET u == a \o s \o <<Kw(")")>> IN
          /\ u \in Seq(S) /\ Len(u) = Len(a) + Len(s) + 1 /\ u[Len(a) + Len(s) + 1] = Kw(")")
          /\ \A j \in 1..Len(a) : u[j] = a[j]
          /\ \A j \in 1..Len(s) : u[Len(a) + j] = s[j]
      <4>1. a \in Seq(S) /\ s \in Seq(S) /\ Kw(")") \in S BY <2>1, <2>3
      <4> QED BY <4>1, Bracketed
    <3> QED BY <2>2, <2>3, <3>1, Zenon
  <2>5. 1 + Len(s) + 1 = Len(s) + 2 /\ Len(s) + 2 # 0 /\ 2 + Len(s) <= Len(s) + 2 + 1 BY <2>3
  <2>6. t[1] = Kw("(") BY <2>3, <2>4
  <2>7. \A j \in 1..Len(s) : t[2 + j - 1] = s[j]
    <3>1. \A j \in 1..Len(s) : 2 + j - 1 = 1 + j BY <2>3
    <3> QED BY <2>4, <3>1
  <2>8. ParenAt(t, s) BY <2>4, <2>5, <2>6, <2>7 DEF ParenAt, Spells
  <2>9. t \in Seq(S) \ {<<>>} BY <2>4, <2>5
  <2> QED BY <1>4, <2>8, <2>9 DEF PrimaryAt, Sentence, NonEmpty, s, S, t
<1> QED BY <1>1, <1>2, <1>3, <1>4, PrimaryShape

AndParts(and, texts) == [m \in DOMAIN and |-> PrimaryText(and[m], texts)]
OrParts(part, texts) == [k \in DOMAIN part |-> AndText(part[k], texts)]
AllKnown(part, texts, names) ==
    \A k \in DOMAIN part : \A m \in DOMAIN part[k] : Known(part[k][m], texts, names)

\* What has parts in sentences, with a separator between them, is one.
LEMMA SentenceOf ==
    ASSUME NEW names, NEW n \in Nat \ {0}, NEW parts, parts = [k \in 1..n |-> parts[k]],
           \A k \in 1..n : parts[k] \in Sentence(names), NEW separator \in Symbols(names)
    PROVE  /\ Separated(parts, separator) \in Sentence(names)
           /\ \E at : PartsAt(at, parts, separator, Separated(parts, separator))
<1> DEFINE S == Symbols(names)
           text == Separated(parts, separator)
<1>1. \A k \in 1..n : parts[k] \in Seq(S) /\ parts[k] # <<>> BY DEF Sentence, NonEmpty
<1>2. parts \in Seq(Seq(S)) /\ Len(parts) = n
  <2> HIDE DEF S
  <2> QED BY <1>1
<1>3. parts \in Seq(Seq(S)) \ {<<>>} BY <1>2
<1> HIDE DEF S, text
<1>4. text \in Seq(S) /\ \E at : PartsAt(at, parts, separator, text)
  BY <1>3, SeparatedPlaces DEF S, text
<1>5. PICK at : PartsAt(at, parts, separator, text) BY <1>4
<1>6. text # <<>>
  <2>1. 1 \in 1..n /\ Len(parts[1]) \in Nat \ {0} BY <1>1
  <2>2. at[1] = 1 /\ Spells(text, at[1], parts[1]) BY <1>2, <1>5, <2>1 DEF PartsAt
  <2>3. 1 + Len(parts[1]) <= Len(text) + 1 BY <2>2 DEF Spells
  <2>4. Len(<<>>) = 0 OBVIOUS
  <2> QED BY <2>1, <2>3, <2>4
<1> QED BY <1>4, <1>6 DEF Sentence, NonEmpty, S, text

LEMMA AndPlaces ==
    ASSUME NEW names, NEW and \in NonEmpty(Primary(names)), NEW texts,
           \A m \in DOMAIN and : Known(and[m], texts, names)
    PROVE  /\ AndText(and, texts) \in Sentence(names)
           /\ \E at : PartsAt(at, AndParts(and, texts), Kw("AND"), AndText(and, texts))
<1> DEFINE n == Len(and)
           parts == AndParts(and, texts)
<1>1. n \in Nat \ {0} /\ DOMAIN and = 1..n /\ \A m \in 1..n : and[m] \in Primary(names)
  BY DEF NonEmpty
<1>2. AndText(and, texts) = Separated(parts, Kw("AND")) BY Zenon DEF AndText, AndParts
<1>3. parts = [m \in 1..n |-> PrimaryText(and[m], texts)] BY <1>1 DEF AndParts
<1> HIDE DEF parts, n
<1>4. parts = [m \in 1..n |-> parts[m]] /\ \A m \in 1..n : parts[m] = PrimaryText(and[m], texts)
  BY <1>3
<1>5. ASSUME NEW m \in 1..n PROVE parts[m] \in Sentence(names)
  <2>1. and[m] \in Primary(names) /\ Known(and[m], texts, names) BY <1>1
  <2>2. PrimaryText(and[m], texts) \in Sentence(names) BY <2>1, PrimaryPlaces
  <2> QED BY <1>4, <2>2
<1>6. Kw("AND") \in Symbols(names) BY SymbolsHold
<1> QED BY <1>1, <1>2, <1>4, <1>5, <1>6, SentenceOf, ZenonT(60) DEF parts

LEMMA OrPlaces ==
    ASSUME NEW names, NEW part \in Part(names), NEW texts, AllKnown(part, texts, names)
    PROVE  /\ OrText(part, texts) \in Sentence(names)
           /\ \E at : PartsAt(at, OrParts(part, texts), Kw("OR"), OrText(part, texts))
<1> DEFINE n == Len(part)
           parts == OrParts(part, texts)
<1>1. n \in Nat \ {0} /\ DOMAIN part = 1..n /\ \A k \in 1..n : part[k] \in NonEmpty(Primary(names))
  BY DEF NonEmpty, Part
<1>2. OrText(part, texts) = Separated(parts, Kw("OR")) BY Zenon DEF OrText, OrParts
<1>3. parts = [k \in 1..n |-> AndText(part[k], texts)] BY <1>1 DEF OrParts
<1> HIDE DEF parts, n
<1>4. parts = [k \in 1..n |-> parts[k]] /\ \A k \in 1..n : parts[k] = AndText(part[k], texts)
  BY <1>3
<1>5. ASSUME NEW k \in 1..n PROVE parts[k] \in Sentence(names)
  <2>1. part[k] \in NonEmpty(Primary(names)) /\ \A m \in DOMAIN part[k] : Known(part[k][m], texts, names)
    BY <1>1 DEF AllKnown
  <2>2. AndText(part[k], texts) \in Sentence(names) BY <2>1, AndPlaces
  <2> QED BY <1>4, <2>2
<1>6. Kw("OR") \in Symbols(names) BY SymbolsHold
<1> QED BY <1>1, <1>2, <1>4, <1>5, <1>6, SentenceOf, ZenonT(60) DEF parts

\* The text of a part depends on those of the parts it names alone.
Agree(part, x, y) ==
    \A k \in DOMAIN part : \A m \in DOMAIN part[k] :
        part[k][m].p = "paren" => x[part[k][m].of] = y[part[k][m].of]

LEMMA OrTextAgrees ==
    ASSUME NEW part, NEW x, NEW y, Agree(part, x, y)
    PROVE  OrText(part, x) = OrText(part, y)
<1>1. ASSUME NEW k \in DOMAIN part PROVE AndText(part[k], x) = AndText(part[k], y)
  <2> DEFINE and == part[k]
  <2>1. \A m \in DOMAIN and : and[m].p = "paren" => x[and[m].of] = y[and[m].of] BY DEF Agree
  <2> HIDE DEF and
  <2>2. ASSUME NEW m \in DOMAIN and PROVE PrimaryText(and[m], x) = PrimaryText(and[m], y)
    <3>1. CASE and[m].p = "paren"
      <4>1. x[and[m].of] = y[and[m].of] BY <2>1, <3>1
      <4> QED BY <4>1, Zenon DEF PrimaryText
    <3>2. CASE and[m].p # "paren" BY <3>2, SMT DEF PrimaryText
    <3> QED BY <3>1, <3>2
  <2>3. [m \in DOMAIN and |-> PrimaryText(and[m], x)] = [m \in DOMAIN and |-> PrimaryText(and[m], y)]
    BY <2>2
  <2>4. AndText(and, x) = AndText(and, y) BY <2>3, Zenon DEF AndText
  <2> QED BY <2>4 DEF and
<1>2. [k \in DOMAIN part |-> AndText(part[k], x)] = [k \in DOMAIN part |-> AndText(part[k], y)]
  BY <1>1
<1> QED BY <1>2, Zenon DEF OrText

LEMMA ExpressionParts ==
    ASSUME NEW names, NEW e \in Expression(names)
    PROVE  /\ Len(e) \in Nat \ {0} /\ DOMAIN e = 1..Len(e)
           /\ \A i \in 1..Len(e) :
                /\ e[i] \in Part(names)
                /\ \A k \in DOMAIN e[i] :
                     /\ e[i][k] \in NonEmpty(Primary(names))
                     /\ \A m \in DOMAIN e[i][k] :
                          /\ e[i][k][m] \in Primary(names)
                          /\ e[i][k][m].p = "paren" => e[i][k][m].of \in 1..i - 1
<1>1. e \in NonEmpty(Part(names)) BY DEF Expression, Part
<1>2. Len(e) \in Nat \ {0} /\ DOMAIN e = 1..Len(e) /\ \A i \in 1..Len(e) : e[i] \in Part(names)
  BY <1>1 DEF NonEmpty
<1>3. ASSUME NEW i \in 1..Len(e), NEW k \in DOMAIN e[i]
      PROVE  /\ e[i][k] \in NonEmpty(Primary(names))
             /\ \A m \in DOMAIN e[i][k] :
                  /\ e[i][k][m] \in Primary(names)
                  /\ e[i][k][m].p = "paren" => e[i][k][m].of \in 1..i - 1
  <2>1. e[i] \in Part(names) BY <1>2
  <2> DEFINE part == e[i]
  <2>2. part[k] \in NonEmpty(Primary(names))
    <3>1. part \in Seq(NonEmpty(Primary(names))) BY <2>1 DEF NonEmpty, Part
    <3>2. k \in DOMAIN part OBVIOUS
    <3> HIDE DEF part
    <3> QED BY <3>1, <3>2
  <2> DEFINE and == part[k]
  <2>3. ASSUME NEW m \in DOMAIN and
        PROVE  and[m] \in Primary(names) /\ (and[m].p = "paren" => and[m].of \in 1..i - 1)
    <3>1. and[m] \in Primary(names)
      <4>1. and \in Seq(Primary(names)) BY <2>2 DEF NonEmpty
      <4> HIDE DEF and
      <4> QED BY <4>1
    <3>2. and[m].p = "paren" => and[m].of < i BY <1>2, Zenon DEF Expression
    <3>3. and[m].p = "paren" => and[m].of \in Nat \ {0} BY <3>1, PrimaryShape
    <3>4. i \in Nat BY <1>2
    <3> HIDE DEF and
    <3> QED BY <3>1, <3>2, <3>3, <3>4
  <2> QED BY <2>2, <2>3
<1> QED BY <1>2, <1>3

\* The texts of an expression are those of its parts, each with the others.
LEMMA TextsOf ==
    ASSUME NEW names, NEW e \in Expression(names)
    PROVE  /\ Texts(e) \in Seq(Sentence(names)) /\ Len(Texts(e)) = Len(e)
           /\ \A i \in 1..Len(e) :
                AllKnown(e[i], Texts(e), names) /\ Texts(e)[i] = OrText(e[i], Texts(e))
<1> DEFINE n == Len(e)
           V == Sentence(names)
           Chosen(f) == f = [i \in 0..n |-> IF i = 0 THEN <<>>
                                            ELSE Append(f[i - 1], OrText(e[i], f[i - 1]))]
           F == CHOOSE f : Chosen(f)
<1>1. Texts(e) = F[n] BY Zenon DEF Texts
<1>2. n \in Nat \ {0} /\ DOMAIN e = 1..n /\ \A i \in 1..n : e[i] \in Part(names) BY ExpressionParts
<1>3. ASSUME NEW i \in 1..n, NEW x \in Seq(V), Len(x) >= i - 1
      PROVE  AllKnown(e[i], x, names) /\ OrText(e[i], x) \in V
  <2>1. ASSUME NEW k \in DOMAIN e[i], NEW m \in DOMAIN e[i][k]
        PROVE  Known(e[i][k][m], x, names)
    <3> SUFFICES ASSUME e[i][k][m].p = "paren" PROVE x[e[i][k][m].of] \in V BY DEF Known
    <3>1. e[i][k][m].of \in 1..i - 1 BY ExpressionParts
    <3> DEFINE j == e[i][k][m].of
    <3>2. j \in 1..Len(x)
      <4>1. j \in 1..i - 1 BY <3>1
      <4> HIDE DEF j
      <4>2. i \in 1..n /\ n \in Nat /\ Len(x) \in Nat BY <1>2
      <4> QED BY <1>3, <4>1, <4>2
    <3> HIDE DEF j, V
    <3>3. x[j] \in V BY <3>2
    <3> QED BY <3>3 DEF j
  <2>2. AllKnown(e[i], x, names) BY <2>1 DEF AllKnown
  <2> QED BY <1>2, <2>2, OrPlaces
<1> DEFINE step == [q \in (1..n) \X Seq(V) |->
                      IF Len(q[2]) = q[1] - 1 THEN Append(q[2], OrText(e[q[1]], q[2])) ELSE q[2]]
<1>4. ASSUME NEW i \in 1..n, NEW x \in Seq(V)
      PROVE  /\ step[<<i, x>>] = IF Len(x) = i - 1 THEN Append(x, OrText(e[i], x)) ELSE x
             /\ step[<<i, x>>] \in Seq(V)
  <2>1. step[<<i, x>>] = IF Len(x) = i - 1 THEN Append(x, OrText(e[i], x)) ELSE x
    <3>1. <<i, x>> \in (1..n) \X Seq(V) /\ <<i, x>>[1] = i /\ <<i, x>>[2] = x OBVIOUS
    <3> QED BY <3>1, Zenon
  <2>2. CASE Len(x) = i - 1
    <3>1. OrText(e[i], x) \in V BY <1>2, <1>3, <2>2
    <3> HIDE DEF step, V
    <3> QED BY <2>1, <2>2, <3>1, AppendProperties
  <2>3. CASE Len(x) # i - 1
    <3> HIDE DEF step
    <3> QED BY <2>1, <2>3
  <2> HIDE DEF step
  <2> QED BY <2>1, <2>2, <2>3
<1> HIDE DEF n, V, step
<1>5. \E f : Chosen(f)
  <2>1. Turns(n, Seq(V), step) /\ <<>> \in Seq(V) BY <1>4 DEF Turns
  <2>2. PICK h \in [0..n -> Seq(V)] : IsTrace(h, n, <<>>, step) BY <1>2, <2>1, TraceExists
  <2>3. h[0] = <<>> /\ \A i \in 1..n : h[i] = step[<<i, h[i - 1]>>] BY <2>2 DEF IsTrace
  <2> DEFINE bad == {i \in 0..n : Len(h[i]) # i}
  <2>4. ASSUME NEW i \in 1..n
        PROVE  /\ i - 1 \in 0..n /\ h[i - 1] \in Seq(V)
               /\ h[i] = IF Len(h[i - 1]) = i - 1 THEN Append(h[i - 1], OrText(e[i], h[i - 1]))
                         ELSE h[i - 1]
    <3>1. i - 1 \in 0..n BY <1>2
    <3>2. h[i - 1] \in Seq(V) BY <3>1
    <3> QED BY <1>4, <2>3, <3>1, <3>2
  <2>5. bad = {}
    <3>1. 0 \notin bad BY <2>3
    <3>2. ASSUME NEW i \in 1..n, i - 1 \notin bad PROVE i \notin bad
      <4>1. Len(h[i - 1]) = i - 1 BY <2>4, <3>2
      <4>2. OrText(e[i], h[i - 1]) \in V
        <5>1. Len(h[i - 1]) >= i - 1 BY <1>2, <4>1
        <5> QED BY <1>3, <2>4, <5>1
      <4> DEFINE s == h[i - 1]
                 t == OrText(e[i], s)
      <4>3. s \in Seq(V) /\ t \in V /\ Len(s) = i - 1 /\ h[i] = Append(s, t) BY <2>4, <4>1, <4>2
      <4> HIDE DEF s, t
      <4>4. Len(h[i]) = i
        <5>1. Len(Append(s, t)) = Len(s) + 1 BY <4>3, AppendProperties
        <5>2. (i - 1) + 1 = i BY <1>2
        <5> QED BY <4>3, <5>1, <5>2
      <4> QED BY <4>4
    <3>3. bad \in SUBSET (0..n) OBVIOUS
    <3> HIDE DEF bad
    <3> QED BY <1>2, <3>1, <3>2, <3>3, FirstBad
  <2>6. ASSUME NEW i \in 0..n
        PROVE  h[i] = IF i = 0 THEN <<>> ELSE Append(h[i - 1], OrText(e[i], h[i - 1]))
    <3>1. CASE i = 0 BY <2>3, <3>1
    <3>2. CASE i # 0
      <4>1. i \in 1..n /\ i - 1 \in 0..n BY <1>2, <3>2
      <4>2. Len(h[i - 1]) = i - 1 BY <2>5, <4>1
      <4> QED BY <2>4, <3>2, <4>1, <4>2
    <3> QED BY <3>1, <3>2
  <2>7. h = [i \in 0..n |-> IF i = 0 THEN <<>> ELSE Append(h[i - 1], OrText(e[i], h[i - 1]))]
    BY <2>6
  <2> QED BY <2>7
<1>6. Chosen(F)
  <2> HIDE DEF Chosen
  <2> QED BY <1>5
<1> DEFINE g == [i \in 1..n |-> OrText(e[i], F[i - 1])]
<1>7. F = [i \in 0..n |-> IF i = 0 THEN <<>> ELSE Append(F[i - 1], g[i])]
  <2>1. F = [i \in 0..n |-> IF i = 0 THEN <<>> ELSE Append(F[i - 1], OrText(e[i], F[i - 1]))]
    BY <1>6
  <2> HIDE DEF F
  <2>2. \A i \in 0..n : i # 0 => g[i] = OrText(e[i], F[i - 1]) BY <1>2
  <2> HIDE DEF g
  <2>3. \A i \in 0..n : (IF i = 0 THEN <<>> ELSE Append(F[i - 1], OrText(e[i], F[i - 1])))
                        = IF i = 0 THEN <<>> ELSE Append(F[i - 1], g[i])
    BY <2>2, Zenon
  <2> QED BY <2>1, <2>3, Zenon
<1> HIDE DEF F, Chosen
<1>8. \A i \in 1..n : g[i] = OrText(e[i], F[i - 1]) OBVIOUS
<1>9. ASSUME NEW i \in 1..n, F[i - 1] \in Seq(V), Len(F[i - 1]) = i - 1 PROVE g[i] \in V
  <2>1. Len(F[i - 1]) >= i - 1 BY <1>2, <1>9
  <2> QED BY <1>3, <1>8, <1>9, <2>1
<1> HIDE DEF g
<1>10. \A i \in 0..n : F[i] \in Seq(V) /\ Len(F[i]) = i /\ \A j \in 1..i : F[i][j] = g[j]
  <2>1. \A i \in 1..n : F[i - 1] \in Seq(V) /\ Len(F[i - 1]) = i - 1 => g[i] \in V BY <1>9
  <2>2. n \in Nat BY <1>2
  <2>3. Grows(F, n, V, g) BY <1>7, <2>1, Zenon DEF Grows
  <2> QED BY <2>2, <2>3, ListGrows
<1> DEFINE T == F[n]
<1>11. T \in Seq(V) /\ Len(T) = n /\ \A j \in 1..n : T[j] = g[j]
  <2>1. n \in 0..n BY <1>2
  <2> QED BY <1>10, <2>1
<1>12. ASSUME NEW i \in 1..n PROVE AllKnown(e[i], T, names) /\ T[i] = OrText(e[i], T)
  <2>1. AllKnown(e[i], T, names)
    <3>1. Len(T) >= i - 1 BY <1>2, <1>11
    <3> HIDE DEF T
    <3> QED BY <1>3, <1>11, <3>1
  <2>2. i - 1 \in 0..n /\ Len(F[i - 1]) = i - 1 /\ \A j \in 1..i - 1 : F[i - 1][j] = g[j]
    <3>1. i - 1 \in 0..n BY <1>2
    <3> QED BY <1>10, <3>1
  <2>3. ASSUME NEW k \in DOMAIN e[i], NEW m \in DOMAIN e[i][k], e[i][k][m].p = "paren"
        PROVE  F[i - 1][e[i][k][m].of] = T[e[i][k][m].of]
    <3>1. e[i][k][m].of \in 1..i - 1 BY <2>3, ExpressionParts DEF n
    <3>2. e[i][k][m].of \in 1..n BY <1>2, <3>1
    <3> DEFINE j == e[i][k][m].of
    <3>3. j \in 1..i - 1 /\ j \in 1..n BY <3>1, <3>2
    <3> HIDE DEF T, j
    <3>4. F[i - 1][j] = g[j] /\ T[j] = g[j] BY <1>11, <2>2, <3>3
    <3>5. F[i - 1][j] = T[j] BY <3>4
    <3> QED BY <3>5 DEF j
  <2>4. Agree(e[i], F[i - 1], T) BY <2>3 DEF Agree
  <2>5. T[i] = OrText(e[i], F[i - 1]) BY <1>8, <1>11
  <2> HIDE DEF T
  <2> QED BY <2>1, <2>4, <2>5, OrTextAgrees
<1> QED BY <1>1, <1>11, <1>12 DEF V, n

----------------------------------------------------------------------------
(* The parts of a text between its commas *)

CutsOf(text) == {0, Len(text) + 1} \cup {p \in DOMAIN text : text[p] = Comma}

LEMMA CutsAre ==
    ASSUME NEW S, NEW text \in Seq(S)
    PROVE  /\ CutsOf(text) \in SUBSET Int /\ IsFiniteSet(CutsOf(text))
           /\ CutsOf(text) \in SUBSET (0..Len(text) + 1)
           /\ Parts(text) = [k \in 1..Len(Ascending(CutsOf(text))) - 1 |->
                               SubSeq(text, Ascending(CutsOf(text))[k] + 1,
                                      Ascending(CutsOf(text))[k + 1] - 1)]
<1>1. Len(text) \in Nat /\ DOMAIN text = 1..Len(text) OBVIOUS
<1>2. CutsOf(text) \in SUBSET (0..Len(text) + 1) BY <1>1 DEF CutsOf
<1>3. IsFiniteSet(0..Len(text) + 1) BY <1>1, FS_Interval
<1>4. IsFiniteSet(CutsOf(text)) BY <1>2, <1>3, FS_Subset
<1>5. CutsOf(text) \in SUBSET Int BY <1>1, <1>2
<1> DEFINE cuts == Ascending({0, Len(text) + 1} \cup {p \in DOMAIN text : text[p] = Comma})
<1>6. Parts(text) = [k \in 1..Len(cuts) - 1 |-> SubSeq(text, cuts[k] + 1, cuts[k + 1] - 1)]
  BY DEF Parts
<1>7. cuts = Ascending(CutsOf(text)) BY DEF CutsOf
<1> HIDE DEF cuts
<1> QED BY <1>2, <1>4, <1>5, <1>6, <1>7

\* The first part of a text goes on to a comma or to the end.
LEMMA FirstPart ==
    ASSUME NEW S, NEW text \in Seq(S), text # <<>>, text[1] # Comma
    PROVE  1 \in DOMAIN Parts(text) /\ Parts(text)[1] # <<>> /\ Parts(text)[1][1] = text[1]
<1> DEFINE C == CutsOf(text)
           a == Ascending(C)
           n == Cardinality(C)
<1>1. /\ C \in SUBSET Int /\ IsFiniteSet(C) /\ C \in SUBSET (0..Len(text) + 1)
      /\ Parts(text) = [k \in 1..Len(a) - 1 |-> SubSeq(text, a[k] + 1, a[k + 1] - 1)]
  BY CutsAre
<1>2. 0 \in C /\ Len(text) + 1 \in C /\ 1 \notin C /\ Len(text) \in Nat \ {0} BY DEF CutsOf
<1>3. n \in Nat BY <1>1, FS_CardinalityType
<1>4. /\ a \in [1..n -> C] /\ \A p, q \in 1..n : p < q => a[p] < a[q]
      /\ \A k \in C : LET p == Cardinality({x \in C : x < k}) + 1 IN p \in 1..n /\ a[p] = k
  BY <1>1, AscendingLists
<1> HIDE DEF C, a, n
<1>5. a \in Seq(C) /\ Len(a) = n BY <1>3, <1>4
<1>6. 1 \in 1..n /\ a[1] = 0
  <2>1. {x \in C : x < 0} = {}
    <3>1. \A x \in C : x \in 0..Len(text) + 1 BY <1>1
    <3>2. \A x \in 0..Len(text) + 1 : ~(x < 0) BY <1>2
    <3> QED BY <3>1, <3>2
  <2>2. Cardinality({}) + 1 = 1 BY FS_EmptySet
  <2> QED BY <1>2, <1>4, <2>1, <2>2
<1>7. 2 \in 1..n
  <2>1. PICK p \in 1..n : a[p] = Len(text) + 1 BY <1>2, <1>4
  <2>2. p # 1 BY <1>2, <1>6, <2>1
  <2> QED BY <1>3, <2>2
<1>8. a[2] \in 2..Len(text) + 1
  <2>1. a[1] < a[2]
    <3>1. 1 < 2 OBVIOUS
    <3> QED BY <1>4, <1>6, <1>7, <3>1
  <2>2. a[2] \in C BY <1>4, <1>7
  <2>3. a[2] \in 0..Len(text) + 1 /\ a[2] # 1 BY <1>1, <1>2, <2>2
  <2> QED BY <1>2, <1>6, <2>1, <2>3
<1>9. 1 \in DOMAIN Parts(text) /\ Parts(text)[1] = SubSeq(text, 1, a[2] - 1)
  <2>1. 1 \in 1..Len(a) - 1 /\ 1 + 1 = 2 /\ 0 + 1 = 1 BY <1>3, <1>5, <1>7
  <2> QED BY <1>1, <1>6, <2>1
<1> DEFINE e == a[2] - 1
<1>10. e \in 1..Len(text) BY <1>2, <1>8
<1> HIDE DEF e
<1>11. SubSeq(text, 1, e) # <<>> /\ SubSeq(text, 1, e)[1] = text[1] BY <1>2, <1>10
<1> QED BY <1>9, <1>11 DEF e

\* The parts of a list are its items.
LEMMA PartsOfList ==
    ASSUME NEW S, NEW items \in Seq(S) \ {<<>>}, \A k \in DOMAIN items : items[k] # Comma
    PROVE  /\ DOMAIN Parts(ListText(items)) = 1..Len(items)
           /\ \A k \in 1..Len(items) : Parts(ListText(items))[k] = <<items[k]>>
<1> DEFINE n == Len(items)
           text == ListText(items)
           C == CutsOf(text)
           f == [p \in 1..n + 1 |-> 2 * (p - 1)]
<1>1. n \in Nat \ {0} /\ DOMAIN items = 1..n OBVIOUS
<1>2. /\ text \in Seq(S \cup {Comma}) /\ Len(text) = 2 * n - 1
      /\ \A k \in 1..n : text[2 * k - 1] = items[k]
      /\ \A k \in 1..n - 1 : text[2 * k] = Comma
  BY ListPlaces
<1>3. /\ C \in SUBSET Int /\ IsFiniteSet(C)
      /\ Parts(text) = [k \in 1..Len(Ascending(C)) - 1 |->
                          SubSeq(text, Ascending(C)[k] + 1, Ascending(C)[k + 1] - 1)]
  BY <1>2, CutsAre
<1>4. C = {0, Len(text) + 1} \cup {p \in 1..Len(text) : text[p] = Comma} BY <1>2 DEF CutsOf
<1> HIDE DEF C, text, n
<1>5. ASSUME NEW p \in 1..n + 1 PROVE f[p] = 2 * (p - 1) /\ f[p] \in C
  <2>1. CASE p = 1 BY <1>4, <2>1
  <2>2. CASE p = n + 1
    <3>1. 2 * ((n + 1) - 1) = Len(text) + 1 BY <1>1, <1>2
    <3> QED BY <1>4, <2>2, <3>1
  <2>3. CASE p # 1 /\ p # n + 1
    <3>1. p - 1 \in 1..n - 1 /\ 2 * (p - 1) \in 1..2 * n - 1 BY <1>1, <2>3
    <3> QED BY <1>2, <1>4, <3>1
  <2> QED BY <2>1, <2>2, <2>3
<1>6. ASSUME NEW x \in C PROVE \E p \in 1..n + 1 : f[p] = x
  <2>1. CASE x = 0
    <3>1. 1 \in 1..n + 1 /\ 2 * (1 - 1) = 0 BY <1>1
    <3> QED BY <1>5, <2>1, <3>1
  <2>2. CASE x = Len(text) + 1
    <3>1. n + 1 \in 1..n + 1 /\ 2 * ((n + 1) - 1) = Len(text) + 1 BY <1>1, <1>2
    <3> QED BY <1>5, <2>2, <3>1
  <2>3. CASE x \in 1..Len(text) /\ text[x] = Comma
    <3>1. PICK k \in Nat : x = 2 * k \/ x = 2 * k - 1
      <4>1. x \in Nat /\ (x + 1) \div 2 \in Nat BY <1>1, <1>2, <2>3
      <4>2. x = 2 * ((x + 1) \div 2) \/ x = 2 * ((x + 1) \div 2) - 1 BY <4>1
      <4> QED BY <4>1, <4>2
    <3>2. ASSUME x = 2 * k - 1 PROVE FALSE
      <4>1. k \in 1..n BY <1>1, <1>2, <2>3, <3>2
      <4> QED BY <1>1, <1>2, <2>3, <3>2, <4>1
    <3>3. k + 1 \in 1..n + 1 /\ 2 * ((k + 1) - 1) = x BY <1>1, <1>2, <2>3, <3>1, <3>2
    <3> QED BY <1>5, <3>3
  <2> QED BY <1>4, <2>1, <2>2, <2>3
<1> DEFINE a == Ascending(C)
<1>7. Len(a) = n + 1 /\ \A p \in 1..n + 1 : a[p] = 2 * (p - 1)
  <2>1. n + 1 \in Nat \ {0} /\ f \in [1..n + 1 -> C] BY <1>1, <1>5
  <2>2. \A p, q \in 1..n + 1 : p < q => f[p] < f[q] BY <1>1, <1>5
  <2> HIDE DEF f
  <2>3. Len(a) = n + 1 /\ \A p \in 1..n + 1 : a[p] = f[p] BY <1>3, <1>6, <2>1, <2>2, AscendingIs, ZenonT(60)
  <2> QED BY <1>5, <2>3
<1> HIDE DEF a, f
<1>8. Parts(text) = [k \in 1..n |-> SubSeq(text, a[k] + 1, a[k + 1] - 1)]
  <2>1. (n + 1) - 1 = n BY <1>1
  <2> QED BY <1>3, <1>7, <2>1 DEF a
<1>9. ASSUME NEW k \in 1..n PROVE Parts(text)[k] = <<items[k]>>
  <2>1. k \in 1..n + 1 /\ k + 1 \in 1..n + 1 /\ 2 * k - 1 \in 1..2 * n - 1 BY <1>1
  <2>2. a[k] + 1 = 2 * k - 1 /\ a[k + 1] - 1 = 2 * k - 1
    <3>1. a[k] = 2 * (k - 1) /\ a[k + 1] = 2 * ((k + 1) - 1) BY <1>7, <2>1
    <3> QED BY <1>1, <3>1
  <2>3. Parts(text)[k] = SubSeq(text, 2 * k - 1, 2 * k - 1) BY <1>8, <2>2
  <2>4. SubSeq(text, 2 * k - 1, 2 * k - 1) = <<text[2 * k - 1]>> BY <1>2, <2>1, OneOf
  <2> QED BY <1>2, <2>3, <2>4
<1> QED BY <1>8, <1>9 DEF n, text

----------------------------------------------------------------------------
(* What a save of metadata.json and a start make of a text *)

Kinds == {"id", "num", "str", "kw", "op"}
Word == {t.w[1] : t \in Symbols(Names)} \cup {NewName}
Tokens == [k : Kinds, w : Seq(Word)]

LEMMA SymbolTokens ==
    ASSUME NEW x \in Symbols(Names)
    PROVE  x \in Tokens /\ Len(x.w) = 1 /\ x # Id(NewName) /\ x.w[1] \in Word
<1>1. x.w[1] \in Word BY Zenon DEF Word
<1>2. NewName \notin Names BY ChecksAssumption
<1>3. /\ x.k \in Kinds /\ Len(x.w) = 1 /\ x = [k |-> x.k, w |-> <<x.w[1]>>]
      /\ x.k = "id" => x.w[1] \in Names
  <2>1. CASE x \in ValueTok(Names)
    <3>1. /\ x.k \in {"id", "num", "str"} /\ Len(x.w) = 1 /\ x = [k |-> x.k, w |-> <<x.w[1]>>]
          /\ x.k = "id" => x.w[1] \in Names
      BY <2>1, ValueToken
    <3> QED BY <3>1 DEF Kinds
  <2>2. ASSUME NEW k \in {"kw", "op"}, NEW w, x = Tok(k, w)
        PROVE  /\ x.k \in Kinds /\ Len(x.w) = 1 /\ x = [k |-> x.k, w |-> <<x.w[1]>>]
               /\ x.k = "id" => x.w[1] \in Names
    <3>1. x.k = k /\ x.w[1] = w /\ Len(x.w) = 1 /\ x = [k |-> k, w |-> <<w>>]
      BY <2>2, TokensDiffer DEF Tok
    <3> QED BY <3>1 DEF Kinds
  <2>3. x \in ValueTok(Names) \/ \E w : x = Tok("kw", w) \/ x = Tok("op", w)
    BY Zenon DEF Symbols, Comma, Kw
  <2> QED BY <2>1, <2>2, <2>3
<1>4. <<x.w[1]>> \in Seq(Word)
  <2> DEFINE w == x.w[1]
  <2>1. w \in Word BY <1>1
  <2> HIDE DEF w
  <2>2. <<w>> \in Seq(Word) BY <2>1
  <2> QED BY <2>2 DEF w
<1>5. x \in Tokens BY <1>3, <1>4 DEF Tokens
<1>6. x # Id(NewName)
  <2>1. Id(NewName).k = "id" /\ Id(NewName).w[1] = NewName BY TokensDiffer DEF Id
  <2> QED BY <1>2, <1>3, <2>1
<1> QED BY <1>1, <1>3, <1>5, <1>6

LEMMA OwnToken ==
    ASSUME NEW n \in Names \cup {NewName}
    PROVE  Id(n) \in Tokens /\ Id(n).k = "id" /\ Id(n).w[1] = n /\ n \in Word
<1>1. Id(n).k = "id" /\ Id(n).w = <<n>> /\ Id(n).w[1] = n BY TokensDiffer DEF Id
<1>2. n \in Word
  <2>1. CASE n \in Names BY <1>1, <2>1, SymbolsHold, SymbolTokens
  <2>2. CASE n = NewName BY <2>2 DEF Word
  <2> QED BY <2>1, <2>2
<1>3. <<n>> \in Seq(Word) BY <1>2
<1>4. Id(n) = [k |-> "id", w |-> <<n>>] BY DEF Id, Tok
<1> QED BY <1>1, <1>2, <1>3, <1>4 DEF Tokens, Kinds

LEMMA MarkTokens ==
    /\ Kw("BETWEEN") \in Tokens /\ Kw("AND") \in Tokens /\ Comma \in Tokens
    /\ Kw("BETWEEN") # Kw("IN") /\ Kw("BETWEEN") # Kw("AND")
<1>1. {Kw("BETWEEN"), Kw("AND"), Comma} \subseteq Symbols(Names) BY SymbolsHold
<1>2. Kw("BETWEEN") # Kw("IN") /\ Kw("BETWEEN") # Kw("AND") BY TokensDiffer DEF Kw
<1> QED BY <1>1, <1>2, SymbolTokens

LEMMA WordsTyped ==
    ASSUME NEW part \in Seq(Tokens)
    PROVE  Words(part) \in Seq(Word)
<1> DEFINE ss == [p \in DOMAIN part |-> part[p].w]
<1>1. \A p \in DOMAIN part : part[p].w \in Seq(Word)
  <2>1. \A x \in Tokens : x.w \in Seq(Word) BY DEF Tokens
  <2>2. \A p \in DOMAIN part : part[p] \in Tokens
    <3> DEFINE V == Tokens
    <3>1. part \in Seq(V) OBVIOUS
    <3> HIDE DEF V
    <3>2. \A p \in DOMAIN part : part[p] \in V BY <3>1
    <3> QED BY <3>2 DEF V
  <2> QED BY <2>1, <2>2
<1>2. ss \in Seq(Seq(Word))
  <2> DEFINE V == Seq(Word)
             n == Len(part)
  <2>1. n \in Nat /\ DOMAIN part = 1..n OBVIOUS
  <2> HIDE DEF V, n
  <2>2. ss \in [1..n -> V] BY <1>1, <2>1 DEF V
  <2>3. ss \in Seq(V) BY <2>1, <2>2
  <2> QED BY <2>3 DEF V
<1> QED BY <1>2, FlatTyped, Zenon DEF Words

LEMMA WordsOne ==
    ASSUME NEW x \in Tokens
    PROVE  Words(<<x>>) = x.w
<1>1. x.w \in Seq(Word) BY DEF Tokens
<1> DEFINE w == x.w
           ss == [p \in DOMAIN <<x>> |-> <<x>>[p].w]
<1>2. ss = <<w>> OBVIOUS
<1>3. w \in Seq(Word) BY <1>1
<1> HIDE DEF w
<1>4. FlattenSeq(<<w>>) = w
  <2>1. <<>> \in Seq(Seq(Word)) /\ Append(<<>>, w) = <<w>> OBVIOUS
  <2>2. FlattenSeq(Append(<<>>, w)) = FlattenSeq(<<>>) \o w BY <1>3, <2>1, FlatNext
  <2> QED BY <1>3, <2>1, <2>2, FlatNone, ConcatEmptySeq
<1> QED BY <1>2, <1>4 DEF Words, w

\* A scalar of the catalog is one token, and is the same one the next time.
LEMMA ScalarAgain ==
    ASSUME NEW part \in Seq(Tokens)
    PROVE  /\ ScalarToJson(part) \in Tokens /\ ScalarToJson(part).k \in {"num", "str"}
           /\ Quoted(part) => ScalarToJson(part).k = "str"
           /\ ScalarToJson(<<ScalarToJson(part)>>) = ScalarToJson(part)
<1> DEFINE s == ScalarToJson(part)
           ws == Words(part)
<1>1. ws \in Seq(Word) BY WordsTyped
<1>2. CASE Len(part) = 1 /\ part[1].k = "num"
  <2>1. s = part[1] /\ part[1] \in Tokens BY <1>2 DEF ScalarToJson
  <2>2. ~Quoted(part) BY <1>2 DEF Quoted
  <2> HIDE DEF s
  <2>3. Len(<<s>>) = 1 /\ <<s>>[1] = s OBVIOUS
  <2>4. ScalarToJson(<<s>>) = s BY <1>2, <2>1, <2>3 DEF ScalarToJson
  <2> QED BY <1>2, <2>1, <2>2, <2>4 DEF s
<1>3. CASE ~(Len(part) = 1 /\ part[1].k = "num")
  <2>1. s = [k |-> "str", w |-> ws] BY <1>3 DEF ScalarToJson
  <2> HIDE DEF s, ws
  <2>2. s \in Tokens /\ s.k = "str" /\ s.w = ws BY <1>1, <2>1 DEF Tokens, Kinds
  <2>3. Len(<<s>>) = 1 /\ <<s>>[1] = s OBVIOUS
  <2>4. ScalarToJson(<<s>>) = [k |-> "str", w |-> Words(<<s>>)] BY <2>2, <2>3 DEF ScalarToJson
  <2>5. ScalarToJson(<<s>>) = s BY <2>1, <2>2, <2>4, WordsOne
  <2> QED BY <2>2, <2>5 DEF s
<1> QED BY <1>2, <1>3

\* There is a part at least, and each is a piece of the text.
LEMMA PartsTyped ==
    ASSUME NEW S, NEW text \in Seq(S)
    PROVE  \E m \in Nat \ {0} : DOMAIN Parts(text) = 1..m /\ \A k \in 1..m : Parts(text)[k] \in Seq(S)
<1> DEFINE C == CutsOf(text)
           a == Ascending(C)
           n == Cardinality(C)
<1>1. /\ C \in SUBSET Int /\ IsFiniteSet(C) /\ C \in SUBSET (0..Len(text) + 1)
      /\ Parts(text) = [k \in 1..Len(a) - 1 |-> SubSeq(text, a[k] + 1, a[k + 1] - 1)]
  BY CutsAre
<1>2. 0 \in C /\ Len(text) + 1 \in C /\ Len(text) \in Nat BY DEF CutsOf
<1>3. n \in Nat BY <1>1, FS_CardinalityType
<1>4. /\ a \in [1..n -> C] /\ \A p, q \in 1..n : p < q => a[p] < a[q]
      /\ \A k \in C : LET p == Cardinality({x \in C : x < k}) + 1 IN p \in 1..n /\ a[p] = k
  BY <1>1, AscendingLists
<1> HIDE DEF C, a, n
<1>5. a \in Seq(C) /\ Len(a) = n BY <1>3, <1>4
<1>6. n - 1 \in Nat \ {0}
  <2>1. PICK p \in 1..n : a[p] = 0 BY <1>2, <1>4
  <2>2. PICK q \in 1..n : a[q] = Len(text) + 1 BY <1>2, <1>4
  <2>3. p # q BY <1>2, <2>1, <2>2
  <2> QED BY <1>3, <2>3
<1>7. ASSUME NEW k \in 1..n - 1 PROVE SubSeq(text, a[k] + 1, a[k + 1] - 1) \in Seq(S)
  <2>1. k \in 1..n /\ k + 1 \in 1..n BY <1>3, <1>6
  <2> DEFINE i == a[k] + 1
             j == a[k + 1] - 1
  <2>2. i \in Int /\ j \in Int /\ 1 <= i /\ j <= Len(text)
    <3>1. a[k] \in 0..Len(text) + 1 /\ a[k + 1] \in 0..Len(text) + 1 BY <1>1, <1>4, <2>1
    <3> QED BY <1>2, <3>1
  <2> HIDE DEF i, j
  <2>3. \A q \in i..j : text[q] \in S BY <1>2, <2>2
  <2>4. SubSeq(text, i, j) \in Seq(S) BY <2>2, <2>3, SubSeqProperties
  <2> QED BY <2>4 DEF i, j
<1>8. DOMAIN Parts(text) = 1..n - 1 /\ \A k \in 1..n - 1 : Parts(text)[k] \in Seq(S)
  BY <1>1, <1>5, <1>7
<1> QED BY <1>6, <1>8

\* A list in the parentheses of its column's IN is that list again.
LEMMA ListAgain ==
    ASSUME NEW list \in Seq(Tokens) \ {<<>>}, NEW n
    PROVE  NormalizeStoredColumnCheckExpr(<<Id(n), Kw("IN"), Kw("(")>> \o list \o <<Kw(")")>>, n) = list
<1> DEFINE a == <<Id(n), Kw("IN"), Kw("(")>>
           z == Kw(")")
           S == Tokens \cup {Id(n), Kw("IN"), Kw("("), z}
           t == a \o list \o <<z>>
           m == Len(list)
<1>1. a \in Seq(S) /\ Len(a) = 3 /\ a[1] = Id(n) /\ a[2] = Kw("IN") /\ a[3] = Kw("(") /\ z \in S
  OBVIOUS
<1>2. list \in Seq(S) /\ m \in Nat \ {0}
  <2> DEFINE V == Tokens
  <2>1. list \in Seq(V) /\ list # <<>> /\ V \subseteq S OBVIOUS
  <2> HIDE DEF V, S
  <2> QED BY <2>1
<1>0. t = a \o list \o <<z>> OBVIOUS
<1> HIDE DEF a, S, m, z, t
<1>3. /\ t \in Seq(S) /\ Len(t) = Len(a) + Len(list) + 1 /\ t[Len(a) + Len(list) + 1] = z
      /\ \A j \in 1..Len(a) : t[j] = a[j]
      /\ \A j \in 1..Len(list) : t[Len(a) + j] = list[j]
  <2>1. LET u == a \o list \o <<z>> IN
        /\ u \in Seq(S) /\ Len(u) = Len(a) + Len(list) + 1 /\ u[Len(a) + Len(list) + 1] = z
        /\ \A j \in 1..Len(a) : u[j] = a[j]
        /\ \A j \in 1..Len(list) : u[Len(a) + j] = list[j]
    <3>1. a \in Seq(S) /\ list \in Seq(S) /\ z \in S BY <1>1, <1>2
    <3> QED BY <3>1, Bracketed
  <2> QED BY <1>0, <2>1
<1>4. /\ t \in Seq(S) /\ Len(t) = m + 4 /\ t[m + 4] = z
      /\ t[1] = Id(n) /\ t[2] = Kw("IN") /\ t[3] = Kw("(") /\ \A j \in 1..m : t[3 + j] = list[j]
  <2>1. 1 \in 1..3 /\ 2 \in 1..3 /\ 3 \in 1..3 /\ 3 + m + 1 = m + 4 /\ Len(list) = m BY <1>2 DEF m
  <2>2. Len(t) = 3 + m + 1 /\ t[3 + m + 1] = z /\ \A j \in 1..3 : t[j] = a[j] BY <1>1, <1>3, <2>1
  <2>3. \A j \in 1..m : t[3 + j] = list[j] BY <1>1, <1>3, <2>1
  <2>4. t[1] = a[1] /\ t[2] = a[2] /\ t[3] = a[3] BY <2>1, <2>2
  <2> QED BY <1>1, <1>3, <2>1, <2>2, <2>3, <2>4
<1>5. IsList(t, n)
  <2>1. Len(t) >= 4 /\ t[Len(t)] = z BY <1>2, <1>4
  <2> QED BY <1>4, <2>1 DEF IsList, z
<1>6. Body(t) = SubSeq(t, 4, m + 3)
  <2>1. Len(t) - 1 = m + 3 BY <1>2, <1>4
  <2> QED BY <2>1 DEF Body
<1>7. SubSeq(t, 4, m + 3) = list
  <2> DEFINE u == SubSeq(t, 4, m + 3)
             e == m + 3
  <2>1. e \in Int /\ 4 \in Int /\ \A j \in 4..e : t[j] \in S BY <1>2, <1>4
  <2>2. /\ u \in Seq(S) /\ Len(u) = IF 4 <= e THEN e - 4 + 1 ELSE 0
        /\ \A j \in 1..e - 4 + 1 : u[j] = t[4 + j - 1]
    BY <2>1, SubSeqProperties
  <2> HIDE DEF u
  <2>3. Len(u) = m /\ \A j \in 1..m : u[j] = list[j]
    <3>1. 4 <= e /\ e - 4 + 1 = m /\ \A j \in 1..m : 4 + j - 1 = 3 + j BY <1>2
    <3> QED BY <1>4, <2>2, <3>1
  <2>4. u = list
    <3>1. Len(u) = Len(list) /\ \A j \in 1..Len(u) : u[j] = list[j] BY <2>3 DEF m
    <3> QED BY <1>2, <2>2, <3>1, SeqEqual
  <2> QED BY <2>4 DEF u
<1> QED BY <1>5, <1>6, <1>7 DEF NormalizeStoredColumnCheckExpr, t, a, z

\* What checkExprToJson tells apart.
HasComma(text) == \E p \in DOMAIN text : Contains(text[p].w, ",")
AllQuoted(text) == \A k \in DOMAIN Parts(text) : Quoted(Parts(text)[k])
IsEnum(text) == HasComma(text) /\ AllQuoted(text)
Scalars(text) == [k \in DOMAIN Parts(text) |-> ScalarToJson(Parts(text)[k])]
Ands(text) == {p \in 4..(Len(text) - 1) : text[p] = Kw("AND")}
FirstAnd(text) == CHOOSE p \in Ands(text) : \A q \in Ands(text) : p <= q
IsRange(text, c) == At(text, 1) = Id(c) /\ At(text, 2) = Kw("BETWEEN") /\ Ands(text) # {}
Low(text) == ScalarToJson(SubSeq(text, 3, FirstAnd(text) - 1))
High(text) == ScalarToJson(SubSeq(text, FirstAnd(text) + 1, Len(text)))
IsComparison(text, c) == At(text, 1) = Id(c) /\ At(text, 2).k = "op" /\ Len(text) > 2
Value3(text) == ScalarToJson(SubSeq(text, 3, Len(text)))

LEMMA JsonShapes ==
    ASSUME NEW text, NEW c, ~IsList(text, c)
    PROVE  /\ IsEnum(text) => CheckExprToJson(text, c) = [type |-> "enum", values |-> Scalars(text)]
           /\ ~IsEnum(text) /\ IsRange(text, c) =>
                CheckExprToJson(text, c) = [type |-> "range", min |-> Low(text), max |-> High(text)]
           /\ ~IsEnum(text) /\ ~IsRange(text, c) /\ IsComparison(text, c) =>
                CheckExprToJson(text, c) = [type |-> "comparison", operator |-> text[2], value |-> Value3(text)]
           /\ ~IsEnum(text) /\ ~IsRange(text, c) /\ ~IsComparison(text, c) =>
                CheckExprToJson(text, c) = [type |-> "expression", sql |-> text]
<1> DEFINE body == IF IsList(text, c) THEN Body(text) ELSE text
           commas == \E p \in DOMAIN text : Contains(text[p].w, ",")
           enum == (IsList(text, c) \/ commas) /\ \A k \in DOMAIN Parts(body) : Quoted(Parts(body)[k])
           ands == {p \in 4..(Len(text) - 1) : text[p] = Kw("AND")}
           and == CHOOSE p \in ands : \A q \in ands : p <= q
           own == At(text, 1) = Id(c)
           range == own /\ At(text, 2) = Kw("BETWEEN") /\ ands # {}
           comparison == own /\ At(text, 2).k = "op" /\ Len(text) > 2
           e1 == [type |-> "enum", values |-> [k \in DOMAIN Parts(body) |-> ScalarToJson(Parts(body)[k])]]
           e2 == [type |-> "range", min |-> ScalarToJson(SubSeq(text, 3, and - 1)),
                  max |-> ScalarToJson(SubSeq(text, and + 1, Len(text)))]
           e3 == [type |-> "comparison", operator |-> text[2], value |-> ScalarToJson(SubSeq(text, 3, Len(text)))]
           e4 == [type |-> "expression", sql |-> text]
<1>1. CheckExprToJson(text, c) = IF enum THEN e1 ELSE IF range THEN e2 ELSE IF comparison THEN e3 ELSE e4
  BY Zenon DEF CheckExprToJson
<1>2. body = text OBVIOUS
<1> HIDE DEF body
<1>3. (enum <=> IsEnum(text)) /\ e1 = [type |-> "enum", values |-> Scalars(text)]
  BY <1>2, Zenon DEF IsEnum, HasComma, AllQuoted, Scalars
<1>4. (range <=> IsRange(text, c)) /\ e2 = [type |-> "range", min |-> Low(text), max |-> High(text)]
  BY Zenon DEF IsRange, Ands, FirstAnd, Low, High
<1>5. /\ comparison <=> IsComparison(text, c)
      /\ e3 = [type |-> "comparison", operator |-> text[2], value |-> Value3(text)]
  BY Zenon DEF IsComparison, Value3
<1> HIDE DEF enum, range, comparison, e1, e2, e3
<1> QED BY <1>1, <1>3, <1>4, <1>5

LEMMA ReloadedIs ==
    ASSUME NEW n \in Names \cup {NewName}, NEW t \in Seq(Tokens) \ {<<>>}, ~IsList(t, n)
    PROVE  /\ IsEnum(t) => Reloaded(t, n) = ListText(Scalars(t))
           /\ ~IsEnum(t) /\ IsRange(t, n) =>
                Reloaded(t, n) = <<Id(n), Kw("BETWEEN"), Low(t), Kw("AND"), High(t)>>
           /\ ~IsEnum(t) /\ ~IsRange(t, n) /\ IsComparison(t, n) =>
                Reloaded(t, n) = <<Id(n), t[2], Value3(t)>>
           /\ ~IsEnum(t) /\ ~IsRange(t, n) /\ ~IsComparison(t, n) => Reloaded(t, n) = t
           /\ IsEnum(t) => Scalars(t) \in Seq(Tokens) \ {<<>>} /\ \A k \in DOMAIN Scalars(t) : Scalars(t)[k].k = "str"
<1> DEFINE json == CheckExprToJson(t, n)
<1>1. Reloaded(t, n) = NormalizeStoredColumnCheckExpr(ParseCheckObject(json, n), n)
  BY DEF Reloaded, NoText
<1>2. CASE IsEnum(t)
  <2>1. json = [type |-> "enum", values |-> Scalars(t)] BY <1>2, JsonShapes
  <2> HIDE DEF json
  <2>2. json.type = "enum" /\ json.values = Scalars(t) BY <2>1
  <2>3. ParseCheckObject(json, n) = <<Id(n), Kw("IN"), Kw("(")>> \o ListText(Scalars(t)) \o <<Kw(")")>>
    BY <2>2, Zenon DEF ParseCheckObject
  <2>4. PICK m \in Nat \ {0} : DOMAIN Parts(t) = 1..m /\ \A k \in 1..m : Parts(t)[k] \in Seq(Tokens)
    BY PartsTyped
  <2>5. \A k \in 1..m : Scalars(t)[k] \in Tokens /\ Scalars(t)[k].k = "str"
    <3> TAKE k \in 1..m
    <3>1. Scalars(t)[k] = ScalarToJson(Parts(t)[k]) BY <2>4 DEF Scalars
    <3>2. Quoted(Parts(t)[k]) BY <1>2, <2>4 DEF IsEnum, AllQuoted
    <3> QED BY <2>4, <3>1, <3>2, ScalarAgain
  <2>6. Scalars(t) \in Seq(Tokens) \ {<<>>} /\ DOMAIN Scalars(t) = 1..m
    <3> DEFINE V == Tokens
               s == Scalars(t)
    <3>1. DOMAIN s = 1..m /\ s = [k \in 1..m |-> s[k]] BY <2>4 DEF Scalars
    <3>2. \A k \in 1..m : s[k] \in V BY <2>5
    <3> HIDE DEF V, s
    <3>3. s \in Seq(V) /\ s # <<>> BY <2>4, <3>1, <3>2
    <3> QED BY <3>1, <3>3 DEF V, s
  <2>7. ListText(Scalars(t)) \in Seq(Tokens) \ {<<>>}
    <3>1. Tokens \cup {Comma} = Tokens BY MarkTokens
    <3>2. ListText(Scalars(t)) \in Seq(Tokens) /\ Len(ListText(Scalars(t))) = 2 * Len(Scalars(t)) - 1
      BY <2>6, <3>1, ListPlaces
    <3>3. Len(Scalars(t)) = m BY <2>4, <2>6
    <3>4. Len(ListText(Scalars(t))) # 0 BY <2>4, <3>2, <3>3
    <3>5. Len(<<>>) = 0 OBVIOUS
    <3> QED BY <3>2, <3>4, <3>5
  <2>8. Reloaded(t, n) = ListText(Scalars(t)) BY <1>1, <2>3, <2>7, ListAgain DEF json
  <2> QED BY <1>2, <2>5, <2>6, <2>8
<1>3. CASE ~IsEnum(t) /\ IsRange(t, n)
  <2>1. json = [type |-> "range", min |-> Low(t), max |-> High(t)] BY <1>3, JsonShapes
  <2> HIDE DEF json
  <2>2. json.type = "range" /\ json.min = Low(t) /\ json.max = High(t) BY <2>1
  <2>3. ParseCheckObject(json, n) = <<Id(n), Kw("BETWEEN"), Low(t), Kw("AND"), High(t)>>
    BY <2>2, SMT DEF ParseCheckObject
  <2>4. ~IsList(ParseCheckObject(json, n), n)
    <3>1. <<Id(n), Kw("BETWEEN"), Low(t), Kw("AND"), High(t)>>[2] = Kw("BETWEEN") OBVIOUS
    <3> QED BY <2>3, <3>1, MarkTokens DEF IsList
  <2> QED BY <1>1, <1>3, <2>3, <2>4 DEF NormalizeStoredColumnCheckExpr, json
<1>4. CASE ~IsEnum(t) /\ ~IsRange(t, n) /\ IsComparison(t, n)
  <2>1. json = [type |-> "comparison", operator |-> t[2], value |-> Value3(t)] BY <1>4, JsonShapes
  <2> HIDE DEF json
  <2>2. json.type = "comparison" /\ json.operator = t[2] /\ json.value = Value3(t) BY <2>1
  <2>3. ParseCheckObject(json, n) = <<Id(n), t[2], Value3(t)>> BY <2>2, SMT DEF ParseCheckObject
  <2>4. ~IsList(ParseCheckObject(json, n), n)
    <3>1. Len(<<Id(n), t[2], Value3(t)>>) = 3 OBVIOUS
    <3> QED BY <2>3, <3>1 DEF IsList
  <2> QED BY <1>1, <1>4, <2>3, <2>4 DEF NormalizeStoredColumnCheckExpr, json
<1>5. CASE ~IsEnum(t) /\ ~IsRange(t, n) /\ ~IsComparison(t, n)
  <2>1. json = [type |-> "expression", sql |-> t] BY <1>5, JsonShapes
  <2> HIDE DEF json
  <2>2. json.type = "expression" /\ json.sql = t BY <2>1
  <2>3. ParseCheckObject(json, n) = t BY <2>2, SMT DEF ParseCheckObject
  <2> QED BY <1>1, <1>5, <2>3 DEF NormalizeStoredColumnCheckExpr, json
<1> QED BY <1>2, <1>3, <1>4, <1>5

\* How the text comes back: as one it does not begin like a list of its column.
ComesBack(r, t, n) ==
    /\ r \in Seq(Tokens) /\ ~IsList(r, n) /\ Reloaded(r, n) = r
    /\ At(r, 1) = Id(n) \/ At(r, 1).k = "str" \/ r = t
    /\ (At(r, 1) = Id(n) /\ At(r, 2) = Kw("IN")) => r = t

LEMMA ListComesBack ==
    ASSUME NEW n \in Names \cup {NewName}, NEW values \in Seq(Tokens) \ {<<>>}, NEW t,
           \A k \in DOMAIN values : values[k].k = "str" /\ ScalarToJson(<<values[k]>>) = values[k]
    PROVE  ComesBack(ListText(values), t, n)
<1> DEFINE r == ListText(values)
           m == Len(values)
<1>1. m \in Nat \ {0} /\ DOMAIN values = 1..m OBVIOUS
<1>2. /\ r \in Seq(Tokens) /\ Len(r) = 2 * m - 1 /\ \A k \in 1..m : r[2 * k - 1] = values[k]
  <2>1. Tokens \cup {Comma} = Tokens BY MarkTokens
  <2> QED BY <2>1, ListPlaces
<1>3. \A k \in DOMAIN values : values[k] # Comma BY CommaIsAlone
<1>4. DOMAIN Parts(r) = 1..m /\ \A k \in 1..m : Parts(r)[k] = <<values[k]>> BY <1>3, PartsOfList
<1> HIDE DEF r
<1>5. r # <<>> /\ 1 \in DOMAIN r /\ r[1] = values[1] /\ r[1].k = "str"
  <2>1. 1 \in 1..m /\ 2 * 1 - 1 = 1 /\ 2 * m - 1 \in Nat \ {0} BY <1>1
  <2>2. r # <<>> /\ 1 \in DOMAIN r BY <1>2, <2>1
  <2> QED BY <1>1, <1>2, <2>1, <2>2
<1>6. At(r, 1).k = "str" /\ At(r, 1) # Id(n) /\ r[1] # Id(n)
  <2>1. At(r, 1) = r[1] BY <1>5 DEF At
  <2> QED BY <1>5, <2>1, OwnToken
<1>7. ~IsList(r, n) BY <1>6 DEF IsList
<1>8. Reloaded(r, n) = r
  <2>1. CASE IsEnum(r)
    <3>1. Reloaded(r, n) = ListText(Scalars(r)) BY <1>2, <1>5, <1>7, <2>1, ReloadedIs
    <3>2. Scalars(r) = [k \in 1..m |-> ScalarToJson(Parts(r)[k])] BY <1>4 DEF Scalars
    <3>3. \A k \in 1..m : ScalarToJson(Parts(r)[k]) = values[k] BY <1>1, <1>4
    <3>4. Scalars(r) = [k \in 1..m |-> values[k]] BY <3>2, <3>3
    <3>5. values = [k \in 1..m |-> values[k]] BY <1>1
    <3> QED BY <3>1, <3>4, <3>5 DEF r
  <2>2. CASE ~IsEnum(r)
    <3>1. ~IsRange(r, n) /\ ~IsComparison(r, n) BY <1>6 DEF IsRange, IsComparison
    <3> QED BY <1>2, <1>5, <1>7, <2>2, <3>1, ReloadedIs
  <2> QED BY <2>1, <2>2
<1> QED BY <1>2, <1>6, <1>7, <1>8 DEF ComesBack, r

\* What begins with its column is no list of literals.
LEMMA OwnIsNoEnum ==
    ASSUME NEW n \in Names \cup {NewName}, NEW r \in Seq(Tokens) \ {<<>>}, r[1] = Id(n)
    PROVE  ~IsEnum(r)
<1>1. r[1] # Comma /\ r[1].k = "id" BY OwnToken, CommaIsAlone
<1>2. 1 \in DOMAIN Parts(r) /\ Parts(r)[1][1] = r[1] BY <1>1, FirstPart
<1>3. ~Quoted(Parts(r)[1]) BY <1>1, <1>2 DEF Quoted
<1> QED BY <1>2, <1>3 DEF IsEnum, AllQuoted

LEMMA RangeComesBack ==
    ASSUME NEW n \in Names \cup {NewName}, NEW t, NEW lo \in Tokens, NEW hi \in Tokens,
           ScalarToJson(<<lo>>) = lo, ScalarToJson(<<hi>>) = hi
    PROVE  ComesBack(<<Id(n), Kw("BETWEEN"), lo, Kw("AND"), hi>>, t, n)
<1> DEFINE r == <<Id(n), Kw("BETWEEN"), lo, Kw("AND"), hi>>
           own == Id(n)
           between == Kw("BETWEEN")
           and == Kw("AND")
<1>1. own \in Tokens /\ between \in Tokens /\ and \in Tokens /\ between # Kw("IN") /\ between # and
  BY OwnToken, MarkTokens
<1> HIDE DEF own, between, and
<1>2. r = <<own, between, lo, and, hi>> BY DEF own, between, and
<1> HIDE DEF r
<1>3. /\ r \in Seq(Tokens) /\ Len(r) = 5 /\ r # <<>> /\ DOMAIN r = 1..5
      /\ r[1] = own /\ r[2] = between /\ r[3] = lo /\ r[4] = and /\ r[5] = hi
  <2> DEFINE V == Tokens
  <2>1. own \in V /\ between \in V /\ lo \in V /\ and \in V /\ hi \in V BY <1>1
  <2> HIDE DEF V
  <2>2. r \in Seq(V) BY <1>2, <2>1
  <2> QED BY <1>2, <2>2 DEF V
<1>4. At(r, 1) = own /\ At(r, 2) = between BY <1>3 DEF At
<1>5. ~IsList(r, n) BY <1>1, <1>3 DEF IsList
<1>6. ~IsEnum(r) BY <1>3, OwnIsNoEnum DEF own
<1>7. Ands(r) = {4}
  <2>1. 4..(Len(r) - 1) = {4} BY <1>3
  <2> QED BY <1>3, <2>1 DEF Ands, and
<1>8. FirstAnd(r) = 4 BY <1>7 DEF FirstAnd
<1>9. Low(r) = lo /\ High(r) = hi
  <2>1. SubSeq(r, 3, 3) = <<r[3]>> /\ SubSeq(r, 5, 5) = <<r[5]>>
    <3>1. 3 \in 1..Len(r) /\ 5 \in 1..Len(r) BY <1>3
    <3> QED BY <1>3, <3>1, OneOf
  <2>2. FirstAnd(r) - 1 = 3 /\ FirstAnd(r) + 1 = 5 /\ Len(r) = 5 BY <1>3, <1>8
  <2>3. Low(r) = ScalarToJson(<<lo>>) /\ High(r) = ScalarToJson(<<hi>>)
    BY <1>3, <2>1, <2>2 DEF Low, High
  <2> QED BY <2>3
<1>10. IsRange(r, n) BY <1>4, <1>7 DEF IsRange, own, between
<1>11. Reloaded(r, n) = r
  <2>1. Reloaded(r, n) = <<Id(n), Kw("BETWEEN"), Low(r), Kw("AND"), High(r)>>
    BY <1>3, <1>5, <1>6, <1>10, ReloadedIs
  <2> QED BY <1>9, <2>1 DEF r
<1>12. At(r, 1) = Id(n) /\ At(r, 2) # Kw("IN") BY <1>1, <1>4 DEF own
<1>13. ComesBack(r, t, n) BY <1>3, <1>5, <1>11, <1>12 DEF ComesBack
<1> QED BY <1>13 DEF r

LEMMA ComparisonComesBack ==
    ASSUME NEW n \in Names \cup {NewName}, NEW t, NEW o \in Tokens, o.k = "op", NEW v \in Tokens,
           ScalarToJson(<<v>>) = v
    PROVE  ComesBack(<<Id(n), o, v>>, t, n)
<1> DEFINE r == <<Id(n), o, v>>
           own == Id(n)
<1>1. own \in Tokens /\ o # Kw("IN") BY OwnToken, MarksAreNoValues
<1> HIDE DEF own
<1>2. r = <<own, o, v>> BY DEF own
<1> HIDE DEF r
<1>3. /\ r \in Seq(Tokens) /\ Len(r) = 3 /\ r # <<>> /\ DOMAIN r = 1..3
      /\ r[1] = own /\ r[2] = o /\ r[3] = v
  <2> DEFINE V == Tokens
  <2>1. own \in V /\ o \in V /\ v \in V BY <1>1
  <2> HIDE DEF V
  <2>2. r \in Seq(V) BY <1>2, <2>1
  <2> QED BY <1>2, <2>2 DEF V
<1>4. At(r, 1) = own /\ At(r, 2) = o BY <1>3 DEF At
<1>5. ~IsList(r, n) BY <1>3 DEF IsList
<1>6. ~IsEnum(r) BY <1>3, OwnIsNoEnum DEF own
<1>7. Ands(r) = {}
  <2>1. 4..(Len(r) - 1) = {} BY <1>3
  <2> QED BY <2>1 DEF Ands
<1>8. ~IsRange(r, n) /\ IsComparison(r, n)
  <2>1. Len(r) > 2 BY <1>3
  <2> QED BY <1>4, <1>7, <2>1 DEF IsRange, IsComparison, own
<1>9. Value3(r) = v
  <2>1. SubSeq(r, 3, 3) = <<r[3]>>
    <3>1. 3 \in 1..Len(r) BY <1>3
    <3> QED BY <1>3, <3>1, OneOf
  <2> QED BY <1>3, <2>1 DEF Value3
<1>10. Reloaded(r, n) = r
  <2>1. Reloaded(r, n) = <<Id(n), r[2], Value3(r)>> BY <1>3, <1>5, <1>6, <1>8, ReloadedIs
  <2> QED BY <1>3, <1>9, <2>1 DEF r
<1>11. At(r, 1) = Id(n) /\ At(r, 2) # Kw("IN") BY <1>1, <1>4 DEF own
<1>12. ComesBack(r, t, n) BY <1>3, <1>5, <1>10, <1>11 DEF ComesBack
<1> QED BY <1>12 DEF r

LEMMA AllComeBack ==
    ASSUME NEW n \in Names \cup {NewName}, NEW t \in Seq(Tokens), ~IsList(t, n)
    PROVE  ComesBack(Reloaded(t, n), t, n)
<1>1. CASE t = <<>>
  <2>1. Reloaded(t, n) = t BY <1>1 DEF Reloaded, NoText
  <2> QED BY <2>1 DEF ComesBack
<1>2. CASE t # <<>> /\ IsEnum(t)
  <2> DEFINE values == Scalars(t)
  <2>1. /\ Reloaded(t, n) = ListText(values) /\ values \in Seq(Tokens) \ {<<>>}
        /\ \A k \in DOMAIN values : values[k].k = "str"
    BY <1>2, ReloadedIs
  <2>2. ASSUME NEW k \in DOMAIN values PROVE ScalarToJson(<<values[k]>>) = values[k]
    <3>1. PICK m \in Nat \ {0} : DOMAIN Parts(t) = 1..m /\ \A i \in 1..m : Parts(t)[i] \in Seq(Tokens)
      BY PartsTyped
    <3>2. k \in 1..m /\ values[k] = ScalarToJson(Parts(t)[k]) BY <3>1 DEF Scalars
    <3> QED BY <3>1, <3>2, ScalarAgain
  <2> HIDE DEF values
  <2> QED BY <2>1, <2>2, ListComesBack
<1>3. ASSUME NEW i, NEW j, j <= Len(t), i \in Nat \ {0}, j \in Int
      PROVE  SubSeq(t, i, j) \in Seq(Tokens)
  <2> DEFINE V == Tokens
  <2>1. t \in Seq(V) OBVIOUS
  <2> HIDE DEF V
  <2>2. \A q \in i..j : t[q] \in V BY <1>3, <2>1
  <2>3. SubSeq(t, i, j) \in Seq(V) BY <1>3, <2>2, SubSeqProperties
  <2> QED BY <2>3 DEF V
<1>4. CASE t # <<>> /\ ~IsEnum(t) /\ IsRange(t, n)
  <2> DEFINE a == FirstAnd(t)
  <2>1. a \in Ands(t)
    <3>1. \E p \in Ands(t) : \A q \in Ands(t) : p <= q
      <4>1. Ands(t) \subseteq Nat /\ Ands(t) # {} BY <1>4 DEF Ands, IsRange
      <4> QED BY <4>1, LeastNatural
    <3> QED BY <3>1 DEF FirstAnd
  <2>2. a \in Nat /\ a >= 4 /\ a <= Len(t) - 1 /\ Len(t) \in Nat BY <2>1 DEF Ands
  <2> HIDE DEF a
  <2>3. a - 1 <= Len(t) /\ a + 1 \in Nat \ {0} /\ a - 1 \in Int BY <2>2
  <2>4. SubSeq(t, 3, a - 1) \in Seq(Tokens) /\ SubSeq(t, a + 1, Len(t)) \in Seq(Tokens)
    <3>1. SubSeq(t, 3, a - 1) \in Seq(Tokens)
      <4>1. 3 \in Nat \ {0} OBVIOUS
      <4> QED BY <1>3, <2>3, <4>1
    <3>2. SubSeq(t, a + 1, Len(t)) \in Seq(Tokens)
      <4>1. Len(t) <= Len(t) /\ Len(t) \in Int BY <2>2
      <4> QED BY <1>3, <2>3, <4>1
    <3> QED BY <3>1, <3>2
  <2>5. Low(t) \in Tokens /\ High(t) \in Tokens /\ ScalarToJson(<<Low(t)>>) = Low(t) /\ ScalarToJson(<<High(t)>>) = High(t)
    BY <2>4, ScalarAgain DEF Low, High, a
  <2>6. Reloaded(t, n) = <<Id(n), Kw("BETWEEN"), Low(t), Kw("AND"), High(t)>> BY <1>4, ReloadedIs
  <2> QED BY <2>5, <2>6, RangeComesBack
<1>5. CASE t # <<>> /\ ~IsEnum(t) /\ ~IsRange(t, n) /\ IsComparison(t, n)
  <2>1. Len(t) \in Nat /\ Len(t) > 2 BY <1>5 DEF IsComparison
  <2>2. SubSeq(t, 3, Len(t)) \in Seq(Tokens)
    <3>1. 3 \in Nat \ {0} /\ Len(t) <= Len(t) /\ Len(t) \in Int BY <2>1
    <3> QED BY <1>3, <3>1
  <2>3. Value3(t) \in Tokens /\ ScalarToJson(<<Value3(t)>>) = Value3(t)
    BY <2>2, ScalarAgain DEF Value3
  <2>4. t[2] \in Tokens /\ t[2].k = "op"
    <3>1. 2 \in DOMAIN t BY <2>1
    <3> QED BY <1>5, <3>1 DEF IsComparison, At
  <2>5. Reloaded(t, n) = <<Id(n), t[2], Value3(t)>> BY <1>5, ReloadedIs
  <2> QED BY <2>3, <2>4, <2>5, ComparisonComesBack
<1>6. CASE t # <<>> /\ ~IsEnum(t) /\ ~IsRange(t, n) /\ ~IsComparison(t, n)
  <2>1. Reloaded(t, n) = t BY <1>6, ReloadedIs
  <2> QED BY <2>1 DEF ComesBack
<1> QED BY <1>1, <1>2, <1>4, <1>5, <1>6

----------------------------------------------------------------------------
(* What a RENAME makes of a text *)

LEMMA LexedTokens ==
    ASSUME NEW word \in Word
    PROVE  Lexed(word) \in Tokens /\ (word \in StringWord => Lexed(word).k = "str")
<1>1. ASSUME NEW k \in Kinds PROVE Tok(k, word) \in Tokens /\ Tok(k, word).k = k
  <2>1. <<word>> \in Seq(Word) OBVIOUS
  <2>2. Tok(k, word) = [k |-> k, w |-> <<word>>] BY DEF Tok
  <2> QED BY <2>1, <2>2 DEF Tokens
<1>2. \E k \in Kinds : Lexed(word) = Tok(k, word)
  <2>1. "id" \in Kinds /\ "num" \in Kinds /\ "str" \in Kinds /\ "kw" \in Kinds /\ "op" \in Kinds
    BY DEF Kinds
  <2> QED BY <2>1 DEF Lexed, Str, Num, Id, Kw
<1>3. word \in StringWord => Lexed(word) = Tok("str", word) BY DEF Lexed, Str
<1>4. "str" \in Kinds BY DEF Kinds
<1> QED BY <1>1, <1>2, <1>3, <1>4

Piece(token, from) ==
    IF token = Id(from) THEN <<Id(NewName)>>
    ELSE IF token.k = "str" /\ Len(token.w) > 1 /\ token.w[1] \in StringWord
    THEN [m \in DOMAIN token.w |-> Lexed(token.w[m])]
    ELSE <<token>>

LEMMA PieceIs ==
    ASSUME NEW token \in Tokens, NEW from \in Names
    PROVE  /\ Piece(token, from) \in Seq(Tokens) /\ Piece(token, from) # <<>>
           /\ token = Id(from) => Piece(token, from) = <<Id(NewName)>>
           /\ token # Id(from) => Piece(token, from) = <<token>> \/ Piece(token, from)[1].k = "str"
           /\ token # Id(from) /\ Len(token.w) = 1 => Piece(token, from) = <<token>>
<1>1. Id(NewName) \in Tokens BY OwnToken
<1>2. \A x \in Tokens : <<x>> \in Seq(Tokens) /\ <<x>> # <<>>
  <2> TAKE x \in Tokens
  <2> DEFINE V == Tokens
  <2>1. x \in V OBVIOUS
  <2> HIDE DEF V
  <2>2. <<x>> \in Seq(V) /\ <<x>> # <<>> BY <2>1
  <2> QED BY <2>2 DEF V
<1>3. CASE token = Id(from) BY <1>1, <1>2, <1>3 DEF Piece
<1>4. CASE token # Id(from) /\ ~(token.k = "str" /\ Len(token.w) > 1 /\ token.w[1] \in StringWord)
  BY <1>2, <1>4 DEF Piece
<1>5. CASE token # Id(from) /\ token.k = "str" /\ Len(token.w) > 1 /\ token.w[1] \in StringWord
  <2> DEFINE w == token.w
             V == Tokens
             s == [m \in DOMAIN w |-> Lexed(w[m])]
  <2>1. w \in Seq(Word) /\ Len(w) > 1 /\ w[1] \in StringWord BY <1>5 DEF Tokens
  <2>2. Piece(token, from) = s BY <1>5 DEF Piece
  <2> HIDE DEF w
  <2>3. \A m \in DOMAIN w : w[m] \in Word /\ Lexed(w[m]) \in V BY <2>1, LexedTokens
  <2>4. 1 \in DOMAIN w /\ s[1] = Lexed(w[1]) BY <2>1
  <2>5. s[1].k = "str" BY <2>1, <2>3, <2>4, LexedTokens
  <2> HIDE DEF V
  <2>6. s \in Seq(V) /\ s # <<>> BY <2>1, <2>3, <2>4
  <2>7. Len(w) # 1
    <3> DEFINE l == Len(w)
    <3>1. l > 1 /\ l \in Nat BY <2>1
    <3> HIDE DEF l
    <3>2. l # 1 BY <3>1
    <3> QED BY <3>2 DEF l
  <2> QED BY <1>5, <2>2, <2>5, <2>6, <2>7 DEF V, w
<1> QED BY <1>3, <1>4, <1>5

\* A text that comes back from the catalog, if it begins like a list of its
\* column, is one that was declared: no literal of it was made of others.
Settling(t, n) ==
    /\ t \in Seq(Tokens) /\ ~IsList(t, n)
    /\ (At(t, 1) = Id(n) /\ At(t, 2) = Kw("IN")) => \A p \in DOMAIN t : Len(t[p].w) = 1

LEMMA NoTextSettles == \A n : Settling(<<>>, n)
<1>1. IsList(<<>>, 0) \in BOOLEAN /\ Len(<<>>) = 0 /\ DOMAIN <<>> = {} BY DEF IsList
<1>2. <<>> \in Seq(Tokens) OBVIOUS
<1> QED BY <1>1, <1>2 DEF Settling, IsList

LEMMA RewrittenSettles ==
    ASSUME NEW n \in Names, NEW from \in Names, NEW t, Settling(t, n), At(t, 1) # Id(NewName)
    PROVE  Settling(Rewritten(t, from, NewName), NewNameOf(n, from))
<1> DEFINE r == Rewritten(t, from, NewName)
           ss == [p \in DOMAIN t |-> Piece(t[p], from)]
           now == NewNameOf(n, from)
           m == Len(t)
           V == Tokens
<1>1. t \in Seq(V) /\ ~IsList(t, n) /\ m \in Nat /\ DOMAIN t = 1..m BY DEF Settling
<1>2. r = FlattenSeq(ss) BY DEF Rewritten, Piece
<1>3. \A p \in 1..m : t[p] \in V /\ ss[p] \in Seq(V) /\ ss[p] # <<>>
  <2> TAKE p \in 1..m
  <2>1. t[p] \in V
    <3> HIDE DEF V
    <3> QED BY <1>1
  <2> QED BY <1>1, <2>1, PieceIs
<1>4. ss \in Seq(Seq(V)) /\ Len(ss) = m
  <2> DEFINE U == Seq(V)
  <2>1. ss = [p \in 1..m |-> ss[p]] /\ \A p \in 1..m : ss[p] \in U BY <1>1, <1>3
  <2> HIDE DEF U, ss
  <2>2. ss \in Seq(U) /\ Len(ss) = m BY <1>1, <2>1
  <2> QED BY <2>2 DEF U
<1>5. \A p \in 1..m : ss[p] = Piece(t[p], from) BY <1>1
<1> HIDE DEF ss
<1>6. r \in Seq(V) BY <1>2, <1>4, FlatPlaces
<1>7. PICK at \in [1..m + 1 -> Nat \ {0}] :
        /\ at[1] = 1 /\ Len(r) = at[m + 1] - 1
        /\ \A k \in 1..m : at[k + 1] = at[k] + Len(ss[k]) /\ Spells(r, at[k], ss[k])
  <2>1. \E at \in [1..Len(ss) + 1 -> Nat \ {0}] :
            /\ at[1] = 1 /\ Len(FlattenSeq(ss)) = at[Len(ss) + 1] - 1
            /\ \A k \in 1..Len(ss) : at[k + 1] = at[k] + Len(ss[k]) /\ Spells(FlattenSeq(ss), at[k], ss[k])
    BY <1>4, FlatPlaces
  <2> QED BY <1>2, <1>4, <2>1
<1> HIDE DEF r, m
<1>8. ASSUME NEW p \in 1..m PROVE r[at[p]] = ss[p][1]
  <2>1. Spells(r, at[p], ss[p]) /\ Len(ss[p]) \in Nat \ {0} /\ at[p] \in Nat BY <1>1, <1>3, <1>7, SMTT(30)
  <2>2. 1 \in 1..Len(ss[p]) /\ at[p] + 1 - 1 = at[p] BY <2>1
  <2> QED BY <2>1, <2>2 DEF Spells
<1>9. NewName \notin Names BY ChecksAssumption
<1>10. \A x, y : Id(x) = Id(y) => x = y BY TokensDiffer DEF Id
<1>11. \A x : Id(x).k = "id" /\ Kw("IN").k = "kw" /\ Kw("(").k = "kw" /\ Kw(")").k = "kw" /\ End # Kw("IN") /\ Id(x) # End
  BY TokensDiffer DEF Id, Kw, End
\* Where the new text begins like a list of its column, the old one did.
<1>12. ASSUME At(r, 1) = Id(now), At(r, 2) = Kw("IN")
       PROVE  /\ 2 <= m /\ At(t, 1) = Id(n) /\ At(t, 2) = Kw("IN")
              /\ t[1] = Id(n) /\ t[2] = Kw("IN")
  <2>1. 1 \in DOMAIN r /\ r[1] = Id(now) /\ 2 \in DOMAIN r /\ r[2] = Kw("IN") BY <1>11, <1>12 DEF At
  <2>2. Len(r) >= 2 BY <1>6, <2>1
  <2>3. m # 0 BY <1>7, <2>2
  <2>4. 1 \in 1..m /\ r[1] = ss[1][1] BY <1>1, <1>7, <1>8, <2>3
  <2>5. Piece(t[1], from)[1] = Id(now) /\ t[1] \in V BY <1>3, <1>5, <2>1, <2>4
  <2>6. At(t, 1) = t[1] BY <1>1, <2>4 DEF At
  <2>7. t[1] = Id(n) /\ Len(Piece(t[1], from)) = 1
    <3>1. CASE t[1] = Id(from)
      <4>1. Piece(t[1], from) = <<Id(NewName)>> BY <2>5, <3>1, PieceIs
      <4>2. Id(now) = Id(NewName) BY <2>5, <4>1
      <4>3. now = NewName BY <1>10, <4>2
      <4>4. n = from BY <1>9, <4>3 DEF NewNameOf
      <4> QED BY <3>1, <4>1, <4>4
    <3>2. CASE t[1] # Id(from)
      <4>1. Piece(t[1], from) = <<t[1]>> \/ Piece(t[1], from)[1].k = "str" BY <2>5, <3>2, PieceIs
      <4>2. Piece(t[1], from) = <<t[1]>> BY <1>11, <2>5, <4>1
      <4>3. t[1] = Id(now) BY <2>5, <4>2
      <4>4. now # NewName BY <2>6, <4>3
      <4>5. now = n BY <4>4 DEF NewNameOf
      <4> QED BY <4>2, <4>3, <4>5
    <3> QED BY <3>1, <3>2
  <2>8. at[2] = 2
    <3>1. at[1 + 1] = at[1] + Len(ss[1]) /\ 1 + 1 = 2 BY <1>7, <2>4
    <3> QED BY <1>5, <1>7, <2>4, <2>7, <3>1
  <2>9. 2 \in 1..m
    <3>1. ASSUME m = 1 PROVE FALSE
      <4>1. Len(r) = at[2] - 1 BY <1>7, <3>1
      <4> QED BY <2>2, <2>8, <4>1
    <3> QED BY <1>1, <2>3, <3>1 DEF m
  <2>10. Piece(t[2], from)[1] = Kw("IN") /\ t[2] \in V BY <1>3, <1>5, <1>8, <2>1, <2>8, <2>9
  <2>11. t[2] = Kw("IN")
    <3>1. CASE t[2] = Id(from)
      <4>1. Piece(t[2], from) = <<Id(NewName)>> BY <2>10, <3>1, PieceIs
      <4> QED BY <1>11, <2>10, <4>1
    <3>2. CASE t[2] # Id(from)
      <4>1. Piece(t[2], from) = <<t[2]>> \/ Piece(t[2], from)[1].k = "str" BY <2>10, <3>2, PieceIs
      <4> QED BY <1>11, <2>10, <4>1
    <3> QED BY <3>1, <3>2
  <2>12. At(t, 2) = t[2] BY <1>1, <2>9 DEF At
  <2> QED BY <2>6, <2>7, <2>9, <2>11, <2>12
\* And it was then renamed token by token.
<1>13. ASSUME At(r, 1) = Id(now), At(r, 2) = Kw("IN")
       PROVE  /\ Len(r) = m /\ \A p \in 1..m : Len(t[p].w) = 1
              /\ \A p \in 1..m : r[p] = IF t[p] = Id(from) THEN Id(NewName) ELSE t[p]
  <2>1. \A p \in 1..m : Len(t[p].w) = 1 BY <1>1, <1>12, <1>13 DEF Settling
  <2>2. ASSUME NEW p \in 1..m
        PROVE  Len(ss[p]) = 1 /\ ss[p][1] = IF t[p] = Id(from) THEN Id(NewName) ELSE t[p]
    <3>1. t[p] \in V /\ Len(t[p].w) = 1 /\ ss[p] = Piece(t[p], from) BY <1>3, <1>5, <2>1
    <3>2. CASE t[p] = Id(from)
      <4>1. ss[p] = <<Id(NewName)>> BY <3>1, <3>2, PieceIs
      <4> QED BY <3>2, <4>1
    <3>3. CASE t[p] # Id(from)
      <4>1. ss[p] = <<t[p]>> BY <3>1, <3>3, PieceIs
      <4> QED BY <3>3, <4>1
    <3> QED BY <3>2, <3>3
  <2>3. r = [k \in 1..Len(ss) |-> ss[k][1]] BY <1>2, <1>4, <2>2, OnesJoined DEF r
  <2>4. r = [k \in 1..m |-> ss[k][1]] BY <1>4, <2>3
  <2>5. Len(r) = m /\ \A k \in 1..m : r[k] = ss[k][1] BY <1>1, <1>6, <2>4
  <2> QED BY <2>1, <2>2, <2>5
<1>14. ASSUME IsList(r, now) PROVE FALSE
  <2>1. Len(r) >= 4 /\ r[1] = Id(now) /\ r[2] = Kw("IN") /\ r[3] = Kw("(") /\ r[Len(r)] = Kw(")")
    BY <1>14 DEF IsList
  <2>2. 1 \in DOMAIN r /\ 2 \in DOMAIN r BY <1>6, <2>1
  <2>3. At(r, 1) = Id(now) /\ At(r, 2) = Kw("IN") BY <2>1, <2>2 DEF At
  <2>4. Len(r) = m /\ \A p \in 1..m : r[p] = IF t[p] = Id(from) THEN Id(NewName) ELSE t[p]
    BY <1>13, <2>3
  <2>5. 3 \in 1..m /\ m \in 1..m /\ m >= 4 BY <1>1, <2>1, <2>4
  <2>6. t[3] = Kw("(") /\ t[m] = Kw(")")
    <3>1. r[3] = (IF t[3] = Id(from) THEN Id(NewName) ELSE t[3]) /\ r[m] = (IF t[m] = Id(from) THEN Id(NewName) ELSE t[m])
      BY <2>4, <2>5
    <3>2. r[3] = Kw("(") /\ r[m] = Kw(")") BY <2>1, <2>4
    <3> QED BY <1>11, <3>1, <3>2
  <2>7. t[1] = Id(n) /\ t[2] = Kw("IN") BY <1>12, <2>3
  <2>8. IsList(t, n) BY <2>5, <2>6, <2>7 DEF IsList, m
  <2> QED BY <1>1, <2>8
<1>15. ASSUME At(r, 1) = Id(now), At(r, 2) = Kw("IN"), NEW p \in DOMAIN r PROVE Len(r[p].w) = 1
  <2>1. /\ Len(r) = m /\ \A q \in 1..m : Len(t[q].w) = 1
        /\ \A q \in 1..m : r[q] = IF t[q] = Id(from) THEN Id(NewName) ELSE t[q]
    BY <1>13, <1>15
  <2>2. p \in 1..m BY <1>6, <1>15, <2>1
  <2>3. Len(Id(NewName).w) = 1 BY TokensDiffer DEF Id
  <2> QED BY <2>1, <2>2, <2>3
<1> QED BY <1>6, <1>14, <1>15 DEF Settling, r

----------------------------------------------------------------------------
(* The texts of a CREATE TABLE, and what is kept of them *)

LEMMA FirstPrimaryPlaces ==
    ASSUME NEW names, NEW e \in Expression(names)
    PROVE  /\ TextOf(e) \in Sentence(names) /\ First(e) \in Primary(names)
           /\ Known(First(e), Texts(e), names)
           /\ Spells(TextOf(e), 1, PrimaryText(First(e), Texts(e)))
<1> DEFINE texts == Texts(e)
           l == Len(e)
           part == e[l]
           and == part[1]
           p == and[1]
           s == OrText(part, texts)
           u == AndText(and, texts)
           v == PrimaryText(p, texts)
<1>1. l \in Nat \ {0} /\ part \in Part(names) /\ \A k \in DOMAIN part : part[k] \in NonEmpty(Primary(names))
  BY ExpressionParts
<1>2. texts \in Seq(Sentence(names)) /\ Len(texts) = l /\ AllKnown(part, texts, names) /\ texts[l] = s
  BY <1>1, TextsOf
<1>3. TextOf(e) = s BY <1>2 DEF TextOf, Last
<1>4. First(e) = p BY DEF First, Whole, Last
<1> HIDE DEF texts, l, part
<1>5. 1 \in DOMAIN part /\ and \in NonEmpty(Primary(names)) /\ Len(part) \in Nat \ {0} /\ DOMAIN part = 1..Len(part)
  <2> DEFINE V == NonEmpty(Primary(names))
  <2>1. part \in Seq(V) /\ part # <<>> BY <1>1 DEF Part, NonEmpty
  <2> HIDE DEF V
  <2>2. 1 \in DOMAIN part /\ Len(part) \in Nat \ {0} /\ DOMAIN part = 1..Len(part) /\ part[1] \in V
    BY <2>1
  <2> QED BY <2>2 DEF V
<1> HIDE DEF and
<1>6. 1 \in DOMAIN and /\ p \in Primary(names) /\ Len(and) \in Nat \ {0} /\ DOMAIN and = 1..Len(and)
  <2> DEFINE V == Primary(names)
  <2>1. and \in Seq(V) /\ and # <<>> BY <1>5 DEF NonEmpty
  <2> HIDE DEF V
  <2>2. 1 \in DOMAIN and /\ Len(and) \in Nat \ {0} /\ DOMAIN and = 1..Len(and) /\ and[1] \in V
    BY <2>1
  <2> QED BY <2>2 DEF V
<1>7. \A m \in DOMAIN and : Known(and[m], texts, names) BY <1>2, <1>5 DEF AllKnown, and
<1>8. s \in Sentence(names) /\ \E at : PartsAt(at, OrParts(part, texts), Kw("OR"), s)
  BY <1>1, <1>2, OrPlaces
<1>9. u \in Sentence(names) /\ \E at : PartsAt(at, AndParts(and, texts), Kw("AND"), u)
  BY <1>5, <1>7, AndPlaces
<1>10. Known(p, texts, names) BY <1>6, <1>7
<1>11. v \in Sentence(names) BY <1>6, <1>10, PrimaryPlaces
<1>12. Spells(s, 1, u)
  <2> DEFINE parts == OrParts(part, texts)
  <2>1. DOMAIN parts = 1..Len(part) /\ parts[1] = u BY <1>5 DEF OrParts, and
  <2>2. Len(parts) = Len(part) /\ 1 \in 1..Len(parts) BY <1>5, <2>1
  <2> HIDE DEF parts, s, u
  <2>3. PICK at : PartsAt(at, parts, Kw("OR"), s) BY <1>8 DEF parts
  <2>4. at[1] = 1 /\ Spells(s, at[1], parts[1]) BY <2>2, <2>3 DEF PartsAt
  <2> QED BY <2>1, <2>4
<1>13. Spells(u, 1, v)
  <2> DEFINE parts == AndParts(and, texts)
  <2>1. DOMAIN parts = 1..Len(and) /\ parts[1] = v BY <1>6 DEF AndParts
  <2>2. Len(parts) = Len(and) /\ 1 \in 1..Len(parts) BY <1>6, <2>1
  <2> HIDE DEF parts, u, v
  <2>3. PICK at : PartsAt(at, parts, Kw("AND"), u) BY <1>9 DEF parts
  <2>4. at[1] = 1 /\ Spells(u, at[1], parts[1]) BY <2>2, <2>3 DEF PartsAt
  <2> QED BY <2>1, <2>4
<1> HIDE DEF s, u, v
<1>14. Len(s) \in Nat /\ Len(u) \in Nat /\ Len(v) \in Nat
  BY <1>8, <1>9, <1>11 DEF Sentence, NonEmpty
<1>15. Spells(s, 1, v)
  <2>1. Len(u) <= Len(s) /\ Len(v) <= Len(u) BY <1>12, <1>13, <1>14 DEF Spells
  <2>2. ASSUME NEW j \in 1..Len(v) PROVE s[1 + j - 1] = v[j]
    <3>1. j \in 1..Len(u) BY <1>14, <2>1
    <3> QED BY <1>12, <1>13, <3>1 DEF Spells
  <2>3. 1 + Len(v) <= Len(s) + 1 BY <1>14, <2>1
  <2> QED BY <2>2, <2>3 DEF Spells
<1> QED BY <1>3, <1>4, <1>6, <1>8, <1>10, <1>15 DEF v, texts, p

\* What is declared, where it begins like a list, goes on like one.
Written(t) ==
    /\ t \in Seq(Symbols(Names))
    /\ \A n : At(t, 1) = Id(n) /\ At(t, 2) = Kw("IN")
              => Len(t) >= 5 /\ (t[5] = Comma \/ t[5] = Kw(")"))

LEMMA MarksDiffer ==
    /\ Kw("IN") # Kw("BETWEEN") /\ Kw("IN") # Kw("NOT") /\ Kw("IN") # End /\ Kw("IN") # Kw(")")
    /\ Kw("IN") # Comma /\ \A o : Tok("op", o) # Kw("IN")
    /\ \A n, w : Id(n) # Kw(w) /\ Id(n) # End
<1>1. Kw("IN") # Comma BY CommaIsAlone
<1> QED BY <1>1, TokensDiffer DEF Kw, End, Id

\* How the text of an expression begins.
BeginsAs(t, p) ==
    /\ p.p = "paren" => At(t, 1) = Kw("(")
    /\ p.p # "paren" => At(t, 1) = Id(p.c)
    /\ p.p = "cmp" => At(t, 2) = Tok("op", p.op)
    /\ p.p = "between" => At(t, 2) = Kw("BETWEEN")
    /\ p.p = "in" => At(t, 2) = IF p.negated THEN Kw("NOT") ELSE Kw("IN")

\* How it goes on after the name of a list that is not negated.
ListBegins(t, items) ==
    /\ Len(items) \in Nat \ {0} /\ Len(t) >= 3 + 2 * Len(items)
    /\ At(t, 3) = Kw("(") /\ At(t, 4) = items[1]
    /\ At(t, 5) = IF Len(items) = 1 THEN Kw(")") ELSE Comma

\* The text of an expression begins with its first condition.
LEMMA TextBegins ==
    ASSUME NEW names, NEW e \in Expression(names)
    PROVE  /\ TextOf(e) \in Seq(Symbols(names)) /\ Len(TextOf(e)) \in Nat \ {0}
           /\ First(e) \in Primary(names) /\ BeginsAs(TextOf(e), First(e))
           /\ First(e).p = "in" /\ ~First(e).negated => ListBegins(TextOf(e), First(e).items)
<1> DEFINE t == TextOf(e)
           p == First(e)
           s == PrimaryText(p, Texts(e))
<1>1. /\ t \in Sentence(names) /\ p \in Primary(names) /\ Known(p, Texts(e), names)
      /\ Spells(t, 1, s)
  BY FirstPrimaryPlaces
<1> HIDE DEF t, p
<1>2. s \in Sentence(names) /\ PrimaryAt(s, p, Texts(e)) BY <1>1, PrimaryPlaces
<1> HIDE DEF s
<1>3. /\ t \in Seq(Symbols(names)) /\ Len(t) \in Nat \ {0} /\ s \in Seq(Symbols(names)) /\ Len(s) \in Nat \ {0}
  BY <1>1, <1>2 DEF Sentence, NonEmpty
<1>4. Len(s) <= Len(t) /\ \A j \in 1..Len(s) : At(t, j) = s[j]
  <2>1. \A j \in 1..Len(s) : j \in 1..Len(t) /\ t[j] = s[j] BY <1>1, <1>3 DEF Spells
  <2>2. Len(s) <= Len(t) BY <1>1, <1>3 DEF Spells
  <2> QED BY <1>3, <2>1, <2>2 DEF At
<1>5. CASE p.p = "cmp"
  <2>1. Len(s) = 3 /\ s[1] = Id(p.c) /\ s[2] = Tok("op", p.op)
    BY <1>2, <1>5 DEF PrimaryAt, ComparisonAt
  <2>2. 1 \in 1..Len(s) /\ 2 \in 1..Len(s) BY <2>1
  <2> QED BY <1>1, <1>3, <1>4, <1>5, <2>1, <2>2 DEF BeginsAs, t, p
<1>6. CASE p.p = "between"
  <2>1. Len(s) = 5 /\ s[1] = Id(p.c) /\ s[2] = Kw("BETWEEN") BY <1>2, <1>6 DEF PrimaryAt, RangeAt
  <2>2. 1 \in 1..Len(s) /\ 2 \in 1..Len(s) BY <2>1
  <2> QED BY <1>1, <1>3, <1>4, <1>6, <2>1, <2>2 DEF BeginsAs, t, p
<1>7. CASE p.p = "paren"
  <2>1. s[1] = Kw("(") BY <1>2, <1>7 DEF PrimaryAt, ParenAt
  <2>2. 1 \in 1..Len(s) BY <1>3
  <2> QED BY <1>1, <1>3, <1>4, <1>7, <2>1, <2>2 DEF BeginsAs, t, p
<1>8. CASE p.p = "in"
  <2> DEFINE b == InFrom(p)
             n == Len(p.items)
  <2>1. p.negated \in BOOLEAN /\ n \in Nat \ {0}
    <3>1. p.negated \in BOOLEAN /\ p.items \in NonEmpty(ValueTok(names)) BY <1>1, <1>8, PrimaryShape
    <3> DEFINE V == ValueTok(names)
               x == p.items
    <3>2. x \in Seq(V) /\ x # <<>> BY <3>1 DEF NonEmpty
    <3> HIDE DEF V, x
    <3>3. Len(x) \in Nat \ {0} BY <3>2
    <3> QED BY <3>1, <3>3 DEF x
  <2>2. /\ Len(s) = b + 2 * n /\ s[1] = Id(p.c) /\ (p.negated => s[2] = Kw("NOT"))
        /\ s[b - 1] = Kw("IN") /\ s[b] = Kw("(") /\ s[b + 2 * n] = Kw(")")
        /\ (\A k \in 1..n : s[b + 2 * k - 1] = p.items[k]) /\ \A k \in 1..n - 1 : s[b + 2 * k] = Comma
    BY <1>2, <1>8 DEF PrimaryAt, ListAt
  <2>3. b = IF p.negated THEN 4 ELSE 3 BY DEF InFrom
  <2>4. p.items[1] = p.items[1] /\ n = Len(p.items) OBVIOUS
  <2> HIDE DEF b, n
  <2>5. Len(s) >= 5 BY <2>1, <2>2, <2>3
  <2>6. 1 \in 1..Len(s) /\ 2 \in 1..Len(s) /\ 3 \in 1..Len(s) /\ 4 \in 1..Len(s) /\ 5 \in 1..Len(s)
    BY <1>3, <2>5
  <2>7. BeginsAs(t, p)
    <3>1. At(t, 1) = Id(p.c) BY <1>4, <2>2, <2>6
    <3>2. At(t, 2) = IF p.negated THEN Kw("NOT") ELSE Kw("IN") BY <1>4, <2>1, <2>2, <2>3, <2>6
    <3> QED BY <1>8, <3>1, <3>2 DEF BeginsAs
  <2>8. ASSUME ~p.negated PROVE ListBegins(t, p.items)
    <3>1. b = 3 BY <2>3, <2>8
    <3>2. s[3] = Kw("(") /\ s[4] = p.items[1]
      <4>1. 1 \in 1..n /\ b + 2 * 1 - 1 = 4 BY <2>1, <3>1
      <4> QED BY <2>2, <3>1, <4>1
    <3>3. s[5] = IF n = 1 THEN Kw(")") ELSE Comma
      <4>1. CASE n = 1 BY <2>2, <3>1, <4>1
      <4>2. CASE n # 1
        <5>1. 1 \in 1..n - 1 /\ b + 2 * 1 = 5 BY <2>1, <3>1, <4>2
        <5> QED BY <2>2, <4>2, <5>1
      <4> QED BY <4>1, <4>2
    <3>4. Len(t) >= 3 + 2 * n BY <1>3, <1>4, <2>1, <2>2, <3>1
    <3> QED BY <1>4, <2>1, <2>4, <2>6, <3>2, <3>3, <3>4 DEF ListBegins
  <2> QED BY <1>1, <1>3, <2>7, <2>8 DEF t, p
<1> QED BY <1>1, <1>5, <1>6, <1>7, <1>8, PrimaryShape

LEMMA DeclaredIsWritten ==
    ASSUME NEW e \in Expression(Names)
    PROVE  TextOf(e) \in Sentence(Names) /\ Written(TextOf(e))
<1> DEFINE t == TextOf(e)
           p == First(e)
<1>1. /\ t \in Seq(Symbols(Names)) /\ Len(t) \in Nat \ {0} /\ p \in Primary(Names) /\ BeginsAs(t, p)
      /\ p.p = "in" /\ ~p.negated => ListBegins(t, p.items)
  BY TextBegins
<1> HIDE DEF t, p
<1>2. t \in Sentence(Names) BY <1>1 DEF Sentence, NonEmpty
<1>3. ASSUME NEW n, At(t, 1) = Id(n), At(t, 2) = Kw("IN")
      PROVE  Len(t) >= 5 /\ (t[5] = Comma \/ t[5] = Kw(")"))
  <2>1. p.p = "in" /\ ~p.negated BY <1>1, <1>3, PrimaryShape, MarksDiffer DEF BeginsAs
  <2>2. Len(t) >= 5 /\ (At(t, 5) = Comma \/ At(t, 5) = Kw(")"))
    <3> DEFINE m == Len(p.items)
    <3>1. m \in Nat \ {0} /\ Len(t) >= 3 + 2 * m /\ (At(t, 5) = Comma \/ At(t, 5) = Kw(")"))
      BY <1>1, <2>1 DEF ListBegins
    <3> HIDE DEF m
    <3> QED BY <1>1, <3>1
  <2>3. 5 \in 1..Len(t) BY <1>1, <2>2
  <2> QED BY <1>1, <2>2, <2>3 DEF At
<1> QED BY <1>1, <1>2, <1>3 DEF Written, t

LEMMA KeptSettles ==
    ASSUME NEW t, Written(t), NEW n \in Names
    PROVE  /\ Settling(NormalizeStoredColumnCheckExpr(t, n), n)
           /\ At(NormalizeStoredColumnCheckExpr(t, n), 1) # Id(NewName)
<1> DEFINE V == Symbols(Names)
           kept == NormalizeStoredColumnCheckExpr(t, n)
<1>1. t \in Seq(V) BY DEF Written
<1>2. ASSUME NEW s \in Seq(V)
      PROVE  s \in Seq(Tokens) /\ (\A p \in DOMAIN s : Len(s[p].w) = 1) /\ At(s, 1) # Id(NewName)
  <2>1. \A p \in DOMAIN s : s[p] \in V
    <3> HIDE DEF V
    <3> QED BY <1>2
  <2>2. \A p \in DOMAIN s : s[p] \in Tokens /\ Len(s[p].w) = 1 /\ s[p] # Id(NewName)
    BY <2>1, SymbolTokens
  <2>3. s \in Seq(Tokens)
    <3> DEFINE U == Tokens
               m == Len(s)
    <3>1. m \in Nat /\ DOMAIN s = 1..m /\ s = [p \in 1..m |-> s[p]]
      <4> HIDE DEF V
      <4> QED BY <1>2
    <3>2. \A p \in 1..m : s[p] \in U BY <2>2, <3>1
    <3> HIDE DEF U, m
    <3>3. s \in Seq(U) BY <3>1, <3>2
    <3> QED BY <3>3 DEF U
  <2>4. At(s, 1) # Id(NewName) BY <2>2, MarksDiffer DEF At
  <2> QED BY <2>2, <2>3, <2>4
<1> HIDE DEF V
<1>3. CASE ~IsList(t, n)
  <2>1. kept = t BY <1>3 DEF NormalizeStoredColumnCheckExpr
  <2> HIDE DEF kept
  <2> QED BY <1>1, <1>2, <1>3, <2>1 DEF Settling, kept
<1>4. CASE IsList(t, n)
  <2> DEFINE m == Len(t)
             s == SubSeq(t, 4, m - 1)
  <2>1. kept = s BY <1>4 DEF NormalizeStoredColumnCheckExpr, Body
  <2>2. m \in Nat /\ m >= 4 /\ t[1] = Id(n) /\ t[2] = Kw("IN") BY <1>1, <1>4 DEF IsList
  <2>3. At(t, 1) = Id(n) /\ At(t, 2) = Kw("IN")
    <3>1. 1 \in DOMAIN t /\ 2 \in DOMAIN t BY <1>1, <2>2
    <3> QED BY <2>2, <3>1 DEF At
  <2>4. m >= 5 /\ (t[5] = Comma \/ t[5] = Kw(")")) BY <2>3 DEF Written
  <2> HIDE DEF kept
  <2>5. /\ s \in Seq(V) /\ Len(s) = (IF 4 <= m - 1 THEN m - 1 - 4 + 1 ELSE 0)
        /\ \A j \in 1..m - 1 - 4 + 1 : s[j] = t[4 + j - 1]
    <3>1. 4 \in Int /\ m - 1 \in Int /\ \A j \in 4..m - 1 : t[j] \in V BY <1>1, <2>2
    <3> HIDE DEF m
    <3> QED BY <3>1, SubSeqProperties
  <2> HIDE DEF s, m
  <2>6. ~IsList(s, n)
    <3> SUFFICES ASSUME Len(s) >= 4, s[2] = Kw("IN") PROVE FALSE BY DEF IsList
    <3>1. 2 \in 1..m - 1 - 4 + 1 /\ 4 + 2 - 1 = 5 BY <2>2, <2>4, <2>5
    <3>2. s[2] = t[5] BY <2>5, <3>1
    <3> QED BY <2>4, <3>2, MarksDiffer
  <2> QED BY <1>2, <2>1, <2>5, <2>6 DEF Settling, kept
<1> QED BY <1>3, <1>4

LEMMA StringsAreValues ==
    ASSUME NEW words \in Seq(StringWord), words # <<>>
    PROVE  Strings(words) \in NonEmpty(ValueTok(Names)) /\ Strings(words)[1] = Str(words[1])
<1> DEFINE V == ValueTok(Names)
           s == Strings(words)
           n == Len(words)
<1>1. n \in Nat \ {0} /\ DOMAIN words = 1..n /\ \A k \in 1..n : words[k] \in StringWord OBVIOUS
<1>2. \A k \in 1..n : s[k] = Str(words[k]) /\ s[k] \in V BY <1>1 DEF Strings, ValueTok
<1>3. s = [k \in 1..n |-> s[k]] BY <1>1 DEF Strings
<1>4. 1 \in 1..n BY <1>1
<1> HIDE DEF V, s, n
<1>5. s \in Seq(V) /\ s # <<>> BY <1>1, <1>2, <1>3
<1> QED BY <1>2, <1>4, <1>5 DEF NonEmpty, V, s

\* The condition of an ENUM.
LEMMA EnumIsPrimary ==
    ASSUME NEW n \in Names, NEW words \in Seq(StringWord), words # <<>>
    PROVE  LET p == EnumPredicate(n, words) IN
           p \in Primary(Names) /\ p.p = "in" /\ p.c = n /\ ~p.negated /\ p.items = Strings(words)
<1> DEFINE p == EnumPredicate(n, words)
           items == Strings(words)
<1>1. items \in NonEmpty(ValueTok(Names)) BY StringsAreValues
<1>2. p = [p |-> "in", c |-> n, negated |-> FALSE, items |-> items] BY DEF EnumPredicate
<1> HIDE DEF items, p
<1>3. p \in Primary(Names) BY <1>1, <1>2 DEF Primary
<1>4. p.p = "in" /\ p.c = n /\ ~p.negated /\ p.items = items BY <1>2
<1> QED BY <1>3, <1>4 DEF p, items

\* The text of an ENUM column with a CHECK begins with a parenthesis.
LEMMA BuiltOfBoth ==
    ASSUME NEW n \in Names, NEW c, c.enum \in Seq(StringWord), c.enum # <<>>, c.check # NoText,
           \E e \in Expression(Names) : c.check = TextOf(e)
    PROVE  BuiltText(n, c) \in Seq(Symbols(Names)) \ {<<>>} /\ BuiltText(n, c)[1] = Kw("(")
<1> DEFINE V == Symbols(Names)
           t == BuiltText(n, c)
           p == EnumPredicate(n, c.enum)
           a == <<Kw("(")>>
           b == <<Kw(")"), Kw("AND"), Kw("(")>>
           s == PrimaryText(p, <<>>)
           check == c.check
           z == <<Kw(")")>>
           open == Kw("(")
<1>2. t = a \o check \o b \o s \o z BY DEF BuiltText
<1>3. s \in Seq(V) /\ check \in Seq(V)
  <2>1. p \in Primary(Names) /\ p.p = "in" BY EnumIsPrimary
  <2>2. s \in Sentence(Names) BY <2>1, ListOf
  <2>3. check \in Sentence(Names) BY DeclaredIsWritten
  <2> QED BY <2>2, <2>3 DEF Sentence, NonEmpty
<1>4. a \in Seq(V) \ {<<>>} /\ b \in Seq(V) /\ z \in Seq(V) /\ a[1] = open
  <2>1. Kw("(") \in V /\ Kw(")") \in V /\ Kw("AND") \in V BY SymbolsHold
  <2> HIDE DEF V
  <2> QED BY <2>1
<1> HIDE DEF V, t, p, a, b, s, z, check, open
<1>5. a \o check \in Seq(V) \ {<<>>} /\ (a \o check)[1] = open BY <1>3, <1>4, Joined
<1>6. a \o check \o b \in Seq(V) \ {<<>>} /\ (a \o check \o b)[1] = open
  <2> DEFINE x == a \o check
  <2>1. x \in Seq(V) \ {<<>>} /\ x[1] = open BY <1>5
  <2> HIDE DEF x
  <2>2. x \o b \in Seq(V) \ {<<>>} /\ (x \o b)[1] = open BY <1>4, <2>1, Joined
  <2> QED BY <2>2 DEF x
<1>7. a \o check \o b \o s \in Seq(V) \ {<<>>} /\ (a \o check \o b \o s)[1] = open
  <2> DEFINE x == a \o check \o b
  <2>1. x \in Seq(V) \ {<<>>} /\ x[1] = open BY <1>6
  <2> HIDE DEF x
  <2>2. x \o s \in Seq(V) \ {<<>>} /\ (x \o s)[1] = open BY <1>3, <2>1, Joined
  <2> QED BY <2>2 DEF x
<1>8. t \in Seq(V) \ {<<>>} /\ t[1] = open
  <2> DEFINE x == a \o check \o b \o s
  <2>1. x \in Seq(V) \ {<<>>} /\ x[1] = open BY <1>7
  <2> HIDE DEF x
  <2>2. x \o z \in Seq(V) \ {<<>>} /\ (x \o z)[1] = open BY <1>4, <2>1, Joined
  <2>3. t = x \o z BY <1>2 DEF x
  <2> QED BY <2>2, <2>3
<1> QED BY <1>8 DEF t, V, open

LEMMA BuiltIsWritten ==
    ASSUME NEW n \in Names, NEW c, c.enum \in Seq(StringWord),
           c.check = NoText \/ \E e \in Expression(Names) : c.check = TextOf(e)
    PROVE  Written(BuiltText(n, c))
<1> DEFINE V == Symbols(Names)
           t == BuiltText(n, c)
\* What does not begin with a name is written.
<1>1. ASSUME t \in Seq(V), \A m : At(t, 1) # Id(m)
      PROVE  Written(t) BY <1>1 DEF Written
<1>2. CASE c.enum = <<>> /\ c.check = NoText
  <2>1. t = <<>> BY <1>2 DEF BuiltText, NoText
  <2> HIDE DEF t
  <2>2. At(t, 1) = End BY <2>1 DEF At
  <2>3. t \in Seq(V) BY <2>1
  <2> QED BY <1>1, <2>2, <2>3, MarksDiffer DEF t
<1>3. CASE c.enum = <<>> /\ c.check # NoText BY <1>3, DeclaredIsWritten DEF BuiltText
<1>4. ASSUME c.enum # <<>>
      PROVE  Strings(c.enum) \in NonEmpty(ValueTok(Names)) /\ Strings(c.enum)[1].k = "str"
  BY <1>4, StringsAreValues, TokensDiffer DEF Str
<1>5. CASE c.enum # <<>> /\ c.check = NoText
  <2> DEFINE values == Strings(c.enum)
  <2>1. t = ListText(values) BY <1>5 DEF BuiltText
  <2>2. values \in Seq(V) \ {<<>>} /\ values[1].k = "str" /\ V \cup {Comma} = V
    <3>1. ValueTok(Names) \subseteq V /\ V \cup {Comma} = V BY SymbolsHold
    <3> DEFINE U == ValueTok(Names)
               x == values
    <3>2. x \in Seq(U) /\ x # <<>> /\ x[1].k = "str" BY <1>4, <1>5 DEF NonEmpty
    <3> HIDE DEF U, V, x
    <3>3. x \in Seq(V) BY <3>1, <3>2 DEF U
    <3> QED BY <3>1, <3>2, <3>3 DEF x
  <2> HIDE DEF t, values, V
  <2>3. t \in Seq(V) /\ Len(t) = 2 * Len(values) - 1 /\ \A k \in 1..Len(values) : t[2 * k - 1] = values[k]
    BY <2>1, <2>2, ListPlaces
  <2>4. 1 \in 1..Len(values) /\ 2 * 1 - 1 = 1 /\ 2 * Len(values) - 1 >= 1 BY <2>2
  <2>5. t[1] = values[1] /\ 1 \in DOMAIN t BY <2>3, <2>4
  <2>6. \A m : At(t, 1) # Id(m)
    <3>1. At(t, 1).k = "str" BY <2>2, <2>5 DEF At
    <3> QED BY <3>1, TokensDiffer DEF Id
  <2> QED BY <1>1, <2>3, <2>6 DEF t, V
<1>6. CASE c.enum # <<>> /\ c.check # NoText
  <2>1. t \in Seq(V) \ {<<>>} /\ t[1] = Kw("(") BY <1>6, BuiltOfBoth
  <2> HIDE DEF t, V
  <2>2. At(t, 1) = Kw("(")
    <3>1. 1 \in DOMAIN t BY <2>1
    <3> QED BY <2>1, <3>1 DEF At
  <2>3. \A m : At(t, 1) # Id(m) BY <2>2, MarksDiffer
  <2> QED BY <1>1, <2>1, <2>3 DEF t, V
<1> QED BY <1>2, <1>3, <1>5, <1>6

----------------------------------------------------------------------------
(* Saving settles *)

\* What the parser holds of a column's CHECK, and what it means.
Reads(text, e) == \/ e = <<>> /\ text = NoText
                  \/ e \in Expression(Names) /\ text = TextOf(e)
TextsRead ==
    stage = "parse" => \A n \in DOMAIN cols :
        cols[n].enum \in Seq(StringWord) /\ Reads(cols[n].check, meant.column[n])

LEMMA TextsReadInit == Init => TextsRead
<1> SUFFICES ASSUME Init PROVE DOMAIN cols = {} BY DEF TextsRead
<1> QED BY DEF Init

LEMMA TextsReadNext == ReadSoFar /\ TextsRead /\ [Next]_vars => TextsRead'
<1> SUFFICES ASSUME ReadSoFar, TextsRead, [Next]_vars, stage' = "parse", NEW n \in DOMAIN cols'
             PROVE  cols'[n].enum \in Seq(StringWord) /\ Reads(cols'[n].check, meant'.column[n])
  BY DEF TextsRead, Reads
<1>0. /\ \A m \in DOMAIN cols : IsColumn(cols[m])
      /\ meant.column = [m \in DOMAIN cols |-> meant.column[m]]
  BY DEF ReadSoFar, Columns
<1>1. ASSUME stage = "parse", n \in DOMAIN cols
      PROVE  cols[n].enum \in Seq(StringWord) /\ Reads(cols[n].check, meant.column[n])
  BY <1>1 DEF TextsRead
<1>2. ASSUME stage = "parse", n \in DOMAIN cols, meant'.column[n] = meant.column[n],
             cols'[n].check = cols[n].check, cols'[n].enum = cols[n].enum
      PROVE  cols'[n].enum \in Seq(StringWord) /\ Reads(cols'[n].check, meant'.column[n])
  BY <1>1, <1>2
<1>3. CASE ReadColumn
  <2>1. /\ Read /\ Item.i = "column" /\ stage = "parse" /\ decl' = decl
        /\ Item.n \notin DOMAIN cols /\ cols' = With(cols, Item.n, Plain(Item))
        /\ meant'.column = With(meant.column, Item.n, <<>>)
    BY <1>3, ReadColumnDoes
  <2>2. Declaration(decl) /\ Done + 1 \in 1..Len(decl) /\ Item = decl[Done + 1] BY <2>1, ReadingNext
  <2>3. CASE n = Item.n
    <3>1. cols'[n] = Plain(Item) /\ meant'.column[n] = <<>> BY <2>1, <2>3 DEF With
    <3>2. Item.enum \in Seq(StringWord) BY <2>1, <2>2 DEF Declaration
    <3>3. Plain(Item).enum = Item.enum /\ Plain(Item).check = NoText BY DEF Plain
    <3> QED BY <3>1, <3>2, <3>3 DEF Reads
  <2>4. CASE n # Item.n
    <3>1. n \in DOMAIN cols /\ cols'[n] = cols[n] BY <2>1, <2>4 DEF With
    <3>2. meant'.column[n] = meant.column[n]
      <4>1. n \in DOMAIN meant.column BY <1>0, <3>1
      <4> QED BY <2>1, <2>4, <4>1 DEF With
    <3> QED BY <1>2, <2>1, <3>1, <3>2
  <2> QED BY <2>3, <2>4
<1>4. CASE ReadColumnClause
  <2>1. /\ Read /\ Item.i \in ClauseKinds /\ stage = "parse" /\ decl' = decl /\ last \in DOMAIN cols
        /\ cols' = [cols EXCEPT ![last] = ColumnClause(cols[last], Item)]
        /\ meant'.column = IF Item.i = "check" THEN [meant.column EXCEPT ![last] = Item.e]
                           ELSE meant.column
    BY <1>4, ReadColumnClauseDoes
  <2>2. Declaration(decl) /\ Done + 1 \in 1..Len(decl) /\ Item = decl[Done + 1] BY <2>1, ReadingNext
  <2>3. n \in DOMAIN cols BY <2>1
  <2>4. CASE n = last
    <3> DEFINE now == ColumnClause(cols[n], Item)
    <3>1. cols'[n] = now BY <2>1, <2>3, <2>4
    <3>2. now.check = (IF Item.i = "check" THEN TextOf(Item.e) ELSE cols[n].check) /\ now.enum = cols[n].enum
      BY <1>0, <2>1, <2>3, ClauseSays
    <3> HIDE DEF now
    <3>3. CASE Item.i = "check"
      <4>1. Item.e \in Expression(Names) BY <2>2, <3>3 DEF Declaration
      <4>2. meant'.column[n] = Item.e BY <1>0, <2>1, <2>3, <2>4, <3>3
      <4>3. cols[n].enum \in Seq(StringWord) BY <1>1, <2>1, <2>3
      <4> QED BY <3>1, <3>2, <3>3, <4>1, <4>2, <4>3 DEF Reads
    <3>4. CASE Item.i # "check"
      <4>1. meant'.column[n] = meant.column[n] BY <2>1, <3>4
      <4> QED BY <1>2, <2>1, <2>3, <3>1, <3>2, <3>4, <4>1
    <3> QED BY <3>3, <3>4
  <2>5. CASE n # last
    <3>1. cols'[n] = cols[n] /\ meant'.column[n] = meant.column[n] BY <1>0, <2>1, <2>3, <2>5
    <3> QED BY <1>2, <2>1, <2>3, <3>1
  <2> QED BY <2>4, <2>5
<1>5. CASE ReadTableCheck
  <2>1. stage = "parse" /\ cols' = cols /\ meant'.column = meant.column BY <1>5, ReadTableCheckDoes
  <2> QED BY <1>2, <2>1
<1>6. CASE ReadPrimaryKey
  <2>1. meant' = meant /\ stage = "parse" /\ DOMAIN cols' = DOMAIN cols BY <1>6, ReadPrimaryKeyDoes
  <2>2. cols'[n] = IF n \in ToSet(Item.c) THEN [cols[n] EXCEPT !.pk = TRUE, !.nn = TRUE] ELSE cols[n]
    BY <1>6, <2>1, ReadPrimaryKeyDoes
  <2>3. cols'[n].check = cols[n].check /\ cols'[n].enum = cols[n].enum
    <3> DEFINE c == cols[n]
               now == cols'[n]
    <3>1. IsColumn(c) /\ now = IF n \in ToSet(Item.c) THEN [c EXCEPT !.pk = TRUE, !.nn = TRUE] ELSE c
      BY <1>0, <2>1, <2>2
    <3> HIDE DEF c, now
    <3>2. c = [pk |-> c.pk, nn |-> c.nn, uq |-> c.uq, fk |-> c.fk, check |-> c.check, enum |-> c.enum]
      BY <3>1 DEF IsColumn
    <3>3. now.check = c.check /\ now.enum = c.enum BY <3>1, <3>2
    <3> QED BY <3>3 DEF c, now
  <2> QED BY <1>2, <2>1, <2>3
<1>7. CASE ReadForeignKey
  <2>1. /\ meant' = meant /\ stage = "parse"
        /\ HeldByOne(Item) => cols' = [cols EXCEPT ![Item.c[1]] = [cols[Item.c[1]] EXCEPT !.fk = Item.refs[1]]]
        /\ ~HeldByOne(Item) => cols' = cols
    BY <1>7, ReadForeignKeyDoes
  <2>2. n \in DOMAIN cols BY <2>1
  <2>3. cols'[n].check = cols[n].check /\ cols'[n].enum = cols[n].enum
    <3>1. CASE HeldByOne(Item) /\ Item.c[1] = n
      <4> DEFINE c == cols[n]
                 now == cols'[n]
      <4>1. IsColumn(c) /\ now = [c EXCEPT !.fk = Item.refs[1]] BY <1>0, <2>1, <2>2, <3>1
      <4> HIDE DEF c, now
      <4>2. c = [pk |-> c.pk, nn |-> c.nn, uq |-> c.uq, fk |-> c.fk, check |-> c.check, enum |-> c.enum]
        BY <4>1 DEF IsColumn
      <4>3. now.check = c.check /\ now.enum = c.enum BY <4>1, <4>2
      <4> QED BY <4>3 DEF c, now
    <3>2. CASE ~(HeldByOne(Item) /\ Item.c[1] = n)
      <4>1. cols'[n] = cols[n] BY <2>1, <2>2, <3>2
      <4> QED BY <4>1
    <3> QED BY <3>1, <3>2
  <2> QED BY <1>2, <2>1, <2>2, <2>3
<1>8. CASE UNCHANGED vars BY <1>2, <1>8 DEF vars
<1>9. ~Build /\ ~Restart
  <2>1. ~Build BY BuildDoes
  <2>2. ~Restart BY RestartDoes, RestartRefused
  <2> QED BY <2>1, <2>2
<1>10. ASSUME NEW row \in Rows, Insert(row) PROVE FALSE BY <1>10 DEF Insert
<1>11. ASSUME NEW e \in LaterChecks, AddCheck(e) PROVE FALSE BY <1>11, AddCheckDoes
<1>12. ASSUME NEW from \in Names, Rename(from) PROVE FALSE
  <2>1. stage = "live" /\ stage' = stage BY <1>12, RenameDoes
  <2> QED BY <2>1
<1> QED BY <1>3, <1>4, <1>5, <1>6, <1>7, <1>8, <1>9, <1>10, <1>11, <1>12 DEF Next

\* What a live table holds of a column's CHECK.
TextsKept ==
    stage = "live" => \A n \in DOMAIN cols :
        /\ Settling(cols[n].check, n)
        /\ NewName \notin DOMAIN cols => At(cols[n].check, 1) # Id(NewName)

LEMMA TextsKeptInit == Init => TextsKept
<1> SUFFICES ASSUME Init PROVE stage # "live" BY DEF TextsKept
<1> QED BY DEF Init

LEMMA TextsKeptNext == ReadSoFar /\ TextsRead /\ TextsKept /\ [Next]_vars => TextsKept'
<1> SUFFICES ASSUME ReadSoFar, TextsRead, TextsKept, [Next]_vars, stage' = "live", NEW n \in DOMAIN cols'
             PROVE  /\ Settling(cols'[n].check, n)
                    /\ NewName \notin DOMAIN cols' => At(cols'[n].check, 1) # Id(NewName)
  BY DEF TextsKept
<1>0. /\ \A m \in DOMAIN cols : IsColumn(cols[m])
      /\ DOMAIN cols \subseteq Names \cup {NewName} /\ NewName \notin Names
  BY ChecksAssumption DEF ReadSoFar, Columns
<1>1. CASE UNCHANGED <<stage, cols>> BY <1>1 DEF TextsKept
<1>2. CASE Build
  <2>1. stage = "parse" /\ cols' = [m \in DOMAIN cols |-> Built(m, cols[m])] BY <1>2, BuildDoes
  <2>2. n \in DOMAIN cols /\ cols'[n] = Built(n, cols[n]) BY <2>1
  <2>3. n \in Names
    <3>1. /\ Declaration(decl) /\ DOMAIN cols = DeclaredIn(decl, Done)
          /\ Done \in 0..Len(decl)
      BY <2>1, ChecksAssumption DEF ReadSoFar, Reading, Parsing
    <3>2. Len(decl) \in Nat /\ DOMAIN decl = 1..Len(decl) BY <3>1 DEF Declaration
    <3>3. PICK q \in 1..Done : decl[q].i = "column" /\ n = decl[q].n
      BY <2>2, <3>1, Zenon DEF DeclaredIn
    <3>4. q \in DOMAIN decl
      <4> HIDE DEF Done
      <4> QED BY <3>1, <3>2
    <3> QED BY <3>1, <3>3, <3>4 DEF Declaration
  <2> DEFINE c == cols[n]
  <2>4. c.enum \in Seq(StringWord) /\ (c.check = NoText \/ \E e \in Expression(Names) : c.check = TextOf(e))
    BY <2>1, <2>2 DEF TextsRead, Reads
  <2>5. cols'[n].check = NormalizeStoredColumnCheckExpr(BuiltText(n, c), n) BY <1>0, <2>2, BuiltSays
  <2> HIDE DEF c
  <2>6. Written(BuiltText(n, c)) BY <2>3, <2>4, BuiltIsWritten
  <2> QED BY <2>3, <2>5, <2>6, KeptSettles
<1>3. CASE Restart
  <2>1. stage = "live" /\ cols' = [m \in DOMAIN cols |-> RestartedColumn(m, cols[m], OneOfSeveral(cols, m))]
    BY <1>3, RestartDoes
  <2>2. n \in DOMAIN cols /\ DOMAIN cols' = DOMAIN cols
        /\ cols'[n] = RestartedColumn(n, cols[n], OneOfSeveral(cols, n))
    BY <2>1
  <2> DEFINE t == cols[n].check
             r == cols'[n].check
  <2>3. r = Reloaded(t, n)
    <3>1. OneOfSeveral(cols, n) \in BOOLEAN BY DEF OneOfSeveral
    <3> QED BY <1>0, <2>2, <3>1, RestartedSays
  <2>4. Settling(t, n) /\ (NewName \notin DOMAIN cols => At(t, 1) # Id(NewName))
    BY <2>1, <2>2 DEF TextsKept
  <2>5. n \in Names \cup {NewName} BY <1>0, <2>2
  <2> HIDE DEF t, r
  <2>6. ComesBack(r, t, n) BY <2>3, <2>4, <2>5, AllComeBack DEF Settling
  <2>7. Settling(r, n)
    <3>1. CASE r = t BY <2>4, <3>1
    <3>2. CASE r # t BY <2>6, <3>2 DEF ComesBack, Settling
    <3> QED BY <3>1, <3>2
  <2>8. ASSUME NewName \notin DOMAIN cols PROVE At(r, 1) # Id(NewName)
    <3>1. n # NewName BY <2>2, <2>8
    <3>2. Id(n) # Id(NewName) /\ Id(NewName).k = "id" BY <3>1, TokensDiffer DEF Id
    <3> QED BY <2>4, <2>6, <2>8, <3>2 DEF ComesBack
  <2> QED BY <2>2, <2>7, <2>8 DEF r
<1>4. ASSUME NEW from \in Names, Rename(from)
      PROVE  /\ Settling(cols'[n].check, n)
             /\ NewName \notin DOMAIN cols' => At(cols'[n].check, 1) # Id(NewName)
  <2> DEFINE names == {NewNameOf(m, from) : m \in DOMAIN cols}
             old == OldName(n, from)
  <2>1. /\ stage = "live" /\ from \in DOMAIN cols /\ NewName \notin DOMAIN cols
        /\ cols' = [m \in names |-> RenamedColumn(cols[OldName(m, from)], from)]
    BY <1>4, RenameDoes
  <2>2. names = (DOMAIN cols \ {from}) \cup {NewName} /\ \A m \in names : OldName(m, from) \in DOMAIN cols
    BY <2>1, RenamedNames
  <2> HIDE DEF names
  <2>3. n \in names /\ DOMAIN cols' = names /\ cols'[n] = RenamedColumn(cols[old], from) /\ old \in DOMAIN cols
    BY <2>1, <2>2
  <2>4. cols'[n].check = Rewritten(cols[old].check, from, NewName) BY <1>0, <2>3, RenamedSays
  <2>5. NewNameOf(old, from) = n BY <2>1, <2>2, <2>3 DEF NewNameOf, OldName
  <2>6. old \in Names BY <1>0, <2>1, <2>3
  <2>7. Settling(cols[old].check, old) /\ At(cols[old].check, 1) # Id(NewName)
    BY <2>1, <2>3 DEF TextsKept
  <2> HIDE DEF old
  <2>8. Settling(cols'[n].check, n) BY <1>4, <2>4, <2>5, <2>6, <2>7, RewrittenSettles
  <2>9. NewName \in DOMAIN cols' BY <2>2, <2>3
  <2> QED BY <2>8, <2>9
<1>5. CASE UNCHANGED vars BY <1>1, <1>5 DEF vars
<1>6. ASSUME NEW row \in Rows, Insert(row) PROVE UNCHANGED <<stage, cols>> BY <1>6 DEF Insert
<1>7. ASSUME NEW e \in LaterChecks, AddCheck(e) PROVE UNCHANGED <<stage, cols>>
  BY <1>7, AddCheckDoes
<1> QED BY <1>1, <1>2, <1>3, <1>4, <1>5, <1>6, <1>7, ReadersOnly DEF Next

\* Whatever a table's declaration says and whatever renames and restarts came
\* before: what checkExprToJson makes of a column's CHECK, parseCheckObject and
\* normalizeStoredColumnCheckExpr turn into a text that the next save and start
\* leave as it is.
THEOREM SavingSettles == Spec => []SaveSettles
<1> DEFINE Inv == ReadSoFar /\ TextsRead /\ TextsKept
<1>1. Init => Inv BY ReadSoFarInit, TextsReadInit, TextsKeptInit
<1>2. Inv /\ [Next]_vars => Inv' BY ReadSoFarNext, TextsReadNext, TextsKeptNext
<1>3. Inv => SaveSettles
  <2> SUFFICES ASSUME Inv, stage = "live", NEW n \in DOMAIN cols
               PROVE  Reloaded(Reloaded(cols[n].check, n), n) = Reloaded(cols[n].check, n)
    BY DEF SaveSettles
  <2>1. Settling(cols[n].check, n) /\ n \in Names \cup {NewName}
    BY DEF TextsKept, ReadSoFar, Columns
  <2>2. ComesBack(Reloaded(cols[n].check, n), cols[n].check, n) BY <2>1, AllComeBack DEF Settling
  <2> QED BY <2>2 DEF ComesBack
<1> HIDE DEF Inv
<1> QED BY <1>1, <1>2, <1>3, PTL DEF Spec

----------------------------------------------------------------------------
(* The CHECK evaluator *)

\* A parsing function that succeeds goes on.
Onward(text) == {f \in [1..Len(text) + 1 -> Outcome] : \A p \in 1..Len(text) + 1 : f[p].ok => f[p].p >= p}

\* What parsing functions return is an outcome.
LEMMA OutcomeFields ==
    /\ Wrong \in Outcome /\ ~Wrong.ok
    /\ \A v \in BOOLEAN, p \in Nat : /\ Is(v, p) \in Outcome /\ Is(v, p).ok
                                     /\ Is(v, p).v = v /\ Is(v, p).p = p
    /\ \A x \in Outcome : x.ok \in BOOLEAN /\ x.v \in BOOLEAN /\ x.p \in Nat
<1>1. \A v \in BOOLEAN, p \in Nat : /\ Is(v, p) \in Outcome /\ Is(v, p).ok
                                    /\ Is(v, p).v = v /\ Is(v, p).p = p
  BY DEF Is, Outcome
<1>2. Wrong \in Outcome /\ ~Wrong.ok BY DEF Wrong, Outcome
<1> QED BY <1>1, <1>2 DEF Outcome

\* Where a text ends, its tokens are the end.
LEMMA AtIs ==
    ASSUME NEW S, NEW text \in Seq(S), NEW p \in Nat
    PROVE  /\ p \in 1..Len(text) => At(text, p) = text[p] /\ At(text, p) \in S
           /\ p \notin 1..Len(text) => At(text, p) = End
BY DEF At

\* Where a token is that is not the end, there is text.
LEMMA NotTheEnd ==
    ASSUME NEW S, NEW text \in Seq(S), NEW p \in Nat, NEW w, At(text, p) = w, w # End
    PROVE  p \in 1..Len(text)
BY AtIs

\* The words that the evaluator looks for differ, and none is the end.
LEMMA MarksAreNotTheEnd ==
    /\ \A w \in {"(", ")", "AND", "OR", "NOT", "IN", "BETWEEN"} : Kw(w) # End
    /\ Comma # End /\ End.k = "kw"
    /\ Kw("(") # Kw(")") /\ Kw("AND") # Kw("OR") /\ Kw("AND") # Kw("(") /\ Kw("OR") # Kw("(")
    /\ Kw(")") # Kw("AND") /\ Kw(")") # Kw("OR") /\ Kw("NOT") # Kw("BETWEEN") /\ Kw("NOT") # Kw("IN")
    /\ Kw("IN") # Kw("BETWEEN")
<1>1. \A w \in {"(", ")", "AND", "OR", "NOT", "IN", "BETWEEN"} : w # "END" OBVIOUS
<1>2. \A w, v : w # v => Kw(w) # Kw(v) BY TokensDiffer DEF Kw
<1>3. Comma # End BY CommaIsAlone DEF End
<1>4. End.k = "kw" BY MarksAreNoValues DEF End
<1>5. "(" # ")" /\ "AND" # "OR" /\ "AND" # "(" /\ "OR" # "(" /\ ")" # "AND" /\ ")" # "OR" /\ "NOT" # "BETWEEN" /\ "NOT" # "IN" /\ "IN" # "BETWEEN"
  OBVIOUS
<1> QED BY <1>1, <1>2, <1>3, <1>4, <1>5, Zenon DEF End

\* An operator of a text is one of the six.
LEMMA OperatorToken ==
    ASSUME NEW names, NEW x \in Symbols(names), x.k = "op"
    PROVE  x.w[1] \in Operators
<1>1. CASE x \in ValueTok(names)
  <2>1. x.k \in {"id", "num", "str"} BY <1>1, ValueToken
  <2> QED BY <2>1
<1>2. CASE x \in {Tok("op", o) : o \in Operators}
  <2>1. PICK o \in Operators : x = Tok("op", o) BY <1>2
  <2> QED BY <2>1, TokensDiffer
<1>3. CASE x = Comma \/ x \in {Kw(w) : w \in {"(", ")", "AND", "OR", "NOT", "IN", "BETWEEN"}}
  <2>1. x.k = "kw" BY <1>3, CommaIsAlone, MarksAreNoValues
  <2> QED BY <2>1
<1> QED BY <1>1, <1>2, <1>3, Zenon DEF Symbols

\* The list that Values finds ends behind its place.
LEMMA ListEnds ==
    ASSUME NEW S, NEW text \in Seq(S), text # <<>>, NEW p \in Nat \ {0}
    PROVE  \E n \in Nat \ {0} :
             /\ Values(text, p).p = p + 2 * n
             /\ Values(text, p).ok => \A m \in 1..n : IsValue(At(text, p + 2 * m - 2))
<1> DEFINE l == Len(text)
           lasts == {n \in 1..l : At(text, p + 2 * n - 1) # Comma}
           n == CHOOSE n \in lasts : \A m \in lasts : n <= m
           places == {p + 2 * m - 2 : m \in 1..n}
<1>1. l \in Nat /\ l > 0 OBVIOUS
<1>2. l \in lasts
  <2> DEFINE q == p + 2 * l - 1
  <2>1. q \in Nat /\ q \notin 1..l
    <3> HIDE DEF l
    <3> QED BY <1>1
  <2> HIDE DEF q
  <2>2. At(text, q) = End BY <2>1, AtIs
  <2>3. At(text, q) # Comma BY <2>2, MarksAreNotTheEnd
  <2> HIDE DEF l
  <2> QED BY <1>1, <2>3 DEF q
<1>3. lasts \in SUBSET (1..l) /\ lasts # {} BY <1>2
<1>4. n \in lasts
  <2> HIDE DEF lasts, l
  <2>1. lasts \in SUBSET Nat BY <1>1, <1>3
  <2>2. \E x \in lasts : \A y \in lasts : x <= y BY <1>3, <2>1, LeastNatural
  <2> QED BY <2>2
<1>5. n \in 1..l BY <1>3, <1>4
<1>6. Values(text, p).p = p + 2 * n BY Zenon DEF Values
<1>7. Values(text, p).ok => \A q \in places : IsValue(At(text, q)) BY Zenon DEF Values
<1> HIDE DEF n, l
<1>8. n \in Nat \ {0} BY <1>1, <1>5
<1>9. \A m \in 1..n : p + 2 * m - 2 \in places OBVIOUS
<1> QED BY <1>6, <1>7, <1>8, <1>9

\* The parts of Leaf: what parsePrimary makes of each condition.
LeafCompare(text, p, q, row) == CompareScalar(row[At(text, p).w[1]], ValueOf(At(text, q), row))
NegatedAt(text, p) == At(text, p + 1) = Kw("NOT")
InAt(text, p) == IF NegatedAt(text, p) THEN p + 2 ELSE p + 1
RangeHolds(text, p, row) == LeafCompare(text, p, p + 2, row) >= 0 /\ LeafCompare(text, p, p + 4, row) <= 0
ListHolds(text, p, row) ==
    (\E q \in Values(text, InAt(text, p) + 2).places : LeafCompare(text, p, q, row) = 0) # NegatedAt(text, p)
ComparisonHolds(text, p, row) == Satisfies(LeafCompare(text, p, p + 2, row), At(text, p + 1).w[1])
IsRangeAt(text, p) == IsValue(At(text, p + 2)) /\ At(text, p + 3) = Kw("AND") /\ IsValue(At(text, p + 4))
IsListAt(text, p) == At(text, InAt(text, p) + 1) = Kw("(") /\ Values(text, InAt(text, p) + 2).ok

\* Leaf in these words, and by the case it takes.
LEMMA LeafIs ==
    ASSUME NEW text, NEW p, NEW row
    PROVE  Leaf(text, p, row) =
             CASE At(text, p + 1) = Kw("BETWEEN") ->
                    (IF IsRangeAt(text, p) THEN Is(RangeHolds(text, p, row), p + 5) ELSE Wrong)
               [] At(text, InAt(text, p)) = Kw("IN") ->
                    (IF IsListAt(text, p)
                     THEN Is(ListHolds(text, p, row), Values(text, InAt(text, p) + 2).p) ELSE Wrong)
               [] At(text, p + 1).k = "op" ->
                    (IF IsValue(At(text, p + 2)) THEN Is(ComparisonHolds(text, p, row), p + 3) ELSE Wrong)
               [] OTHER -> Wrong
BY Zenon DEF Leaf, LeafCompare, NegatedAt, InAt, RangeHolds, ListHolds, ComparisonHolds, IsRangeAt, IsListAt

LEMMA LeafCases ==
    ASSUME NEW text, NEW p, NEW row
    PROVE  LET r == Leaf(text, p, row) IN
           /\ At(text, p + 1) = Kw("BETWEEN") =>
                r = IF IsRangeAt(text, p) THEN Is(RangeHolds(text, p, row), p + 5) ELSE Wrong
           /\ At(text, InAt(text, p)) = Kw("IN") =>
                r = IF IsListAt(text, p)
                     THEN Is(ListHolds(text, p, row), Values(text, InAt(text, p) + 2).p) ELSE Wrong
           /\ At(text, p + 1).k = "op" =>
                r = IF IsValue(At(text, p + 2)) THEN Is(ComparisonHolds(text, p, row), p + 3) ELSE Wrong
           /\ At(text, p + 1) # Kw("BETWEEN") /\ At(text, InAt(text, p)) # Kw("IN")
              /\ At(text, p + 1).k # "op" => r = Wrong
<1> DEFINE b == At(text, p + 1) = Kw("BETWEEN")
           i == At(text, InAt(text, p)) = Kw("IN")
           o == At(text, p + 1).k = "op"
           x == IF IsRangeAt(text, p) THEN Is(RangeHolds(text, p, row), p + 5) ELSE Wrong
           y == IF IsListAt(text, p)
                     THEN Is(ListHolds(text, p, row), Values(text, InAt(text, p) + 2).p) ELSE Wrong
           z == IF IsValue(At(text, p + 2)) THEN Is(ComparisonHolds(text, p, row), p + 3) ELSE Wrong
           r == Leaf(text, p, row)
<1>1. r = CASE b -> x [] i -> y [] o -> z [] OTHER -> Wrong BY LeafIs
<1>2. (b => ~i /\ ~o) /\ (i => ~b /\ ~o) /\ (o => ~b /\ ~i)
  <2>1. b => ~o BY MarksAreNoValues
  <2>2. b => ~i
    <3>1. b => At(text, InAt(text, p)) = Kw("BETWEEN") BY MarksAreNotTheEnd DEF InAt, NegatedAt
    <3> QED BY <3>1, MarksAreNotTheEnd
  <2>3. o => ~i
    <3>1. o => InAt(text, p) = p + 1 BY MarksAreNoValues DEF InAt, NegatedAt
    <3>2. Kw("IN").k # "op" BY MarksAreNoValues
    <3> QED BY <3>1, <3>2
  <2> HIDE DEF b, i, o
  <2> QED BY <2>1, <2>2, <2>3
<1> HIDE DEF x, y, z, r, b, i, o
<1>3. /\ b => r = x
      /\ i => r = y
      /\ o => r = z
      /\ ~b /\ ~i /\ ~o => r = Wrong
  BY <1>1, <1>2
<1> QED BY <1>3 DEF x, y, z, r, b, i, o

\* What a condition finds is an outcome, further on.
LEMMA IsMoves ==
    \A v, q, p : v \in BOOLEAN /\ q \in Nat /\ q > p => Is(v, q) \in Outcome /\ Is(v, q).p > p
<1> SUFFICES ASSUME NEW v, NEW q, NEW p, v \in BOOLEAN, q \in Nat, q > p
             PROVE  Is(v, q) \in Outcome /\ Is(v, q).p > p OBVIOUS
<1>1. Is(v, q) \in Outcome /\ Is(v, q).p = q BY OutcomeFields, Zenon
<1> QED BY <1>1

LEMMA SatisfiesIs == \A sign, op : op \in Operators => Satisfies(sign, op) \in BOOLEAN
<1> SUFFICES ASSUME NEW sign, NEW op \in Operators PROVE Satisfies(sign, op) \in BOOLEAN OBVIOUS
<1> DEFINE a == sign = 0
           b == sign # 0
           c == sign < 0
           d == sign > 0
           l == sign <= 0
           g == sign >= 0
<1>1. a \in BOOLEAN /\ b \in BOOLEAN /\ c \in BOOLEAN /\ d \in BOOLEAN /\ l \in BOOLEAN /\ g \in BOOLEAN
  OBVIOUS
<1>2. Satisfies(sign, op) = CASE op = "=" -> a [] op = "#" -> b [] op = "<" -> c [] op = ">" -> d
                              [] op = "<=" -> l [] op = ">=" -> g
  BY Zenon DEF Satisfies
<1> HIDE DEF a, b, c, d, l, g
<1>3. Satisfies(sign, op) \in {a, b, c, d, l, g} BY <1>2 DEF Operators
<1> QED BY <1>1, <1>3, Zenon

LEMMA LeafMoves ==
    ASSUME NEW names, NEW text \in Seq(Symbols(names)), NEW p \in 1..Len(text), NEW row
    PROVE  LET r == Leaf(text, p, row) IN r \in Outcome /\ (r.ok => r.p > p)
<1> DEFINE r == Leaf(text, p, row)
           base == InAt(text, p) + 2
<1>1. p \in Nat /\ p >= 1 /\ Len(text) > 0 OBVIOUS
<1>2. base \in Nat \ {0} /\ base > p BY <1>1 DEF InAt
<1>3. Values(text, base).p \in Nat /\ Values(text, base).p > p
  <2> HIDE DEF base
  <2>1. Values(text, base).p \in Nat /\ Values(text, base).p > base
    <3>1. text # <<>> BY <1>1
    <3>2. PICK n \in Nat \ {0} : Values(text, base).p = base + 2 * n BY <1>2, <3>1, ListEnds
    <3> QED BY <1>2, <3>2
  <2> QED BY <1>1, <1>2, <2>1
<1> DEFINE range == RangeHolds(text, p, row)
           list == ListHolds(text, p, row)
           comparison == ComparisonHolds(text, p, row)
           v == Values(text, base).p
<1>4. range \in BOOLEAN /\ list \in BOOLEAN BY Zenon DEF RangeHolds, ListHolds
<1>5. At(text, p + 1).k = "op" => comparison \in BOOLEAN
  <2> SUFFICES ASSUME At(text, p + 1).k = "op" PROVE comparison \in BOOLEAN OBVIOUS
  <2>1. At(text, p + 1) \in Symbols(names)
    <3>1. p + 1 \in Nat BY <1>1
    <3>2. At(text, p + 1) # End BY MarksAreNotTheEnd
    <3> QED BY <3>1, <3>2, AtIs
  <2> DEFINE o == At(text, p + 1).w[1]
             c == LeafCompare(text, p, p + 2, row)
  <2>2. o \in Operators BY <2>1, OperatorToken
  <2> HIDE DEF c, o
  <2>3. Satisfies(c, o) \in BOOLEAN BY <2>2, SatisfiesIs
  <2> QED BY <2>3 DEF ComparisonHolds, c, o
<1>6. p + 3 \in Nat /\ p + 5 \in Nat /\ p + 3 > p /\ p + 5 > p BY <1>1
<1>7. \/ r = Wrong
      \/ r = Is(range, p + 5)
      \/ r = Is(list, v)
      \/ At(text, p + 1).k = "op" /\ r = Is(comparison, p + 3)
  BY LeafCases, Zenon
<1> HIDE DEF r, range, list, comparison, v
<1>8. v \in Nat /\ v > p BY <1>3 DEF v
<1>9. r \in Outcome /\ (r.ok => r.p > p)
  <2>1. CASE r = Wrong BY <2>1, OutcomeFields
  <2>2. CASE r = Is(range, p + 5) BY <1>4, <1>6, <2>2, IsMoves, Zenon
  <2>3. CASE r = Is(list, v) BY <1>4, <1>8, <2>3, IsMoves, Zenon
  <2>4. CASE At(text, p + 1).k = "op" /\ r = Is(comparison, p + 3)
    BY <1>5, <1>6, <2>4, IsMoves, Zenon
  <2> QED BY <1>7, <2>1, <2>2, <2>3, <2>4
<1> QED BY <1>9 DEF r

\* parsePrimary goes on.
LEMMA PrimaryMoves ==
    ASSUME NEW names, NEW text \in Seq(Symbols(names)), NEW nested \in Onward(text),
           NEW p \in 1..Len(text) + 1, NEW row
    PROVE  LET r == ParsePrimary(nested, text, p, row) IN r \in Outcome /\ (r.ok => r.p > p)
<1> DEFINE r == ParsePrimary(nested, text, p, row)
<1>1. CASE At(text, p) = Kw("(")
  <2> DEFINE inner == nested[p + 1]
  <2>1. p \in 1..Len(text) BY <1>1, NotTheEnd, MarksAreNotTheEnd
  <2>2. p + 1 \in 1..Len(text) + 1 BY <2>1
  <2>3. inner \in Outcome /\ (inner.ok => inner.p >= p + 1) BY <2>2 DEF Onward
  <2>4. r = IF inner.ok /\ At(text, inner.p) = Kw(")") THEN Is(inner.v, inner.p + 1) ELSE Wrong
    BY <1>1 DEF ParsePrimary
  <2> HIDE DEF inner, r
  <2>5. inner.v \in BOOLEAN /\ inner.p \in Nat /\ inner.p + 1 \in Nat
    <3>1. inner.v \in BOOLEAN /\ inner.p \in Nat BY <2>3, OutcomeFields, Zenon
    <3> QED BY <3>1
  <2>6. CASE inner.ok /\ At(text, inner.p) = Kw(")")
    <3>1. r = Is(inner.v, inner.p + 1) BY <2>4, <2>6
    <3>2. r \in Outcome /\ r.p = inner.p + 1 BY <2>5, <3>1, OutcomeFields
    <3>3. inner.p >= p + 1 BY <2>3, <2>6
    <3> HIDE DEF r
    <3> QED BY <2>1, <2>5, <3>2, <3>3 DEF r
  <2> QED BY <2>4, <2>6, OutcomeFields DEF r
<1>2. CASE At(text, p) # Kw("(") /\ (At(text, p).k # "id" \/ At(text, p).w[1] \notin DOMAIN row)
  <2>1. r = Wrong BY <1>2, Zenon DEF ParsePrimary
  <2> HIDE DEF r
  <2> QED BY <2>1, OutcomeFields DEF r
<1>3. CASE At(text, p) # Kw("(") /\ At(text, p).k = "id" /\ At(text, p).w[1] \in DOMAIN row
  <2>1. r = Leaf(text, p, row) BY <1>3, Zenon DEF ParsePrimary
  <2>2. At(text, p) # End BY <1>3, MarksAreNotTheEnd
  <2>3. p \in 1..Len(text) BY <2>2, AtIs
  <2> HIDE DEF r
  <2> QED BY <2>1, <2>3, LeafMoves DEF r
<1> QED BY <1>1, <1>2, <1>3

\* While the word is found, x becomes turn[x]: the loops of parseAnd and parseOr.
IsLoop(more, text, word, turn) ==
    more = [x \in Outcome |-> IF ~x.ok \/ At(text, x.p) # word THEN x ELSE more[turn[x]]]
Turning(text, word, turn) ==
    /\ turn \in [Outcome -> Outcome]
    /\ \A x \in Outcome : x.ok /\ At(text, x.p) = word /\ turn[x].ok => turn[x].p > x.p

\* Such a loop exists, ends and goes on: each turn of it is further on.
LEMMA LoopMoves ==
    ASSUME NEW S, NEW text \in Seq(S), NEW word, word # End, NEW turn, Turning(text, word, turn)
    PROVE  /\ \E more : IsLoop(more, text, word, turn)
           /\ \A more : IsLoop(more, text, word, turn) =>
                \A x \in Outcome : more[x] \in Outcome /\ (more[x].ok => more[x].p >= x.p)
<1> DEFINE l == Len(text)
           stop == {x \in Outcome : ~x.ok \/ At(text, x.p) # word}
           next == [x \in Outcome |-> turn[x]]
           rank == [x \in Outcome |-> IF x.ok /\ x.p \in 1..l THEN l + 1 - x.p ELSE 0]
<1>1. l \in Nat OBVIOUS
<1>2. ASSUME NEW x \in Outcome \ stop
      PROVE  /\ x.ok /\ x.p \in 1..l /\ next[x] = turn[x] /\ turn[x] \in Outcome
             /\ turn[x].ok => turn[x].p > x.p
  <2>1. x \in Outcome /\ x.ok /\ At(text, x.p) = word /\ x.p \in Nat BY <1>2, OutcomeFields
  <2>2. x.p \in 1..l BY <2>1, NotTheEnd
  <2> HIDE DEF l, stop
  <2> QED BY <2>1, <2>2 DEF Turning
<1>3. ASSUME NEW x \in Outcome
      PROVE  rank[x] \in 0..l /\ (x.ok /\ x.p \in 1..l => rank[x] = l + 1 - x.p)
             /\ (~(x.ok /\ x.p \in 1..l) => rank[x] = 0)
  <2>1. x.p \in Nat BY OutcomeFields
  <2> DEFINE q == x.p
             r == rank[x]
  <2>2. r = IF x.ok /\ q \in 1..l THEN l + 1 - q ELSE 0 OBVIOUS
  <2>3. q \in Nat BY <2>1
  <2> HIDE DEF rank, l, q, r
  <2>4. r \in 0..l /\ (x.ok /\ q \in 1..l => r = l + 1 - q) /\ (~(x.ok /\ q \in 1..l) => r = 0)
    BY <1>1, <2>2, <2>3
  <2> QED BY <2>4 DEF q, r
<1>4. ASSUME NEW x \in Outcome \ stop PROVE rank[next[x]] < rank[x]
  <2> DEFINE y == turn[x]
  <2>1. /\ x \in Outcome /\ x.ok /\ x.p \in 1..l /\ next[x] = y /\ y \in Outcome
        /\ y.ok => y.p > x.p
    BY <1>2
  <2>2. rank[x] = l + 1 - x.p BY <1>3, <2>1
  <2>3. CASE y.ok /\ y.p \in 1..l
    <3>1. rank[y] = l + 1 - y.p BY <1>3, <2>1, <2>3
    <3> HIDE DEF rank, next, y, l
    <3> QED BY <1>1, <2>1, <2>2, <2>3, <3>1
  <2>4. CASE ~(y.ok /\ y.p \in 1..l)
    <3>1. rank[y] = 0 BY <1>3, <2>1, <2>4
    <3> HIDE DEF rank, next, y, l
    <3> QED BY <1>1, <2>1, <2>2, <3>1
  <2> QED BY <2>3, <2>4
<1>5. EndsBy(Outcome, stop, next, l, rank)
  <2>1. next \in [Outcome -> Outcome] BY DEF Turning
  <2>2. rank \in [Outcome -> 0..l]
    <3>1. \A x \in Outcome : rank[x] \in 0..l BY <1>3
    <3>2. rank = [x \in Outcome |-> rank[x]] OBVIOUS
    <3> HIDE DEF rank, l
    <3> QED BY <3>1, <3>2
  <2>3. stop \in SUBSET Outcome OBVIOUS
  <2> HIDE DEF rank, next, stop, l
  <2> QED BY <1>1, <1>4, <2>1, <2>2, <2>3 DEF EndsBy
<1>6. \A f : IsLoop(f, text, word, turn) <=> f = [x \in Outcome |-> IF x \in stop THEN x ELSE f[next[x]]]
  <2> SUFFICES ASSUME NEW f
               PROVE  IsLoop(f, text, word, turn) <=> f = [x \in Outcome |-> IF x \in stop THEN x ELSE f[next[x]]]
    OBVIOUS
  <2>1. \A x \in Outcome : (IF ~x.ok \/ At(text, x.p) # word THEN x ELSE f[turn[x]])
                           = IF x \in stop THEN x ELSE f[next[x]]
    OBVIOUS
  <2>2. [x \in Outcome |-> IF ~x.ok \/ At(text, x.p) # word THEN x ELSE f[turn[x]]]
        = [x \in Outcome |-> IF x \in stop THEN x ELSE f[next[x]]]
    <3> HIDE DEF stop, next
    <3> QED BY <2>1
  <2> HIDE DEF stop, next
  <2> QED BY <2>2, Zenon DEF IsLoop
<1>7. \E more : IsLoop(more, text, word, turn)
  <2> HIDE DEF stop, next, rank, l
  <2>1. \E f \in [Outcome -> Outcome] : f = [x \in Outcome |-> IF x \in stop THEN x ELSE f[next[x]]]
    BY <1>5, LoopExists
  <2> QED BY <1>6, <2>1
<1>8. ASSUME NEW more, IsLoop(more, text, word, turn), NEW x \in Outcome
      PROVE  more[x] \in Outcome /\ (more[x].ok => more[x].p >= x.p)
  <2> DEFINE good == {y \in Outcome : more[y] \in Outcome /\ (more[y].ok => y.ok /\ more[y].p >= y.p)}
  <2>1. \A y \in Outcome : more[y] = IF y \in stop THEN y ELSE more[next[y]]
    <3> HIDE DEF stop, next
    <3>1. more = [y \in Outcome |-> IF y \in stop THEN y ELSE more[next[y]]] BY <1>6, <1>8, Zenon
    <3> QED BY <3>1
  <2>2. stop \subseteq good
    <3> SUFFICES ASSUME NEW y \in stop PROVE y \in good OBVIOUS
    <3>1. y \in Outcome /\ more[y] = y /\ y.p \in Nat BY <2>1, OutcomeFields
    <3> QED BY <3>1
  <2>3. ASSUME NEW y \in Outcome \ stop, next[y] \in good PROVE y \in good
    <3> DEFINE z == next[y]
    <3>1. /\ y.ok /\ z \in Outcome /\ (z.ok => z.p > y.p) /\ more[z] \in Outcome
          /\ more[z].ok => z.ok /\ more[z].p >= z.p
      BY <1>2, <2>3
    <3>2. more[y] = more[z] BY <2>1, <2>3
    <3>3. y.p \in Nat /\ z.p \in Nat /\ more[z].p \in Nat BY <3>1, OutcomeFields
    <3> HIDE DEF z, next, stop
    <3>4. more[z].ok => more[z].p >= y.p BY <3>1, <3>3
    <3> QED BY <3>1, <3>2, <3>4
  <2>4. good = Outcome
    <3>1. good \in SUBSET Outcome OBVIOUS
    <3> HIDE DEF good, stop, next, rank, l
    <3> QED BY <1>5, <2>2, <2>3, <3>1, LoopInduction, SMTT(30)
  <2> QED BY <2>4
<1> QED BY <1>7, <1>8

\* One turn of the loops of parseAnd and parseOr.
AndTurn(nested, text, row) ==
    [x \in Outcome |-> IF ~x.ok \/ At(text, x.p) # Kw("AND") THEN x
                       ELSE IF x.v THEN ParsePrimary(nested, text, x.p + 1, row)
                       ELSE Is(FALSE, x.p + 1)]
OrTurn(nested, text, row) ==
    [x \in Outcome |-> IF ~x.ok \/ At(text, x.p) # Kw("OR") THEN x
                       ELSE IF x.v THEN Is(TRUE, x.p + 1)
                       ELSE ParseAnd(nested, text, x.p + 1, row)]

LEMMA AndTurning ==
    ASSUME NEW names, NEW text \in Seq(Symbols(names)), NEW nested \in Onward(text), NEW row
    PROVE  Turning(text, Kw("AND"), AndTurn(nested, text, row))
<1> DEFINE turn == AndTurn(nested, text, row)
<1>1. ASSUME NEW x \in Outcome
      PROVE  turn[x] \in Outcome /\ (x.ok /\ At(text, x.p) = Kw("AND") /\ turn[x].ok => turn[x].p > x.p)
  <2>1. x.p \in Nat /\ x.v \in BOOLEAN BY OutcomeFields, Zenon
  <2>2. turn[x] = IF ~x.ok \/ At(text, x.p) # Kw("AND") THEN x
                  ELSE IF x.v THEN ParsePrimary(nested, text, x.p + 1, row) ELSE Is(FALSE, x.p + 1)
    BY Zenon DEF AndTurn
  <2> HIDE DEF turn
  <2>3. CASE ~x.ok \/ At(text, x.p) # Kw("AND") BY <2>2, <2>3
  <2>4. CASE x.ok /\ At(text, x.p) = Kw("AND") /\ x.v
    <3>1. turn[x] = ParsePrimary(nested, text, x.p + 1, row) BY <2>2, <2>4
    <3>2. x.p \in 1..Len(text) BY <2>1, <2>4, NotTheEnd, MarksAreNotTheEnd
    <3> DEFINE q == x.p + 1
    <3>3. q \in 1..Len(text) + 1 /\ q > x.p /\ q \in Nat BY <3>2
    <3> HIDE DEF q
    <3> DEFINE r == ParsePrimary(nested, text, q, row)
    <3>4. r \in Outcome /\ (r.ok => r.p > q) BY <3>3, PrimaryMoves
    <3>5. turn[x] = r BY <3>1 DEF q
    <3> HIDE DEF r
    <3>6. r.p \in Nat BY <3>4, OutcomeFields, Zenon
    <3> QED BY <2>1, <3>3, <3>4, <3>5, <3>6
  <2>5. CASE x.ok /\ At(text, x.p) = Kw("AND") /\ ~x.v
    <3>1. turn[x] = Is(FALSE, x.p + 1) BY <2>2, <2>5
    <3>2. x.p + 1 \in Nat /\ x.p + 1 > x.p /\ FALSE \in BOOLEAN BY <2>1
    <3> QED BY <3>1, <3>2, IsMoves, Zenon
  <2> QED BY <2>3, <2>4, <2>5
<1>2. turn = [x \in Outcome |-> turn[x]] BY DEF AndTurn
<1> HIDE DEF turn
<1>3. turn \in [Outcome -> Outcome] BY <1>1, <1>2
<1> QED BY <1>1, <1>3 DEF Turning, turn

\* parseAnd is the loop from the first primary on.
LEMMA ParseAndIs ==
    ASSUME NEW names, NEW text \in Seq(Symbols(names)), NEW nested \in Onward(text), NEW row
    PROVE  \E more : /\ IsLoop(more, text, Kw("AND"), AndTurn(nested, text, row))
                     /\ \A p : ParseAnd(nested, text, p, row) = more[ParsePrimary(nested, text, p, row)]
<1> DEFINE turn == AndTurn(nested, text, row)
           Chosen(f) == f = [left \in Outcome |->
                               IF ~left.ok \/ At(text, left.p) # Kw("AND") THEN left
                               ELSE f[IF left.v THEN ParsePrimary(nested, text, left.p + 1, row)
                                      ELSE Is(FALSE, left.p + 1)]]
           more == CHOOSE f : Chosen(f)
<1>1. \A p : ParseAnd(nested, text, p, row) = more[ParsePrimary(nested, text, p, row)]
  BY Zenon DEF ParseAnd
<1>2. \A f : Chosen(f) <=> IsLoop(f, text, Kw("AND"), turn)
  <2> SUFFICES ASSUME NEW f PROVE Chosen(f) <=> IsLoop(f, text, Kw("AND"), turn) OBVIOUS
  <2> DEFINE Coded(x) == IF ~x.ok \/ At(text, x.p) # Kw("AND") THEN x
                        ELSE f[IF x.v THEN ParsePrimary(nested, text, x.p + 1, row) ELSE Is(FALSE, x.p + 1)]
             Loop(x) == IF ~x.ok \/ At(text, x.p) # Kw("AND") THEN x ELSE f[turn[x]]
  <2>1. \A x \in Outcome : Coded(x) = Loop(x) BY Zenon DEF AndTurn
  <2> HIDE DEF Coded, Loop
  <2>2. [x \in Outcome |-> Coded(x)] = [x \in Outcome |-> Loop(x)] BY <2>1
  <2> USE DEF Coded, Loop
  <2> QED BY <2>2, Zenon DEF IsLoop
<1>3. \E f : Chosen(f)
  <2>1. \E f : IsLoop(f, text, Kw("AND"), turn) BY AndTurning, LoopMoves, MarksAreNotTheEnd
  <2> HIDE DEF Chosen
  <2> QED BY <1>2, <2>1
<1>4. Chosen(more)
  <2> HIDE DEF Chosen
  <2> QED BY <1>3
<1> HIDE DEF Chosen, more
<1> QED BY <1>1, <1>2, <1>4

\* parseAnd goes on.
LEMMA AndMoves ==
    ASSUME NEW names, NEW text \in Seq(Symbols(names)), NEW nested \in Onward(text),
           NEW p \in 1..Len(text) + 1, NEW row
    PROVE  LET r == ParseAnd(nested, text, p, row) IN r \in Outcome /\ (r.ok => r.p > p)
<1> DEFINE x == ParsePrimary(nested, text, p, row)
           r == ParseAnd(nested, text, p, row)
<1>1. PICK more : /\ IsLoop(more, text, Kw("AND"), AndTurn(nested, text, row))
                  /\ \A q : ParseAnd(nested, text, q, row) = more[ParsePrimary(nested, text, q, row)]
  BY ParseAndIs
<1>2. x \in Outcome /\ (x.ok => x.p > p) BY PrimaryMoves
<1>3. r = more[x] BY <1>1
<1>4. Turning(text, Kw("AND"), AndTurn(nested, text, row)) /\ Kw("AND") # End
  BY AndTurning, MarksAreNotTheEnd
<1> HIDE DEF x, r
<1>5. r \in Outcome /\ (r.ok => r.p >= x.p) BY <1>1, <1>2, <1>3, <1>4, LoopMoves
<1>6. r.ok => x.ok
  <2>1. more[x] = IF ~x.ok \/ At(text, x.p) # Kw("AND") THEN x ELSE more[AndTurn(nested, text, row)[x]]
    BY <1>1, <1>2, Zenon DEF IsLoop
  <2> QED BY <1>3, <2>1
<1>7. x.p \in Nat /\ r.p \in Nat /\ p \in Nat BY <1>2, <1>5, OutcomeFields
<1>8. r \in Outcome /\ (r.ok => r.p > p) BY <1>2, <1>5, <1>6, <1>7
<1> QED BY <1>8 DEF r

LEMMA OrTurning ==
    ASSUME NEW names, NEW text \in Seq(Symbols(names)), NEW nested \in Onward(text), NEW row
    PROVE  Turning(text, Kw("OR"), OrTurn(nested, text, row))
<1> DEFINE turn == OrTurn(nested, text, row)
<1>1. ASSUME NEW x \in Outcome
      PROVE  turn[x] \in Outcome /\ (x.ok /\ At(text, x.p) = Kw("OR") /\ turn[x].ok => turn[x].p > x.p)
  <2>1. x.p \in Nat /\ x.v \in BOOLEAN BY OutcomeFields, Zenon
  <2>2. turn[x] = IF ~x.ok \/ At(text, x.p) # Kw("OR") THEN x
                  ELSE IF x.v THEN Is(TRUE, x.p + 1) ELSE ParseAnd(nested, text, x.p + 1, row)
    BY Zenon DEF OrTurn
  <2> HIDE DEF turn
  <2>3. CASE ~x.ok \/ At(text, x.p) # Kw("OR") BY <2>2, <2>3
  <2>4. CASE x.ok /\ At(text, x.p) = Kw("OR") /\ ~x.v
    <3>1. turn[x] = ParseAnd(nested, text, x.p + 1, row) BY <2>2, <2>4
    <3>2. x.p \in 1..Len(text) BY <2>1, <2>4, NotTheEnd, MarksAreNotTheEnd
    <3> DEFINE q == x.p + 1
    <3>3. q \in 1..Len(text) + 1 /\ q > x.p /\ q \in Nat BY <3>2
    <3> HIDE DEF q
    <3> DEFINE r == ParseAnd(nested, text, q, row)
    <3>4. r \in Outcome /\ (r.ok => r.p > q) BY <3>3, AndMoves
    <3>5. turn[x] = r BY <3>1 DEF q
    <3> HIDE DEF r
    <3>6. r.p \in Nat BY <3>4, OutcomeFields, Zenon
    <3> QED BY <2>1, <3>3, <3>4, <3>5, <3>6
  <2>5. CASE x.ok /\ At(text, x.p) = Kw("OR") /\ x.v
    <3>1. turn[x] = Is(TRUE, x.p + 1) BY <2>2, <2>5
    <3>2. x.p + 1 \in Nat /\ x.p + 1 > x.p /\ TRUE \in BOOLEAN BY <2>1
    <3> QED BY <3>1, <3>2, IsMoves, Zenon
  <2> QED BY <2>3, <2>4, <2>5
<1>2. turn = [x \in Outcome |-> turn[x]] BY DEF OrTurn
<1> HIDE DEF turn
<1>3. turn \in [Outcome -> Outcome] BY <1>1, <1>2
<1> QED BY <1>1, <1>3 DEF Turning, turn

\* parseOr is the loop from the first AND on.
LEMMA ParseOrIs ==
    ASSUME NEW names, NEW text \in Seq(Symbols(names)), NEW nested \in Onward(text), NEW row
    PROVE  \E more : /\ IsLoop(more, text, Kw("OR"), OrTurn(nested, text, row))
                     /\ \A p : ParseOr(nested, text, p, row) = more[ParseAnd(nested, text, p, row)]
<1> DEFINE turn == OrTurn(nested, text, row)
           Chosen(f) == f = [left \in Outcome |->
                               IF ~left.ok \/ At(text, left.p) # Kw("OR") THEN left
                               ELSE f[IF left.v THEN Is(TRUE, left.p + 1)
                                      ELSE ParseAnd(nested, text, left.p + 1, row)]]
           more == CHOOSE f : Chosen(f)
<1>1. \A p : ParseOr(nested, text, p, row) = more[ParseAnd(nested, text, p, row)]
  BY Zenon DEF ParseOr
<1>2. \A f : Chosen(f) <=> IsLoop(f, text, Kw("OR"), turn)
  <2> SUFFICES ASSUME NEW f PROVE Chosen(f) <=> IsLoop(f, text, Kw("OR"), turn) OBVIOUS
  <2> DEFINE Coded(x) == IF ~x.ok \/ At(text, x.p) # Kw("OR") THEN x
                         ELSE f[IF x.v THEN Is(TRUE, x.p + 1) ELSE ParseAnd(nested, text, x.p + 1, row)]
             Loop(x) == IF ~x.ok \/ At(text, x.p) # Kw("OR") THEN x ELSE f[turn[x]]
  <2>1. \A x \in Outcome : Coded(x) = Loop(x) BY Zenon DEF OrTurn
  <2> HIDE DEF Coded, Loop
  <2>2. [x \in Outcome |-> Coded(x)] = [x \in Outcome |-> Loop(x)] BY <2>1
  <2> USE DEF Coded, Loop
  <2> QED BY <2>2, Zenon DEF IsLoop
<1>3. \E f : Chosen(f)
  <2>1. \E f : IsLoop(f, text, Kw("OR"), turn) BY OrTurning, LoopMoves, MarksAreNotTheEnd
  <2> HIDE DEF Chosen
  <2> QED BY <1>2, <2>1
<1>4. Chosen(more)
  <2> HIDE DEF Chosen
  <2> QED BY <1>3
<1> HIDE DEF Chosen, more
<1> QED BY <1>1, <1>2, <1>4

\* parseOr goes on.
LEMMA OrMoves ==
    ASSUME NEW names, NEW text \in Seq(Symbols(names)), NEW nested \in Onward(text),
           NEW p \in 1..Len(text) + 1, NEW row
    PROVE  LET r == ParseOr(nested, text, p, row) IN r \in Outcome /\ (r.ok => r.p > p)
<1> DEFINE x == ParseAnd(nested, text, p, row)
           r == ParseOr(nested, text, p, row)
<1>1. PICK more : /\ IsLoop(more, text, Kw("OR"), OrTurn(nested, text, row))
                  /\ \A q : ParseOr(nested, text, q, row) = more[ParseAnd(nested, text, q, row)]
  BY ParseOrIs
<1>2. x \in Outcome /\ (x.ok => x.p > p) BY AndMoves
<1>3. r = more[x] BY <1>1
<1>4. Turning(text, Kw("OR"), OrTurn(nested, text, row)) /\ Kw("OR") # End
  BY OrTurning, MarksAreNotTheEnd
<1> HIDE DEF x, r
<1>5. r \in Outcome /\ (r.ok => r.p >= x.p) BY <1>1, <1>2, <1>3, <1>4, LoopMoves
<1>6. r.ok => x.ok
  <2>1. more[x] = IF ~x.ok \/ At(text, x.p) # Kw("OR") THEN x ELSE more[OrTurn(nested, text, row)[x]]
    BY <1>1, <1>2, Zenon DEF IsLoop
  <2> QED BY <1>3, <2>1
<1>7. x.p \in Nat /\ r.p \in Nat /\ p \in Nat BY <1>2, <1>5, OutcomeFields
<1>8. r \in Outcome /\ (r.ok => r.p > p) BY <1>2, <1>5, <1>6, <1>7
<1> QED BY <1>8 DEF r

\* What parseOr finds at each place, by the depth of its parentheses.
Depths(text, row, nested) ==
    /\ DOMAIN nested = 0..Len(text) /\ nested[Len(text)] = Parsed(text, row)
    /\ \A d \in 0..Len(text) : nested[d] \in Onward(text)
    /\ \A d \in 1..Len(text), p \in 1..Len(text) + 1 :
         nested[d][p] = ParseOr(nested[d - 1], text, p, row)

\* Parsed is made of such depths.
LEMMA ParsedIs ==
    ASSUME NEW names, NEW text \in Seq(Symbols(names)), NEW row
    PROVE  \E nested : Depths(text, row, nested)
<1> DEFINE n == Len(text)
           St == Onward(text)
           base == [p \in 1..n + 1 |-> Wrong]
           Turn(x) == [p \in 1..n + 1 |-> ParseOr(x, text, p, row)]
           step == [y \in (1..n) \X St |-> Turn(y[2])]
           Chosen(f) == f = [d \in 0..n |-> IF d = 0 THEN [p \in 1..n + 1 |-> Wrong]
                                            ELSE [p \in 1..n + 1 |-> ParseOr(f[d - 1], text, p, row)]]
           F == CHOOSE f : Chosen(f)
<1>1. Parsed(text, row) = F[n] BY Zenon DEF Parsed
<1>2. n \in Nat OBVIOUS
<1>3. base \in St BY OutcomeFields DEF Onward
<1>4. ASSUME NEW x \in St PROVE Turn(x) \in St
  <2>1. ASSUME NEW p \in 1..n + 1
        PROVE  ParseOr(x, text, p, row) \in Outcome
               /\ (ParseOr(x, text, p, row).ok => ParseOr(x, text, p, row).p >= p)
    <3> DEFINE r == ParseOr(x, text, p, row)
    <3>1. r \in Outcome /\ (r.ok => r.p > p) BY OrMoves
    <3> HIDE DEF r
    <3>2. p \in Nat BY <1>2
    <3>4. r.p \in Nat BY <3>1, OutcomeFields, Zenon
    <3>3. r \in Outcome /\ (r.ok => r.p >= p) BY <3>1, <3>2, <3>4
    <3> QED BY <3>3 DEF r
  <2> QED BY <2>1 DEF Onward
<1>5. \A i \in 1..n, x \in St : step[<<i, x>>] = Turn(x)
  <2> SUFFICES ASSUME NEW i \in 1..n, NEW x \in St PROVE step[<<i, x>>] = Turn(x) OBVIOUS
  <2>1. <<i, x>> \in (1..n) \X St /\ <<i, x>>[2] = x OBVIOUS
  <2> HIDE DEF Turn
  <2> QED BY <2>1, Zenon
<1> HIDE DEF n, St, step, base, Turn
<1>6. Turns(n, St, step) BY <1>4, <1>5 DEF Turns
<1>7. PICK h \in [0..n -> St] : IsTrace(h, n, base, step) BY <1>2, <1>3, <1>6, TraceExists
<1>8. ASSUME NEW d \in 0..n PROVE h[d] = IF d = 0 THEN base ELSE Turn(h[d - 1])
  <2>1. CASE d = 0 BY <1>7, <2>1 DEF IsTrace
  <2>2. CASE d # 0
    <3>1. d \in 1..n /\ d - 1 \in 0..n BY <1>2, <2>2
    <3>2. h[d - 1] \in St /\ h[d] = step[<<d, h[d - 1]>>] BY <1>7, <3>1 DEF IsTrace
    <3> QED BY <1>5, <2>2, <3>1, <3>2
  <2> QED BY <2>1, <2>2
<1>9. \E f : Chosen(f)
  <2>1. h = [d \in 0..n |-> IF d = 0 THEN base ELSE Turn(h[d - 1])] BY <1>8
  <2>2. Chosen(h) BY <2>1 DEF base, Turn
  <2> HIDE DEF Chosen
  <2> QED BY <2>2
<1>10. Chosen(F)
  <2> HIDE DEF Chosen
  <2> QED BY <1>9
<1> HIDE DEF F
<1>11. F = [d \in 0..n |-> IF d = 0 THEN base ELSE Turn(F[d - 1])] BY <1>10 DEF base, Turn
<1> HIDE DEF Chosen
<1>12. F[0] = base /\ \A d \in 1..n : F[d] = Turn(F[d - 1])
  <2>1. 0 \in 0..n /\ \A d \in 1..n : d \in 0..n /\ d # 0 BY <1>2
  <2> QED BY <1>11, <2>1
<1>13. \A d \in 0..n : F[d] \in St
  <2> DEFINE bad == {d \in 0..n : F[d] \notin St}
  <2>1. 0 \notin bad BY <1>3, <1>12
  <2>2. ASSUME NEW d \in 1..n, d - 1 \notin bad PROVE d \notin bad
    <3>1. d - 1 \in 0..n BY <1>2
    <3> QED BY <1>4, <1>12, <2>2, <3>1
  <2>3. bad \in SUBSET (0..n) OBVIOUS
  <2> HIDE DEF bad
  <2>4. bad = {} BY <1>2, <2>1, <2>2, <2>3, FirstBad
  <2> QED BY <2>4 DEF bad
<1>14. \A d \in 1..n, p \in 1..n + 1 : F[d][p] = ParseOr(F[d - 1], text, p, row) BY <1>12 DEF Turn
<1>15. DOMAIN F = 0..n BY <1>11
<1> QED BY <1>1, <1>13, <1>14, <1>15 DEF Depths, n, St

\* Where a condition begins no connective goes on, no parenthesis closes and the
\* text does not end: what stops there makes the whole check throw.
Begins(x) == x = Kw("(") \/ x.k = "id"
Stuck(text, r) == r.ok => r.p \in 1..Len(text) /\ Begins(text[r.p])

\* A connective of n operands, read from s[k] to e[k]; only those of go let the
\* loop read the next one.
Operand(text, s, e, r, truth, needed) ==
    /\ s \in 1..Len(text) /\ e \in Nat /\ Begins(text[s]) /\ r \in Outcome
    /\ needed => r = Is(truth, e)
    /\ ~needed => Stuck(text, r)
Chain(text, word, turn, n, s, e, res, truth, needed, go) ==
    /\ n \in Nat \ {0} /\ truth \in [1..n -> BOOLEAN]
    /\ \A k \in 1..n : Operand(text, s[k], e[k], res[k], truth[k], k \in needed)
    /\ \A k \in 1..n - 1 :
         /\ At(text, e[k]) = word
         /\ k \in go => turn[Is(truth[k], e[k])] = res[k + 1]
         /\ k \notin go => turn[Is(truth[k], e[k])] = Is(truth[k], s[k + 1])
    /\ At(text, e[n]) # word

\* If all operands are needed and all let the loop go on, the last one decides; if
\* not, the loop is stuck before the end of the text.
LEMMA ChainRuns ==
    ASSUME NEW S, NEW text \in Seq(S), NEW word, word # End, ~Begins(word), NEW turn,
           NEW n, NEW s, NEW e, NEW res, NEW truth, NEW needed, NEW go,
           Chain(text, word, turn, n, s, e, res, truth, needed, go),
           NEW more, IsLoop(more, text, word, turn)
    PROVE  /\ (1..n \subseteq needed /\ 1..n - 1 \subseteq go) => more[res[1]] = Is(truth[n], e[n])
           /\ ~(1..n \subseteq needed /\ 1..n - 1 \subseteq go) => Stuck(text, more[res[1]])
<1> DEFINE All(k) == k..n \subseteq needed /\ k..n - 1 \subseteq go
           Good(k) == /\ All(k) => more[res[k]] = Is(truth[n], e[n])
                      /\ ~All(k) => Stuck(text, more[res[k]])
           m == n - 1
           bad == {j \in 0..m : ~Good(n - j)}
<1>1. n \in Nat \ {0} /\ n \in 1..n /\ m \in Nat BY DEF Chain
<1>2. \A k \in 1..n : /\ s[k] \in 1..Len(text) /\ e[k] \in Nat /\ Begins(text[s[k]]) /\ res[k] \in Outcome
                      /\ k \in needed => res[k] = Is(truth[k], e[k])
                      /\ k \notin needed => Stuck(text, res[k])
  BY DEF Chain, Operand
<1>3. \A k \in 1..n : truth[k] \in BOOLEAN BY DEF Chain
\* The loop stops where it fails or is stuck, and where no word is.
<1>4. \A x \in Outcome : ~x.ok \/ At(text, x.p) # word => more[x] = x BY Zenon DEF IsLoop
<1>11. \A x \in Outcome : x.ok /\ At(text, x.p) = word => more[x] = more[turn[x]]
  BY Zenon DEF IsLoop
<1>5. ASSUME NEW x \in Outcome, Stuck(text, x) PROVE more[x] = x
  <2>1. CASE ~x.ok BY <1>4, <2>1
  <2>2. CASE x.ok
    <3>1. x.p \in 1..Len(text) /\ Begins(text[x.p]) /\ x.p \in Nat BY <1>5, <2>2 DEF Stuck
    <3>2. At(text, x.p) = text[x.p] BY <3>1, AtIs
    <3>3. At(text, x.p) # word BY <3>1, <3>2
    <3> QED BY <1>4, <3>3
  <2> QED BY <2>1, <2>2
<1>6. ASSUME NEW k \in 1..n, k \in needed
      PROVE  LET x == res[k] IN x = Is(truth[k], e[k]) /\ x \in Outcome /\ x.ok /\ x.p = e[k]
  <2>1. res[k] = Is(truth[k], e[k]) /\ res[k] \in Outcome /\ e[k] \in Nat /\ truth[k] \in BOOLEAN
    BY <1>2, <1>3, <1>6
  <2>2. Is(truth[k], e[k]).ok /\ Is(truth[k], e[k]).p = e[k] BY <2>1, OutcomeFields, Zenon
  <2> QED BY <2>1, <2>2
<1>7. Good(n)
  <2>1. CASE n \in needed
    <3>1. At(text, res[n].p) # word BY <1>1, <1>6, <2>1 DEF Chain
    <3>2. more[res[n]] = Is(truth[n], e[n]) BY <1>1, <1>4, <1>6, <2>1, <3>1
    <3>3. All(n) BY <1>1, <2>1
    <3> HIDE DEF All
    <3> QED BY <3>2, <3>3
  <2>2. CASE n \notin needed
    <3>1. Stuck(text, res[n]) /\ res[n] \in Outcome BY <1>1, <1>2, <2>2
    <3>2. more[res[n]] = res[n] BY <1>5, <3>1
    <3>3. ~All(n)
      <4>1. n \in n..n BY <1>1
      <4> QED BY <2>2, <4>1
    <3> HIDE DEF All
    <3> QED BY <3>1, <3>2, <3>3
  <2> QED BY <2>1, <2>2
<1>8. ASSUME NEW k \in 1..n - 1, Good(k + 1) PROVE Good(k)
  <2>1. k \in 1..n /\ k + 1 \in 1..n /\ k \in Nat BY <1>1
  <2>2. All(k) <=> k \in needed /\ k \in go /\ All(k + 1)
    <3>1. \A j : j \in k..n <=> j = k \/ j \in k + 1..n BY <1>1, <2>1
    <3>2. \A j : j \in k..n - 1 <=> j = k \/ j \in k + 1..n - 1 BY <1>1, <2>1
    <3> QED BY <3>1, <3>2
  <2>3. CASE k \notin needed
    <3>1. Stuck(text, res[k]) /\ res[k] \in Outcome BY <1>2, <2>1, <2>3
    <3>2. more[res[k]] = res[k] BY <1>5, <3>1
    <3> HIDE DEF All
    <3> QED BY <2>2, <2>3, <3>1, <3>2
  <2>4. CASE k \in needed
    <3> DEFINE x == res[k]
    <3>1. x = Is(truth[k], e[k]) /\ x \in Outcome /\ x.ok /\ x.p = e[k] BY <1>6, <2>1, <2>4
    <3>2. At(text, x.p) = word BY <3>1 DEF Chain
    <3> HIDE DEF x
    <3>3. more[x] = more[turn[x]] BY <1>11, <3>1, <3>2
    <3>4. CASE k \in go
      <4>1. turn[x] = res[k + 1] BY <3>1, <3>4 DEF Chain
      <4>2. more[res[k]] = more[res[k + 1]] BY <3>3, <4>1 DEF x
      <4> HIDE DEF All
      <4> QED BY <1>8, <2>2, <2>4, <3>4, <4>2
    <3>5. CASE k \notin go
      <4> DEFINE y == Is(truth[k], s[k + 1])
      <4>1. turn[x] = y BY <3>1, <3>5 DEF Chain
      <4>2. s[k + 1] \in 1..Len(text) /\ Begins(text[s[k + 1]]) /\ s[k + 1] \in Nat BY <1>2, <2>1
      <4>3. y \in Outcome /\ y.p = s[k + 1] BY <1>3, <2>1, <4>2, OutcomeFields, Zenon
      <4>4. Stuck(text, y) BY <4>2, <4>3 DEF Stuck
      <4> HIDE DEF y
      <4>5. more[y] = y BY <1>5, <4>3, <4>4
      <4>6. Stuck(text, more[res[k]]) BY <3>3, <4>1, <4>4, <4>5 DEF x
      <4> HIDE DEF All
      <4> QED BY <2>2, <3>5, <4>6
    <3> QED BY <3>4, <3>5
  <2> QED BY <2>3, <2>4
<1> HIDE DEF Good
<1>9. bad = {}
  <2>1. 0 \notin bad
    <3>1. n - 0 = n BY <1>1
    <3> QED BY <1>7, <3>1
  <2>2. ASSUME NEW j \in 1..m, j - 1 \notin bad PROVE j \notin bad
    <3> DEFINE k == n - j
    <3>1. k \in 1..n - 1 /\ n - (j - 1) = k + 1 /\ j - 1 \in 0..m BY <1>1
    <3>2. Good(n - (j - 1)) BY <2>2, <3>1
    <3>3. Good(k + 1) BY <3>1, <3>2
    <3> HIDE DEF k
    <3>4. Good(k) BY <1>8, <3>1, <3>3
    <3> QED BY <3>4 DEF k
  <2>3. bad \in SUBSET (0..m) OBVIOUS
  <2> HIDE DEF bad, m
  <2> QED BY <1>1, <2>1, <2>2, <2>3, FirstBad
<1>10. Good(1)
  <2>1. m \in 0..m /\ n - m = 1 BY <1>1
  <2>2. Good(n - m) BY <1>9, <2>1
  <2> QED BY <2>1, <2>2
<1> QED BY <1>10 DEF Good

\* A list of n items with its parenthesis is read to the end.
ListFrom(text, b, items, n) ==
    /\ n = Len(items) /\ b + 2 * n - 1 <= Len(text)
    /\ \A k \in 1..n : text[b + 2 * k - 2] = items[k]
    /\ \A k \in 1..n - 1 : text[b + 2 * k - 1] = Comma
    /\ text[b + 2 * n - 1] = Kw(")")

\* Values finds all of such a list.
LEMMA ValuesOf ==
    ASSUME NEW S, NEW text \in Seq(S), NEW names, NEW items \in NonEmpty(ValueTok(names)),
           NEW b \in Nat \ {0}, NEW n, ListFrom(text, b, items, n)
    PROVE  LET list == Values(text, b) IN
           /\ list.ok /\ list.p = b + 2 * n
           /\ list.places = {b + 2 * k - 2 : k \in 1..n}
<1> DEFINE l == Len(text)
           lasts == {m \in 1..Len(text) : At(text, b + 2 * m - 1) # Comma}
           Least(m) == m \in lasts /\ \A q \in lasts : m <= q
           m == CHOOSE x \in lasts : \A y \in lasts : x <= y
           list == Values(text, b)
<1>1. l \in Nat /\ n \in Nat \ {0} /\ b + 2 * n - 1 <= l BY DEF NonEmpty, ListFrom
<1>0. /\ n = Len(items) /\ text[b + 2 * n - 1] = Kw(")")
      /\ \A k \in 1..n : text[b + 2 * k - 2] = items[k]
      /\ \A k \in 1..n - 1 : text[b + 2 * k - 1] = Comma
  BY DEF ListFrom
<1> HIDE DEF l
<1>2. \A q \in 1..l : At(text, q) = text[q] BY DEF At, l
<1>3. \A k \in 1..n : /\ b + 2 * k - 2 \in 1..l /\ b + 2 * k - 1 \in 1..l BY <1>1
<1>4. \A k \in 1..n - 1 : At(text, b + 2 * k - 1) = Comma
  <2>1. \A k \in 1..n - 1 : k \in 1..n BY <1>1
  <2> QED BY <1>0, <1>2, <1>3, <2>1
<1>5. At(text, b + 2 * n - 1) = Kw(")")
  <2>1. n \in 1..n BY <1>1
  <2> QED BY <1>0, <1>2, <1>3, <2>1
<1>6. Least(n)
  <2>1. n \in 1..l BY <1>1
  <2>2. n \in lasts
    <3>1. Kw(")") # Comma BY CommaIsAlone
    <3> QED BY <1>5, <2>1, <3>1 DEF l
  <2>3. ASSUME NEW q \in lasts PROVE n <= q
    <3>1. q \in 1..l /\ At(text, b + 2 * q - 1) # Comma BY DEF l
    <3>2. q \notin 1..n - 1 BY <1>4, <3>1
    <3> QED BY <1>1, <3>1, <3>2
  <2> QED BY <2>2, <2>3
<1>7. m = n
  <2>1. Least(m)
    <3> HIDE DEF lasts
    <3>1. \E x \in lasts : \A y \in lasts : x <= y BY <1>6
    <3> QED BY <3>1
  <2>2. m \in 1..l BY <2>1 DEF l
  <2>3. m <= n /\ n <= m BY <1>6, <2>1
  <2> HIDE DEF m
  <2> QED BY <1>1, <2>2, <2>3
<1> DEFINE places == {b + 2 * k - 2 : k \in 1..m}
<1>8. list = [ok |-> At(text, b + 2 * m - 1) = Kw(")") /\ \A q \in places : IsValue(At(text, q)),
              places |-> places, p |-> b + 2 * m]
  BY Zenon DEF Values
<1>9. \A q \in places : IsValue(At(text, q))
  <2> SUFFICES ASSUME NEW k \in 1..n PROVE IsValue(At(text, b + 2 * k - 2))
    <3> HIDE DEF m
    <3> QED BY <1>7
  <2>1. At(text, b + 2 * k - 2) = items[k] BY <1>0, <1>2, <1>3
  <2>2. items[k] \in ValueTok(names) BY <1>0 DEF NonEmpty
  <2> QED BY <2>1, <2>2, ValueToken
<1>10. At(text, b + 2 * m - 1) = Kw(")") BY <1>5, <1>7
<1> DEFINE good == At(text, b + 2 * m - 1) = Kw(")") /\ \A q \in places : IsValue(At(text, q))
<1>11. good BY <1>9, <1>10
<1>12. list = [ok |-> good, places |-> places, p |-> b + 2 * m] BY <1>8
<1> HIDE DEF good, m, places, list
<1>13. list.ok = good /\ list.places = places /\ list.p = b + 2 * m BY <1>12
<1>14. list.ok /\ list.p = b + 2 * n /\ list.places = {b + 2 * k - 2 : k \in 1..n}
  BY <1>7, <1>11, <1>13 DEF places
<1> QED BY <1>14 DEF list

\* What is spelled is found token by token.
LEMMA SpelledAt ==
    ASSUME NEW S, NEW text \in Seq(S), NEW p, NEW R, NEW s \in Seq(R), Spells(text, p, s)
    PROVE  /\ p \in Nat \ {0} /\ p + Len(s) - 1 <= Len(text)
           /\ \A j \in 1..Len(s) : /\ p + j - 1 \in 1..Len(text)
                                   /\ text[p + j - 1] = s[j] /\ At(text, p + j - 1) = s[j]
<1> DEFINE l == Len(text)
           n == Len(s)
<1>1. l \in Nat /\ n \in Nat /\ DOMAIN text = 1..l OBVIOUS
<1>2. p \in Nat \ {0} /\ p + n <= l + 1 /\ \A j \in 1..n : text[p + j - 1] = s[j] BY DEF Spells
<1> HIDE DEF l, n
<1>3. \A j \in 1..n : p + j - 1 \in 1..l BY <1>1, <1>2
<1>4. \A j \in 1..n : At(text, p + j - 1) = s[j]
  <2>1. \A q \in 1..l : At(text, q) = text[q] BY <1>1 DEF At
  <2> QED BY <1>2, <1>3, <2>1
<1>5. p + n - 1 <= l BY <1>1, <1>2
<1> QED BY <1>2, <1>3, <1>4, <1>5 DEF l, n

\* A primary that stands at p in a text, and what the evaluator makes of it.
Right(r, text, truth, needed, e) ==
    /\ truth \in BOOLEAN
    /\ needed => r = Is(truth, e)
    /\ ~needed => Stuck(text, r)

\* A name of no column is an error.
LEMMA NameRead ==
    ASSUME NEW nested, NEW text, NEW p, NEW row, NEW c, At(text, p) = Id(c)
    PROVE  ParsePrimary(nested, text, p, row) = IF c \in DOMAIN row THEN Leaf(text, p, row) ELSE Wrong
<1>1. Id(c) # Kw("(") /\ Id(c).k = "id" /\ Id(c).w[1] = c BY MarksAreNoValues
<1> QED BY <1>1 DEF ParsePrimary

Compared(c, v, row) == CompareScalar(row[c], ValueOf(v, row))

LEMMA ComparedAt ==
    ASSUME NEW text, NEW p, NEW q, NEW row, NEW c, NEW v, At(text, p) = Id(c), At(text, q) = v
    PROVE  LeafCompare(text, p, q, row) = Compared(c, v, row)
<1>1. Id(c).w[1] = c BY MarksAreNoValues
<1> QED BY <1>1 DEF LeafCompare, Compared

\* What a primary says, by its kind.
LEMMA TruthIs ==
    ASSUME NEW x, NEW row, NEW done
    PROVE  LET here == x.c \in DOMAIN row IN
           /\ x.p = "paren" => /\ PrimaryTruth(x, row, done) = done[x.of].truth
                               /\ PrimaryNeeded(x, row, done) = done[x.of].needed
           /\ x.p # "paren" => PrimaryNeeded(x, row, done) = here
           /\ x.p = "cmp" => PrimaryTruth(x, row, done) = (here /\ Satisfies(Compared(x.c, x.v, row), x.op))
           /\ x.p = "between" => PrimaryTruth(x, row, done)
                = (here /\ Compared(x.c, x.lo, row) >= 0 /\ Compared(x.c, x.hi, row) <= 0)
           /\ x.p = "in" => PrimaryTruth(x, row, done)
                = (here /\ (\E k \in DOMAIN x.items : Compared(x.c, x.items[k], row) = 0) # x.negated)
<1> DEFINE here == x.c \in DOMAIN row
           a == Satisfies(Compared(x.c, x.v, row), x.op)
           b == Compared(x.c, x.lo, row) >= 0 /\ Compared(x.c, x.hi, row) <= 0
           c == (\E k \in DOMAIN x.items : Compared(x.c, x.items[k], row) = 0) # x.negated
           d == done[x.of].truth
           truth == PrimaryTruth(x, row, done)
<1>1. truth = IF x.p = "paren" THEN d
              ELSE (here /\ CASE x.p = "cmp" -> a [] x.p = "between" -> b [] x.p = "in" -> c)
  BY Zenon DEF PrimaryTruth, Compared
<1>2. /\ x.p = "paren" => PrimaryNeeded(x, row, done) = done[x.of].needed
      /\ x.p # "paren" => PrimaryNeeded(x, row, done) = here
  BY SMT DEF PrimaryNeeded
<1> HIDE DEF here, a, b, c, d, truth
<1>3. /\ x.p = "paren" => truth = d
      /\ x.p = "cmp" => truth = (here /\ a)
      /\ x.p = "between" => truth = (here /\ b)
      /\ x.p = "in" => truth = (here /\ c)
  BY <1>1
<1>4. x.p = "between" => truth = (here /\ Compared(x.c, x.lo, row) >= 0 /\ Compared(x.c, x.hi, row) <= 0)
  BY <1>3 DEF b
<1> QED BY <1>2, <1>3, <1>4, Zenon DEF here, a, c, d, truth

\* What a condition on a column finds, whether or not the row has it.
LEMMA RightOfRow ==
    ASSUME NEW text, NEW r, NEW t \in BOOLEAN, NEW there \in BOOLEAN, NEW truth, NEW needed, NEW q,
           truth = (there /\ t), needed = there, there => r = Is(t, q), ~there => r = Wrong
    PROVE  Right(r, text, truth, needed, q)
<1>1. CASE there
  <2>1. truth = t /\ needed BY <1>1
  <2> QED BY <1>1, <2>1 DEF Right
<1>2. CASE ~there
  <2>1. truth = FALSE /\ ~needed BY <1>2
  <2> QED BY <1>2, <2>1, OutcomeFields DEF Right, Stuck
<1> QED BY <1>1, <1>2

\* A comparison, a range, a list and a part in parentheses, each where it is
\* spelled: parsePrimary finds what it means.
LEMMA ComparisonRight ==
    ASSUME NEW names, NEW text \in Seq(Symbols(names)), NEW x \in Primary(names), NEW nested,
           NEW texts, NEW done, NEW row, NEW p, x.p = "cmp", Spells(text, p, PrimaryText(x, texts))
    PROVE  Right(ParsePrimary(nested, text, p, row), text, PrimaryTruth(x, row, done),
                 PrimaryNeeded(x, row, done), p + Len(PrimaryText(x, texts)))
<1> DEFINE s == PrimaryText(x, texts)
           t == Satisfies(Compared(x.c, x.v, row), x.op)
           r == ParsePrimary(nested, text, p, row)
           truth == PrimaryTruth(x, row, done)
           needed == PrimaryNeeded(x, row, done)
<1>1. x.c \in names /\ x.op \in Operators /\ x.v \in ValueTok(names) BY PrimaryShape
<1>2. s \in Seq(Symbols(names)) /\ ComparisonAt(s, x)
  BY PrimaryPlaces DEF Known, PrimaryAt, Sentence, NonEmpty
<1>3. p \in Nat \ {0} /\ At(text, p) = Id(x.c) /\ At(text, p + 1) = Tok("op", x.op) /\ At(text, p + 2) = x.v
  <2>1. Len(s) = 3 /\ s[1] = Id(x.c) /\ s[2] = Tok("op", x.op) /\ s[3] = x.v
    BY <1>2 DEF ComparisonAt
  <2> HIDE DEF s
  <2>2. p \in Nat \ {0} /\ \A j \in 1..Len(s) : At(text, p + j - 1) = s[j] BY <1>2, SpelledAt DEF s
  <2>3. p + 1 - 1 = p /\ p + 2 - 1 = p + 1 /\ p + 3 - 1 = p + 2 /\ 1 \in 1..3 /\ 2 \in 1..3 /\ 3 \in 1..3
    BY <2>2
  <2> QED BY <2>1, <2>2, <2>3
<1>4. truth = (x.c \in DOMAIN row /\ t) /\ needed = (x.c \in DOMAIN row) BY TruthIs
<1>5. t \in BOOLEAN BY <1>1, SatisfiesIs
<1>6. ASSUME x.c \in DOMAIN row PROVE r = Is(t, p + 3)
  <2>1. r = Leaf(text, p, row) BY <1>3, <1>6, NameRead
  <2>2. Tok("op", x.op).k = "op" /\ Tok("op", x.op).w[1] = x.op BY TokensDiffer
  <2>3. Leaf(text, p, row) = Is(ComparisonHolds(text, p, row), p + 3)
    <3>1. IsValue(At(text, p + 2)) /\ At(text, p + 1).k = "op" BY <1>1, <1>3, <2>2, ValueToken
    <3> QED BY <3>1, LeafCases, Zenon
  <2>4. ComparisonHolds(text, p, row) = t BY <1>3, <2>2, ComparedAt DEF ComparisonHolds
  <2> QED BY <2>1, <2>3, <2>4
<1>7. ASSUME x.c \notin DOMAIN row PROVE r = Wrong BY <1>3, <1>7, NameRead
<1>8. Len(s) = 3 BY <1>2 DEF ComparisonAt
<1> HIDE DEF t, r, truth, needed, s
<1> DEFINE there == x.c \in DOMAIN row
           q == p + Len(s)
<1>9. t \in BOOLEAN /\ there \in BOOLEAN /\ truth = (there /\ t) /\ needed = there
      /\ (there => r = Is(t, q)) /\ (~there => r = Wrong)
  BY <1>4, <1>5, <1>6, <1>8, <1>7
<1> HIDE DEF there, q
<1>10. Right(r, text, truth, needed, q) BY <1>9, RightOfRow
<1> QED BY <1>10 DEF r, truth, needed, s, q

LEMMA RangeRight ==
    ASSUME NEW names, NEW text \in Seq(Symbols(names)), NEW x \in Primary(names), NEW nested,
           NEW texts, NEW done, NEW row, NEW p, x.p = "between", Spells(text, p, PrimaryText(x, texts))
    PROVE  Right(ParsePrimary(nested, text, p, row), text, PrimaryTruth(x, row, done),
                 PrimaryNeeded(x, row, done), p + Len(PrimaryText(x, texts)))
<1> DEFINE s == PrimaryText(x, texts)
           t == Compared(x.c, x.lo, row) >= 0 /\ Compared(x.c, x.hi, row) <= 0
           r == ParsePrimary(nested, text, p, row)
           truth == PrimaryTruth(x, row, done)
           needed == PrimaryNeeded(x, row, done)
<1>1. x.c \in names /\ x.lo \in ValueTok(names) /\ x.hi \in ValueTok(names) BY PrimaryShape
<1>2. s \in Seq(Symbols(names)) /\ RangeAt(s, x)
  BY PrimaryPlaces DEF Known, PrimaryAt, Sentence, NonEmpty
<1>3. /\ p \in Nat \ {0} /\ At(text, p) = Id(x.c) /\ At(text, p + 1) = Kw("BETWEEN")
      /\ At(text, p + 2) = x.lo /\ At(text, p + 3) = Kw("AND") /\ At(text, p + 4) = x.hi
  <2>1. /\ Len(s) = 5 /\ s[1] = Id(x.c) /\ s[2] = Kw("BETWEEN") /\ s[3] = x.lo
        /\ s[4] = Kw("AND") /\ s[5] = x.hi
    BY <1>2 DEF RangeAt
  <2> HIDE DEF s
  <2>2. p \in Nat \ {0} /\ \A j \in 1..Len(s) : At(text, p + j - 1) = s[j] BY <1>2, SpelledAt DEF s
  <2>3. /\ p + 1 - 1 = p /\ p + 2 - 1 = p + 1 /\ p + 3 - 1 = p + 2 /\ p + 4 - 1 = p + 3 /\ p + 5 - 1 = p + 4
        /\ 1 \in 1..5 /\ 2 \in 1..5 /\ 3 \in 1..5 /\ 4 \in 1..5 /\ 5 \in 1..5
    BY <2>2
  <2> QED BY <2>1, <2>2, <2>3
<1>4. truth = (x.c \in DOMAIN row /\ t) /\ needed = (x.c \in DOMAIN row) BY TruthIs
<1>5. t \in BOOLEAN OBVIOUS
<1>6. ASSUME x.c \in DOMAIN row PROVE r = Is(t, p + 5)
  <2>1. r = Leaf(text, p, row) BY <1>3, <1>6, NameRead
  <2>2. Leaf(text, p, row) = Is(RangeHolds(text, p, row), p + 5)
    <3>1. IsRangeAt(text, p) BY <1>1, <1>3, ValueToken DEF IsRangeAt
    <3> QED BY <1>3, <3>1, LeafCases, Zenon
  <2>3. LeafCompare(text, p, p + 2, row) = Compared(x.c, x.lo, row) BY <1>3, ComparedAt
  <2>4. LeafCompare(text, p, p + 4, row) = Compared(x.c, x.hi, row) BY <1>3, ComparedAt
  <2>5. RangeHolds(text, p, row) = t BY <2>3, <2>4, Zenon DEF RangeHolds
  <2> QED BY <2>1, <2>2, <2>5
<1>7. ASSUME x.c \notin DOMAIN row PROVE r = Wrong BY <1>3, <1>7, NameRead
<1>8. Len(s) = 5 BY <1>2 DEF RangeAt
<1> HIDE DEF t, r, truth, needed, s
<1> DEFINE there == x.c \in DOMAIN row
           q == p + Len(s)
<1>9. t \in BOOLEAN /\ there \in BOOLEAN /\ truth = (there /\ t) /\ needed = there
      /\ (there => r = Is(t, q)) /\ (~there => r = Wrong)
  BY <1>4, <1>5, <1>6, <1>8, <1>7
<1> HIDE DEF there, q
<1>10. Right(r, text, truth, needed, q) BY <1>9, RightOfRow
<1> QED BY <1>10 DEF r, truth, needed, s, q

LEMMA ListRight ==
    ASSUME NEW names, NEW text \in Seq(Symbols(names)), NEW x \in Primary(names), NEW nested,
           NEW texts, NEW done, NEW row, NEW p, x.p = "in", Spells(text, p, PrimaryText(x, texts))
    PROVE  Right(ParsePrimary(nested, text, p, row), text, PrimaryTruth(x, row, done),
                 PrimaryNeeded(x, row, done), p + Len(PrimaryText(x, texts)))
<1> DEFINE s == PrimaryText(x, texts)
           b == InFrom(x)
           n == Len(x.items)
           list == Values(text, p + b)
           found == \E k \in DOMAIN x.items : Compared(x.c, x.items[k], row) = 0
           t == found # x.negated
           r == ParsePrimary(nested, text, p, row)
           truth == PrimaryTruth(x, row, done)
           needed == PrimaryNeeded(x, row, done)
<1>1. x.c \in names /\ x.negated \in BOOLEAN /\ x.items \in NonEmpty(ValueTok(names))
  BY PrimaryShape
<1>2. s \in Seq(Symbols(names)) /\ ListAt(s, x)
  BY PrimaryPlaces DEF Known, PrimaryAt, Sentence, NonEmpty
<1>3. /\ Len(s) = b + 2 * n /\ s[1] = Id(x.c) /\ (x.negated => s[2] = Kw("NOT"))
      /\ s[b - 1] = Kw("IN") /\ s[b] = Kw("(") /\ s[b + 2 * n] = Kw(")")
      /\ \A k \in 1..n : s[b + 2 * k - 1] = x.items[k]
      /\ \A k \in 1..n - 1 : s[b + 2 * k] = Comma
  BY <1>2 DEF ListAt
<1>4. /\ n \in Nat \ {0} /\ DOMAIN x.items = 1..n /\ b \in {3, 4}
      /\ x.negated => b = 4
      /\ ~x.negated => b = 3
  BY <1>1 DEF InFrom, NonEmpty
<1>5. /\ p \in Nat \ {0} /\ p + Len(s) - 1 <= Len(text)
      /\ \A j \in 1..Len(s) : p + j - 1 \in 1..Len(text) /\ text[p + j - 1] = s[j] /\ At(text, p + j - 1) = s[j]
  <2>1. Spells(text, p, s) OBVIOUS
  <2>2. s \in Seq(Symbols(names)) BY <1>2
  <2> HIDE DEF s
  <2> QED BY <2>1, <2>2, SpelledAt
<1> HIDE DEF s, b, n
<1>6. p \in Nat /\ Len(s) = b + 2 * n /\ n \in Nat /\ n >= 1 BY <1>3, <1>4, <1>5
<1>7. At(text, p) = Id(x.c)
  <2>1. 1 \in 1..Len(s) /\ p + 1 - 1 = p BY <1>4, <1>6
  <2> QED BY <1>3, <1>5, <2>1
<1>8. (At(text, p + 1) = Kw("NOT") <=> x.negated) /\ At(text, p + b - 2) = Kw("IN") /\ At(text, p + b - 1) = Kw("(")
  <2>1. /\ b - 1 \in 1..Len(s) /\ b \in 1..Len(s) /\ p + (b - 1) - 1 = p + b - 2 /\ 2 \in 1..Len(s) /\ p + 2 - 1 = p + 1
    BY <1>4, <1>6
  <2>2. At(text, p + b - 2) = Kw("IN") /\ At(text, p + b - 1) = Kw("(") BY <1>3, <1>5, <2>1
  <2>3. At(text, p + 1) = s[2] BY <1>5, <2>1
  <2>4. CASE x.negated BY <1>3, <2>2, <2>3, <2>4
  <2>5. CASE ~x.negated
    <3>1. b = 3 /\ b - 1 = 2 BY <1>4, <2>5
    <3>2. s[2] = Kw("IN") BY <1>3, <3>1
    <3> QED BY <2>2, <2>3, <2>5, <3>2, MarksAreNotTheEnd
  <2> QED BY <2>4, <2>5
<1>9. (NegatedAt(text, p) <=> x.negated) /\ InAt(text, p) = p + b - 2
  <2>1. NegatedAt(text, p) <=> x.negated BY <1>8 DEF NegatedAt
  <2>2. CASE x.negated
    <3>1. b = 4 /\ p + b - 2 = p + 2 BY <1>4, <1>6, <2>2
    <3> QED BY <2>1, <2>2, <3>1 DEF InAt
  <2>3. CASE ~x.negated
    <3>1. b = 3 /\ p + b - 2 = p + 1 BY <1>4, <1>6, <2>3
    <3> QED BY <2>1, <2>3, <3>1 DEF InAt
  <2> QED BY <2>1, <2>2, <2>3
<1>10. list.ok /\ list.p = p + b + 2 * n /\ list.places = {p + b + 2 * k - 2 : k \in 1..n}
  <2> DEFINE q == p + b
  <2>0. n = Len(x.items) BY DEF n
  <2>1. q \in Nat \ {0} /\ q + 2 * n - 1 <= Len(text) BY <1>4, <1>5, <1>6
  <2>2. ASSUME NEW k \in 1..n PROVE text[q + 2 * k - 2] = x.items[k]
    <3>1. b + 2 * k - 1 \in 1..Len(s) /\ p + (b + 2 * k - 1) - 1 = q + 2 * k - 2 BY <1>4, <1>6
    <3>2. text[p + (b + 2 * k - 1) - 1] = s[b + 2 * k - 1] BY <1>5, <3>1
    <3> HIDE DEF q
    <3> QED BY <1>3, <3>1, <3>2
  <2>3. ASSUME NEW k \in 1..n - 1 PROVE text[q + 2 * k - 1] = Comma
    <3>1. b + 2 * k \in 1..Len(s) /\ p + (b + 2 * k) - 1 = q + 2 * k - 1 BY <1>4, <1>6
    <3>2. text[p + (b + 2 * k) - 1] = s[b + 2 * k] BY <1>5, <3>1
    <3> HIDE DEF q
    <3> QED BY <1>3, <3>1, <3>2
  <2>4. text[q + 2 * n - 1] = Kw(")")
    <3>1. b + 2 * n \in 1..Len(s) /\ p + (b + 2 * n) - 1 = q + 2 * n - 1 BY <1>4, <1>6
    <3>2. text[p + (b + 2 * n) - 1] = s[b + 2 * n] BY <1>5, <3>1
    <3> HIDE DEF q
    <3> QED BY <1>3, <3>1, <3>2
  <2> HIDE DEF q
  <2>5. /\ Values(text, q).ok /\ Values(text, q).p = q + 2 * n
        /\ Values(text, q).places = {q + 2 * k - 2 : k \in 1..n}
    <3>1. ListFrom(text, q, x.items, n) BY <2>0, <2>1, <2>2, <2>3, <2>4 DEF ListFrom
    <3> QED BY <1>1, <2>1, <3>1, ValuesOf
  <2> QED BY <2>5 DEF q
<1>11. InAt(text, p) + 2 = p + b /\ InAt(text, p) + 1 = p + b - 1 BY <1>4, <1>6, <1>9
<1>12. IsListAt(text, p) /\ At(text, InAt(text, p)) = Kw("IN")
  BY <1>8, <1>9, <1>10, <1>11 DEF IsListAt
<1>13. ASSUME NEW k \in 1..n
       PROVE  LeafCompare(text, p, p + b + 2 * k - 2, row) = Compared(x.c, x.items[k], row)
  <2>1. b + 2 * k - 1 \in 1..Len(s) /\ p + (b + 2 * k - 1) - 1 = p + b + 2 * k - 2 BY <1>4, <1>6, SMTT(30)
  <2>2. At(text, p + b + 2 * k - 2) = x.items[k]
    <3>1. At(text, p + (b + 2 * k - 1) - 1) = s[b + 2 * k - 1] BY <1>5, <2>1
    <3> QED BY <1>3, <2>1, <3>1
  <2> DEFINE q == p + b + 2 * k - 2
  <2>3. At(text, q) = x.items[k] BY <2>2
  <2> HIDE DEF q
  <2>4. LeafCompare(text, p, q, row) = Compared(x.c, x.items[k], row) BY <1>7, <2>3, ComparedAt
  <2> QED BY <2>4 DEF q
<1>14. (\E q \in list.places : LeafCompare(text, p, q, row) = 0) <=> found
  <2>1. (\E q \in list.places : LeafCompare(text, p, q, row) = 0)
        <=> \E k \in 1..n : LeafCompare(text, p, p + b + 2 * k - 2, row) = 0
    <3> DEFINE L == list.places
    <3>1. L = {p + b + 2 * k - 2 : k \in 1..n} BY <1>10
    <3> HIDE DEF L
    <3>2. (\E q \in L : LeafCompare(text, p, q, row) = 0)
          <=> \E k \in 1..n : LeafCompare(text, p, p + b + 2 * k - 2, row) = 0
      BY <3>1
    <3> QED BY <3>2 DEF L
  <2>2. \A k \in 1..n : LeafCompare(text, p, p + b + 2 * k - 2, row) = 0
                        <=> Compared(x.c, x.items[k], row) = 0
    BY <1>13
  <2> QED BY <1>4, <2>1, <2>2
<1>15. ListHolds(text, p, row) = t
  <2> DEFINE f == \E q \in list.places : LeafCompare(text, p, q, row) = 0
             g == NegatedAt(text, p)
             h == x.negated
  <2>1. ListHolds(text, p, row) = (f # g) BY <1>11, Zenon DEF ListHolds
  <2>2. f <=> found BY <1>14
  <2>3. f \in BOOLEAN /\ found \in BOOLEAN /\ g \in BOOLEAN /\ h \in BOOLEAN /\ (g <=> h)
    BY <1>1, <1>9, Zenon DEF NegatedAt
  <2> HIDE DEF f, found, g, h
  <2>4. f = found /\ g = h BY <2>2, <2>3
  <2>5. (f # g) = (found # h) BY <2>4, Zenon
  <2> QED BY <2>1, <2>5, Zenon DEF h
<1>16. truth = (x.c \in DOMAIN row /\ t) /\ needed = (x.c \in DOMAIN row) BY TruthIs
<1>17. t \in BOOLEAN BY Zenon
<1>18. ASSUME x.c \in DOMAIN row PROVE r = Is(t, p + b + 2 * n)
  <2>1. r = Leaf(text, p, row) BY <1>7, <1>18, NameRead
  <2>2. Leaf(text, p, row) = Is(ListHolds(text, p, row), Values(text, InAt(text, p) + 2).p)
    BY <1>12, LeafCases, Zenon
  <2>3. Values(text, InAt(text, p) + 2).p = p + b + 2 * n BY <1>10, <1>11
  <2> QED BY <1>15, <2>1, <2>2, <2>3, Zenon
<1>19. ASSUME x.c \notin DOMAIN row PROVE r = Wrong BY <1>7, <1>19, NameRead
<1>20. p + Len(s) = p + b + 2 * n BY <1>4, <1>6
<1> HIDE DEF t, r, truth, needed
<1> DEFINE there == x.c \in DOMAIN row
           q == p + Len(s)
<1>21. t \in BOOLEAN /\ there \in BOOLEAN /\ truth = (there /\ t) /\ needed = there
      /\ (there => r = Is(t, q)) /\ (~there => r = Wrong)
  BY <1>16, <1>17, <1>18, <1>20, <1>19
<1> HIDE DEF there, q
<1>22. Right(r, text, truth, needed, q) BY <1>21, RightOfRow
<1> QED BY <1>22 DEF r, truth, needed, s, q

LEMMA ParenRight ==
    ASSUME NEW names, NEW text \in Seq(Symbols(names)), NEW x \in Primary(names), NEW nested \in Onward(text),
           NEW texts, NEW done, NEW row, NEW p, x.p = "paren", Known(x, texts, names),
           Spells(text, p, PrimaryText(x, texts)),
           Right(nested[p + 1], text, done[x.of].truth, done[x.of].needed, p + 1 + Len(texts[x.of]))
    PROVE  /\ Right(ParsePrimary(nested, text, p, row), text, PrimaryTruth(x, row, done),
                    PrimaryNeeded(x, row, done), p + Len(PrimaryText(x, texts)))
<1> DEFINE s == PrimaryText(x, texts)
           u == texts[x.of]
           n == Len(u)
           inner == nested[p + 1]
           r == ParsePrimary(nested, text, p, row)
           truth == PrimaryTruth(x, row, done)
           needed == PrimaryNeeded(x, row, done)
<1>1. s \in Seq(Symbols(names)) /\ ParenAt(s, u) BY PrimaryPlaces DEF PrimaryAt, Sentence, NonEmpty
<1>2. u \in Seq(Symbols(names)) BY DEF Known, Sentence, NonEmpty
<1>3. truth = done[x.of].truth /\ needed = done[x.of].needed BY TruthIs
<1>4. Right(inner, text, truth, needed, p + 1 + n) BY <1>3
<1>5. Len(s) = n + 2 /\ s[1] = Kw("(") /\ s[n + 2] = Kw(")") /\ n \in Nat BY <1>1, <1>2 DEF ParenAt
<1>6. /\ p \in Nat \ {0} /\ p + Len(s) - 1 <= Len(text)
      /\ \A j \in 1..Len(s) : p + j - 1 \in 1..Len(text) /\ text[p + j - 1] = s[j] /\ At(text, p + j - 1) = s[j]
  <2>1. Spells(text, p, s) OBVIOUS
  <2>2. s \in Seq(Symbols(names)) BY <1>1
  <2> HIDE DEF s
  <2> QED BY <2>1, <2>2, SpelledAt
<1> HIDE DEF s, n, u
<1>7. At(text, p) = Kw("(") /\ At(text, p + 1 + n) = Kw(")") /\ p + 1 \in 1..Len(text) + 1
  <2>1. 1 \in 1..Len(s) /\ n + 2 \in 1..Len(s) /\ p + 1 - 1 = p /\ p + (n + 2) - 1 = p + 1 + n
    BY <1>5, <1>6
  <2>2. p + 1 \in 1..Len(text) + 1 BY <1>5, <1>6
  <2> QED BY <1>5, <1>6, <2>1, <2>2
<1>8. inner \in Outcome BY <1>7 DEF Onward
<1>9. r = IF inner.ok /\ At(text, inner.p) = Kw(")") THEN Is(inner.v, inner.p + 1) ELSE Wrong
  BY <1>7 DEF ParsePrimary
<1> HIDE DEF inner, r, truth, needed
<1>10. truth \in BOOLEAN BY <1>4 DEF Right
<1>11. ASSUME needed PROVE r = Is(truth, p + Len(s))
  <2>1. inner = Is(truth, p + 1 + n) BY <1>4, <1>11 DEF Right
  <2>2. p + 1 + n \in Nat /\ p + 1 + n + 1 = p + Len(s) BY <1>5, <1>6
  <2>3. inner.ok /\ inner.v = truth /\ inner.p = p + 1 + n
    BY <1>10, <2>1, <2>2, OutcomeFields, Zenon
  <2>4. r = Is(inner.v, inner.p + 1) BY <1>7, <1>9, <2>3
  <2> QED BY <2>2, <2>3, <2>4
<1>12. ASSUME ~needed PROVE r = Wrong
  <2>1. Stuck(text, inner) BY <1>4, <1>12 DEF Right
  <2>2. ASSUME inner.ok PROVE At(text, inner.p) # Kw(")")
    <3>1. inner.p \in 1..Len(text) /\ Begins(text[inner.p]) BY <2>1, <2>2 DEF Stuck
    <3>2. At(text, inner.p) = text[inner.p] BY <3>1 DEF At
    <3>3. ~Begins(Kw(")")) BY MarksAreNotTheEnd, MarksAreNoValues DEF Begins
    <3> QED BY <3>1, <3>2, <3>3
  <2> QED BY <1>9, <2>2
<1>13. Right(r, text, truth, needed, p + Len(s))
  BY <1>10, <1>11, <1>12, OutcomeFields DEF Right, Stuck
<1> QED BY <1>13 DEF r, truth, needed, s

\* Every condition begins.
LEMMA PrimaryBegins ==
    ASSUME NEW names, NEW x \in Primary(names), NEW texts, Known(x, texts, names)
    PROVE  Len(PrimaryText(x, texts)) >= 1 /\ Begins(PrimaryText(x, texts)[1])
<1> DEFINE s == PrimaryText(x, texts)
<1>1. s \in Seq(Symbols(names)) /\ Len(s) >= 1 /\ PrimaryAt(s, x, texts)
  BY PrimaryPlaces DEF Sentence, NonEmpty
<1>2. s[1] = Id(x.c) \/ s[1] = Kw("(")
  <2> HIDE DEF s
  <2> QED BY <1>1, PrimaryShape DEF PrimaryAt, ComparisonAt, RangeAt, ListAt, ParenAt
<1> HIDE DEF s
<1>3. Begins(s[1]) BY <1>2, MarksAreNoValues DEF Begins
<1> QED BY <1>1, <1>3 DEF s

\* Where each operand and each connecting word stands.
LEMMA Connected ==
    ASSUME NEW S, NEW text \in Seq(S), NEW whole \in Seq(S), NEW p, Spells(text, p, whole),
           NEW n \in Nat \ {0}, NEW parts, Phrases(parts, n, S),
           NEW word, NEW at, PartsAt(at, parts, word, whole)
    PROVE  /\ Starts(at, p, 1) = p /\ Starts(at, p, n) + Len(parts[n]) = p + Len(whole)
           /\ \A k \in 1..n : Spells(text, Starts(at, p, k), parts[k])
           /\ \A k \in 1..n - 1 : /\ Starts(at, p, k) + Len(parts[k]) + 1 = Starts(at, p, k + 1)
                                  /\ At(text, Starts(at, p, k) + Len(parts[k])) = word
<1>0. parts = [k \in 1..n |-> parts[k]] /\ \A k \in 1..n : parts[k] \in Seq(S) BY DEF Phrases
<1>1. Len(parts) = n /\ p \in Nat \ {0} BY <1>0 DEF Spells
<1>2. /\ at \in [1..n + 1 -> Nat \ {0}] /\ at[1] = 1 /\ Len(whole) = at[n + 1] - 2
      /\ \A k \in 1..n : at[k + 1] = at[k] + Len(parts[k]) + 1 /\ Spells(whole, at[k], parts[k])
      /\ \A k \in 1..n - 1 : whole[at[k + 1] - 1] = word
  BY <1>1 DEF PartsAt
<1>3. \A k \in 1..n : Len(parts[k]) \in Nat BY <1>0
<1>4. \A k \in 1..n + 1 : at[k] \in Nat /\ at[k] >= 1 BY <1>2
<1>5. ASSUME NEW k \in 1..n PROVE Spells(text, Starts(at, p, k), parts[k])
  <2>1. Spells(whole, at[k], parts[k]) /\ parts[k] \in Seq(S) BY <1>0, <1>2
  <2> QED BY <2>1, SpelledWithin DEF Starts
<1>6. ASSUME NEW k \in 1..n - 1
      PROVE  /\ Starts(at, p, k) + Len(parts[k]) + 1 = Starts(at, p, k + 1)
             /\ At(text, Starts(at, p, k) + Len(parts[k])) = word
  <2> DEFINE l == Len(parts[k])
             a == at[k]
             b == at[k + 1]
  <2>1. k \in 1..n /\ k + 1 \in 1..n + 1 /\ k \in 1..n + 1 /\ k + 1 \in 1..n OBVIOUS
  <2>2. l \in Nat /\ a \in Nat /\ b \in Nat /\ b = a + l + 1 /\ a >= 1 /\ p \in Nat
    BY <1>1, <1>2, <1>3, <1>4, <2>1
  <2>3. whole[b - 1] = word BY <1>2
  <2>4. b - 1 \in 1..Len(whole)
    <3> DEFINE c == at[k + 2]
               m == Len(parts[k + 1])
               w == Len(whole)
    <3>1. Spells(whole, b, parts[k + 1]) BY <1>2, <2>1
    <3>2. b + m <= w + 1 /\ m \in Nat /\ w \in Nat BY <1>3, <2>1, <3>1 DEF Spells
    <3> HIDE DEF a, b, l, m, w
    <3>3. b - 1 \in 1..w BY <2>2, <3>2
    <3> QED BY <3>3 DEF w
  <2> HIDE DEF a, b, l
  <2>5. At(text, p + (b - 1) - 1) = whole[b - 1] BY <2>4, SpelledAt
  <2>6. p + (b - 1) - 1 = p + a - 1 + l /\ (p + a - 1) + l + 1 = p + b - 1 BY <2>2
  <2> QED BY <2>3, <2>5, <2>6 DEF Starts, a, b, l
<1>7. Starts(at, p, n) + Len(parts[n]) = p + Len(whole)
  <2> DEFINE l == Len(parts[n])
             a == at[n]
             b == at[n + 1]
             w == Len(whole)
  <2>1. n \in 1..n /\ n \in 1..n + 1 /\ n + 1 \in 1..n + 1 OBVIOUS
  <2>2. b = a + l + 1 /\ w = b - 2 /\ a \in Nat /\ b \in Nat /\ l \in Nat BY <1>2, <1>3, <1>4, <2>1
  <2> HIDE DEF a, b, l, w
  <2>3. p + a - 1 + l = p + w BY <1>1, <2>2
  <2> QED BY <2>3 DEF Starts, a, l, w
<1>8. Starts(at, p, 1) = p BY <1>1, <1>2 DEF Starts
<1> QED BY <1>5, <1>6, <1>7, <1>8

\* What parseOr finds wherever a part stands that is followed by neither AND
\* nor OR.
RightWherever(found, text, s, meaning) ==
    \A q \in 1..Len(text) + 1 :
        Spells(text, q, s) /\ At(text, q + Len(s)) \notin {Kw("AND"), Kw("OR")}
        => Right(found[q], text, meaning.truth, meaning.needed, q + Len(s))
InnerRight(x, nested, text, texts, done) ==
    x.p = "paren" => RightWherever(nested, text, texts[x.of], done[x.of])

\* parsePrimary, of whatever kind the condition is.
LEMMA PrimaryRight ==
    ASSUME NEW names, NEW text \in Seq(Symbols(names)), NEW x \in Primary(names), NEW nested \in Onward(text),
           NEW texts, NEW done, NEW row, NEW p, Known(x, texts, names),
           InnerRight(x, nested, text, texts, done), Spells(text, p, PrimaryText(x, texts))
    PROVE  Operand(text, p, p + Len(PrimaryText(x, texts)), ParsePrimary(nested, text, p, row),
                   PrimaryTruth(x, row, done), PrimaryNeeded(x, row, done))
           /\ PrimaryTruth(x, row, done) \in BOOLEAN
<1> DEFINE s == PrimaryText(x, texts)
           r == ParsePrimary(nested, text, p, row)
           truth == PrimaryTruth(x, row, done)
           needed == PrimaryNeeded(x, row, done)
<1>1. Len(s) >= 1 /\ Begins(s[1]) /\ s \in Seq(Symbols(names)) /\ PrimaryAt(s, x, texts)
  BY PrimaryBegins, PrimaryPlaces DEF Sentence, NonEmpty
<1>2. /\ p \in Nat \ {0} /\ p + Len(s) - 1 <= Len(text)
      /\ \A j \in 1..Len(s) : p + j - 1 \in 1..Len(text) /\ text[p + j - 1] = s[j] /\ At(text, p + j - 1) = s[j]
  <2>1. Spells(text, p, s) OBVIOUS
  <2> HIDE DEF s
  <2> QED BY <1>1, <2>1, SpelledAt
<1>3. p \in 1..Len(text) /\ p \in Nat /\ text[p] = s[1] /\ p + Len(s) \in Nat
  <2> HIDE DEF s
  <2>1. 1 \in 1..Len(s) /\ p + 1 - 1 = p BY <1>1, <1>2
  <2> QED BY <1>1, <1>2, <2>1
<1>4. ASSUME x.p = "paren" PROVE Right(r, text, truth, needed, p + Len(s))
  <2> DEFINE u == texts[x.of]
             q == p + 1
  <2>1. u \in Seq(Symbols(names)) BY <1>4 DEF Known, Sentence, NonEmpty
  <2>2. Len(s) = Len(u) + 2 /\ s[Len(u) + 2] = Kw(")") /\ Spells(s, 2, u)
    BY <1>1, <1>4 DEF PrimaryAt, ParenAt
  <2>3. Spells(text, q, u)
    <3>1. Spells(text, p, s) /\ p + 2 - 1 = p + 1 BY <1>2
    <3>2. Spells(text, p + 2 - 1, u)
      <4> HIDE DEF s, u
      <4> QED BY <1>1, <2>1, <2>2, <3>1, SpelledWithin
    <3> QED BY <3>1, <3>2
  <2>4. At(text, q + Len(u)) = Kw(")") /\ q \in 1..Len(text) + 1
    <3> HIDE DEF s, u
    <3>1. Len(u) \in Nat /\ Len(u) + 2 \in 1..Len(s) /\ p + (Len(u) + 2) - 1 = p + 1 + Len(u)
      BY <1>2, <2>1, <2>2
    <3>2. p + 1 \in 1..Len(text) + 1 BY <1>3
    <3> QED BY <1>2, <2>2, <3>1, <3>2
  <2>5. RightWherever(nested, text, u, done[x.of]) BY <1>4 DEF InnerRight
  <2>6. Right(nested[q], text, done[x.of].truth, done[x.of].needed, q + Len(u))
    <3> HIDE DEF q, u
    <3>1. At(text, q + Len(u)) \notin {Kw("AND"), Kw("OR")} BY <2>4, MarksAreNotTheEnd
    <3> QED BY <2>3, <2>4, <2>5, <3>1 DEF RightWherever
  <2>7. Right(r, text, truth, needed, p + Len(s)) BY <1>4, <2>6, ParenRight
  <2> QED BY <2>7
<1>5. ASSUME x.p # "paren" PROVE Right(r, text, truth, needed, p + Len(s))
  <2>1. Right(r, text, truth, needed, p + Len(s))
    BY <1>5, PrimaryShape, ComparisonRight, RangeRight, ListRight
  <2> QED BY <2>1
<1>6. r \in Outcome
  <2>1. p \in 1..Len(text) + 1 BY <1>3
  <2> QED BY <2>1, PrimaryMoves
<1>7. Right(r, text, truth, needed, p + Len(s)) BY <1>4, <1>5
<1>8. Begins(text[p]) BY <1>1, <1>3
<1> HIDE DEF s, r, truth, needed
<1>9. Operand(text, p, p + Len(s), r, truth, needed) /\ truth \in BOOLEAN
  BY <1>3, <1>6, <1>7, <1>8 DEF Operand, Right
<1> QED BY <1>9 DEF s, r, truth, needed

\* parseAnd, where what it reads is spelled and not followed by AND.
LEMMA AndRight ==
    ASSUME NEW names, NEW text \in Seq(Symbols(names)), NEW and \in NonEmpty(Primary(names)),
           NEW nested \in Onward(text), NEW texts, NEW done, NEW row, NEW p,
           \A m \in DOMAIN and : Known(and[m], texts, names) /\ InnerRight(and[m], nested, text, texts, done),
           Spells(text, p, AndText(and, texts)), At(text, p + Len(AndText(and, texts))) # Kw("AND")
    PROVE  /\ Operand(text, p, p + Len(AndText(and, texts)), ParseAnd(nested, text, p, row),
                      AndTruth(and, row, done), AndNeeded(and, row, done))
           /\ AndTruth(and, row, done) \in BOOLEAN
<1> DEFINE n == Len(and)
           whole == AndText(and, texts)
           parts == AndParts(and, texts)
           turn == AndTurn(nested, text, row)
<1>1. n \in Nat \ {0} /\ DOMAIN and = 1..n /\ \A k \in 1..n : and[k] \in Primary(names)
  BY DEF NonEmpty
<1>2. parts = [k \in 1..n |-> PrimaryText(and[k], texts)] BY <1>1 DEF AndParts
<1>3. parts = [k \in 1..n |-> parts[k]] /\ \A k \in 1..n : parts[k] = PrimaryText(and[k], texts)
  <2> HIDE DEF parts
  <2> QED BY <1>2
<1>4. \A k \in 1..n : parts[k] \in Seq(Symbols(names))
  BY <1>1, <1>3, PrimaryPlaces DEF Sentence, NonEmpty
<1>5. whole \in Seq(Symbols(names)) /\ \E at : PartsAt(at, parts, Kw("AND"), whole)
  BY AndPlaces DEF Sentence, NonEmpty
<1>6. PICK at : PartsAt(at, parts, Kw("AND"), whole) BY <1>5
<1> HIDE DEF n, whole, parts, turn
<1> DEFINE s == [k \in 1..n |-> Starts(at, p, k)]
           e == [k \in 1..n |-> s[k] + Len(parts[k])]
           res == [k \in 1..n |-> ParsePrimary(nested, text, s[k], row)]
           truth == [k \in 1..n |-> PrimaryTruth(and[k], row, done)]
           needed == {k \in 1..n : PrimaryNeeded(and[k], row, done)}
           go == {k \in 1..n : truth[k]}
<1>7. /\ s[1] = p /\ e[n] = p + Len(whole)
      /\ \A k \in 1..n : Spells(text, s[k], parts[k])
      /\ \A k \in 1..n - 1 : e[k] + 1 = s[k + 1] /\ At(text, e[k]) = Kw("AND")
  <2>1. /\ Starts(at, p, 1) = p /\ Starts(at, p, n) + Len(parts[n]) = p + Len(whole)
        /\ \A k \in 1..n : Spells(text, Starts(at, p, k), parts[k])
        /\ \A k \in 1..n - 1 : /\ Starts(at, p, k) + Len(parts[k]) + 1 = Starts(at, p, k + 1)
                               /\ At(text, Starts(at, p, k) + Len(parts[k])) = Kw("AND")
    <3>1. Spells(text, p, whole) BY DEF whole
    <3>2. Phrases(parts, n, Symbols(names)) BY <1>3, <1>4 DEF Phrases
    <3> QED BY <1>1, <1>5, <1>6, <3>1, <3>2, Connected
  <2>2. 1 \in 1..n /\ n \in 1..n /\ \A k \in 1..n - 1 : k \in 1..n /\ k + 1 \in 1..n BY <1>1
  <2> QED BY <2>1, <2>2
<1>8. ASSUME NEW k \in 1..n
      PROVE  Operand(text, s[k], e[k], res[k], truth[k], k \in needed) /\ truth[k] \in BOOLEAN
  <2> DEFINE x == and[k]
             q == s[k]
  <2>1. x \in Primary(names) /\ Known(x, texts, names) /\ InnerRight(x, nested, text, texts, done)
    BY <1>1
  <2>2. Spells(text, q, PrimaryText(x, texts)) BY <1>3, <1>7
  <2>3. /\ e[k] = q + Len(PrimaryText(x, texts)) /\ res[k] = ParsePrimary(nested, text, q, row)
        /\ truth[k] = PrimaryTruth(x, row, done) /\ (k \in needed <=> PrimaryNeeded(x, row, done))
    BY <1>3
  <2> HIDE DEF x, q, e, res, truth, needed
  <2>4. /\ Operand(text, q, q + Len(PrimaryText(x, texts)), ParsePrimary(nested, text, q, row),
                   PrimaryTruth(x, row, done), PrimaryNeeded(x, row, done))
        /\ PrimaryTruth(x, row, done) \in BOOLEAN
    BY <2>1, <2>2, PrimaryRight
  <2>5. Operand(text, q, e[k], res[k], truth[k], k \in needed) /\ truth[k] \in BOOLEAN
    BY <2>3, <2>4 DEF Operand
  <2> QED BY <2>5 DEF q
<1>9. truth \in [1..n -> BOOLEAN]
  <2>1. truth = [k \in 1..n |-> truth[k]] OBVIOUS
  <2> HIDE DEF truth
  <2> QED BY <1>8, <2>1
<1>10. ASSUME NEW k \in 1..n - 1
       PROVE  /\ At(text, e[k]) = Kw("AND")
              /\ k \in go => turn[Is(truth[k], e[k])] = res[k + 1]
              /\ k \notin go => turn[Is(truth[k], e[k])] = Is(truth[k], s[k + 1])
  <2> DEFINE x == Is(truth[k], e[k])
  <2>1. k \in 1..n /\ k + 1 \in 1..n /\ truth[k] \in BOOLEAN /\ e[k] \in Nat
    <3>1. k \in 1..n /\ k + 1 \in 1..n BY <1>1
    <3> HIDE DEF s, e, res, truth, needed
    <3> QED BY <1>8, <3>1 DEF Operand
  <2>2. At(text, e[k]) = Kw("AND") /\ e[k] + 1 = s[k + 1] BY <1>7
  <2>3. (k \in go <=> truth[k]) /\ res[k + 1] = ParsePrimary(nested, text, s[k + 1], row) BY <2>1
  <2> HIDE DEF s, e, res, truth, needed, go
  <2>4. x \in Outcome /\ x.ok /\ x.v = truth[k] /\ x.p = e[k] BY <2>1, OutcomeFields, Zenon
  <2> HIDE DEF x
  <2>5. turn[x] = IF ~x.ok \/ At(text, x.p) # Kw("AND") THEN x
                  ELSE IF x.v THEN ParsePrimary(nested, text, x.p + 1, row) ELSE Is(FALSE, x.p + 1)
    BY <2>4, Zenon DEF AndTurn, turn
  <2>6. CASE truth[k]
    <3>1. turn[x] = ParsePrimary(nested, text, x.p + 1, row) BY <2>2, <2>4, <2>5, <2>6
    <3> QED BY <2>2, <2>3, <2>4, <2>6, <3>1 DEF x
  <2>7. CASE ~truth[k]
    <3>1. turn[x] = Is(FALSE, x.p + 1) /\ truth[k] = FALSE BY <2>1, <2>2, <2>4, <2>5, <2>7
    <3> QED BY <2>2, <2>3, <2>4, <2>7, <3>1 DEF x
  <2> QED BY <2>6, <2>7
<1>11. At(text, e[n]) # Kw("AND") BY <1>7 DEF whole
<1>12. Chain(text, Kw("AND"), turn, n, s, e, res, truth, needed, go)
  <2> HIDE DEF s, e, res, truth, needed, go
  <2> QED BY <1>1, <1>8, <1>9, <1>10, <1>11 DEF Chain
<1>13. PICK more : /\ IsLoop(more, text, Kw("AND"), turn)
                   /\ \A q : ParseAnd(nested, text, q, row) = more[ParsePrimary(nested, text, q, row)]
  BY ParseAndIs DEF turn
<1> DEFINE all == 1..n \subseteq needed /\ 1..n - 1 \subseteq go
           r == ParseAnd(nested, text, p, row)
<1>14. /\ all => r = Is(truth[n], e[n])
       /\ ~all => Stuck(text, r)
  <2>1. r = more[res[1]]
    <3>1. 1 \in 1..n BY <1>1
    <3> QED BY <1>7, <1>13, <3>1
  <2>2. Kw("AND") # End /\ ~Begins(Kw("AND")) BY MarksAreNotTheEnd, MarksAreNoValues DEF Begins
  <2> HIDE DEF s, e, res, truth, needed, go, r
  <2>3. /\ all => more[res[1]] = Is(truth[n], e[n])
        /\ ~all => Stuck(text, more[res[1]])
    BY <1>12, <1>13, <2>2, ChainRuns
  <2> QED BY <2>1, <2>3
<1>15. (AndNeeded(and, row, done) <=> all) /\ (AndTruth(and, row, done) <=> \A k \in 1..n : truth[k])
  <2>1. AndTruth(and, row, done) <=> \A k \in 1..n : truth[k] BY <1>1 DEF AndTruth
  <2>2. AndNeeded(and, row, done) <=> /\ \A k \in 1..n - 1 : PrimaryTruth(and[k], row, done)
                                      /\ \A k \in 1..n : PrimaryNeeded(and[k], row, done)
    BY <1>1 DEF AndNeeded, n
  <2>3. (\A k \in 1..n - 1 : PrimaryTruth(and[k], row, done)) <=> 1..n - 1 \subseteq go
    <3>1. \A k \in 1..n - 1 : k \in 1..n BY <1>1
    <3> QED BY <3>1
  <2>4. (\A k \in 1..n : PrimaryNeeded(and[k], row, done)) <=> 1..n \subseteq needed OBVIOUS
  <2> QED BY <2>1, <2>2, <2>3, <2>4
<1>16. AndTruth(and, row, done) \in BOOLEAN BY Zenon DEF AndTruth
<1>17. all => AndTruth(and, row, done) = truth[n]
  <2>1. n \in 1..n /\ \A k \in 1..n : k = n \/ k \in 1..n - 1 BY <1>1
  <2>2. \A k \in go : truth[k] OBVIOUS
  <2>3. truth[n] \in BOOLEAN BY <1>8, <2>1
  <2> HIDE DEF truth, go, needed
  <2>4. all => (AndTruth(and, row, done) <=> truth[n]) BY <1>15, <2>1, <2>2
  <2> QED BY <1>16, <2>3, <2>4
<1>18. p \in 1..Len(text) /\ Begins(text[p]) /\ e[n] \in Nat
  <2>1. 1 \in 1..n /\ n \in 1..n BY <1>1
  <2>2. Operand(text, s[1], e[1], res[1], truth[1], 1 \in needed) /\ Operand(text, s[n], e[n], res[n], truth[n], n \in needed)
    BY <1>8, <2>1
  <2> HIDE DEF s, e, res, truth, needed, go
  <2> QED BY <1>7, <2>2 DEF Operand
<1>19. r \in Outcome
  <2>1. p \in 1..Len(text) + 1 BY <1>18
  <2> QED BY <2>1, AndMoves
<1> DEFINE t == AndTruth(and, row, done)
           d == AndNeeded(and, row, done)
<1>20. /\ d => r = Is(t, p + Len(whole))
       /\ ~d => Stuck(text, r)
       /\ p + Len(whole) \in Nat
  <2>1. e[n] = p + Len(whole) BY <1>7
  <2> HIDE DEF s, e, res, truth, needed, go, r, all
  <2> QED BY <1>14, <1>15, <1>17, <1>18, <2>1
<1> HIDE DEF s, e, res, truth, needed, go, r, all, t, d
<1>21. Operand(text, p, p + Len(whole), r, t, d) BY <1>18, <1>19, <1>20 DEF Operand
<1> QED BY <1>16, <1>21 DEF r, t, d, whole

\* parseOr, where what it reads is spelled and followed by neither AND nor OR.
AllInnerRight(part, nested, text, texts, done) ==
    \A k \in DOMAIN part : \A m \in DOMAIN part[k] : InnerRight(part[k][m], nested, text, texts, done)
LEMMA OrRight ==
    ASSUME NEW names, NEW text \in Seq(Symbols(names)), NEW part \in Part(names),
           NEW nested \in Onward(text), NEW texts, NEW done, NEW row, NEW p,
           AllKnown(part, texts, names), AllInnerRight(part, nested, text, texts, done),
           Spells(text, p, OrText(part, texts)),
           At(text, p + Len(OrText(part, texts))) \notin {Kw("AND"), Kw("OR")}
    PROVE  Right(ParseOr(nested, text, p, row), text, OrTruth(part, row, done),
                 OrNeeded(part, row, done), p + Len(OrText(part, texts)))
<1> DEFINE n == Len(part)
           whole == OrText(part, texts)
           parts == OrParts(part, texts)
           turn == OrTurn(nested, text, row)
<1>1. n \in Nat \ {0} /\ DOMAIN part = 1..n /\ \A k \in 1..n : part[k] \in NonEmpty(Primary(names))
  BY DEF NonEmpty, Part
<1>2. parts = [k \in 1..n |-> AndText(part[k], texts)] BY <1>1 DEF OrParts
<1>3. parts = [k \in 1..n |-> parts[k]] /\ \A k \in 1..n : parts[k] = AndText(part[k], texts)
  <2> HIDE DEF parts
  <2> QED BY <1>2
<1>4. \A k \in 1..n : parts[k] \in Seq(Symbols(names))
  BY <1>1, <1>3, AndPlaces DEF AllKnown, Sentence, NonEmpty
<1>5. whole \in Seq(Symbols(names)) /\ \E at : PartsAt(at, parts, Kw("OR"), whole)
  BY OrPlaces DEF Sentence, NonEmpty
<1>6. PICK at : PartsAt(at, parts, Kw("OR"), whole) BY <1>5
<1> HIDE DEF n, whole, parts, turn
<1> DEFINE s == [k \in 1..n |-> Starts(at, p, k)]
           e == [k \in 1..n |-> s[k] + Len(parts[k])]
           res == [k \in 1..n |-> ParseAnd(nested, text, s[k], row)]
           truth == [k \in 1..n |-> AndTruth(part[k], row, done)]
           needed == {k \in 1..n : AndNeeded(part[k], row, done)}
           go == {k \in 1..n : ~truth[k]}
<1>7. /\ s[1] = p /\ e[n] = p + Len(whole)
      /\ \A k \in 1..n : Spells(text, s[k], parts[k])
      /\ \A k \in 1..n - 1 : e[k] + 1 = s[k + 1] /\ At(text, e[k]) = Kw("OR")
  <2>1. /\ Starts(at, p, 1) = p /\ Starts(at, p, n) + Len(parts[n]) = p + Len(whole)
        /\ \A k \in 1..n : Spells(text, Starts(at, p, k), parts[k])
        /\ \A k \in 1..n - 1 : /\ Starts(at, p, k) + Len(parts[k]) + 1 = Starts(at, p, k + 1)
                               /\ At(text, Starts(at, p, k) + Len(parts[k])) = Kw("OR")
    <3>1. Spells(text, p, whole) BY DEF whole
    <3>2. Phrases(parts, n, Symbols(names)) BY <1>3, <1>4 DEF Phrases
    <3> QED BY <1>1, <1>5, <1>6, <3>1, <3>2, Connected
  <2>2. 1 \in 1..n /\ n \in 1..n /\ \A k \in 1..n - 1 : k \in 1..n /\ k + 1 \in 1..n BY <1>1
  <2> QED BY <2>1, <2>2
<1>8. ASSUME NEW k \in 1..n
      PROVE  Operand(text, s[k], e[k], res[k], truth[k], k \in needed) /\ truth[k] \in BOOLEAN
  <2> DEFINE x == part[k]
             q == s[k]
  <2>1. /\ x \in NonEmpty(Primary(names))
        /\ \A m \in DOMAIN x : Known(x[m], texts, names) /\ InnerRight(x[m], nested, text, texts, done)
    BY <1>1 DEF AllKnown, AllInnerRight
  <2>2. Spells(text, q, AndText(x, texts)) BY <1>3, <1>7
  <2>3. /\ e[k] = q + Len(AndText(x, texts)) /\ res[k] = ParseAnd(nested, text, q, row)
        /\ truth[k] = AndTruth(x, row, done) /\ (k \in needed <=> AndNeeded(x, row, done))
    BY <1>3
  <2>a. At(text, e[k]) # Kw("AND")
    <3>1. k = n \/ k \in 1..n - 1 BY <1>1
    <3>2. At(text, e[n]) # Kw("AND") BY <1>7 DEF whole
    <3>3. Kw("OR") # Kw("AND") BY TokensDiffer DEF Kw
    <3>4. \A j \in 1..n - 1 : At(text, e[j]) = Kw("OR") BY <1>7
    <3> HIDE DEF e, s, x, q, res, truth, needed
    <3> QED BY <3>1, <3>2, <3>3, <3>4
  <2> HIDE DEF x, q, e, res, truth, needed
  <2>4. At(text, q + Len(AndText(x, texts))) # Kw("AND") BY <2>3, <2>a
  <2>5. /\ Operand(text, q, q + Len(AndText(x, texts)), ParseAnd(nested, text, q, row),
                   AndTruth(x, row, done), AndNeeded(x, row, done))
        /\ AndTruth(x, row, done) \in BOOLEAN
    BY <2>1, <2>2, <2>4, AndRight
  <2>6. Operand(text, q, e[k], res[k], truth[k], k \in needed) /\ truth[k] \in BOOLEAN
    BY <2>3, <2>5 DEF Operand
  <2> QED BY <2>6 DEF q
<1>9. truth \in [1..n -> BOOLEAN]
  <2>1. truth = [k \in 1..n |-> truth[k]] OBVIOUS
  <2> HIDE DEF truth
  <2> QED BY <1>8, <2>1
<1>10. ASSUME NEW k \in 1..n - 1
       PROVE  /\ At(text, e[k]) = Kw("OR")
              /\ k \in go => turn[Is(truth[k], e[k])] = res[k + 1]
              /\ k \notin go => turn[Is(truth[k], e[k])] = Is(truth[k], s[k + 1])
  <2> DEFINE x == Is(truth[k], e[k])
  <2>1. k \in 1..n /\ k + 1 \in 1..n /\ truth[k] \in BOOLEAN /\ e[k] \in Nat
    <3>1. k \in 1..n /\ k + 1 \in 1..n BY <1>1
    <3> HIDE DEF s, e, res, truth, needed
    <3> QED BY <1>8, <3>1 DEF Operand
  <2>2. At(text, e[k]) = Kw("OR") /\ e[k] + 1 = s[k + 1] BY <1>7
  <2>3. (k \in go <=> ~truth[k]) /\ res[k + 1] = ParseAnd(nested, text, s[k + 1], row) BY <2>1
  <2> HIDE DEF s, e, res, truth, needed, go
  <2>4. x \in Outcome /\ x.ok /\ x.v = truth[k] /\ x.p = e[k] BY <2>1, OutcomeFields, Zenon
  <2> HIDE DEF x
  <2>5. turn[x] = IF ~x.ok \/ At(text, x.p) # Kw("OR") THEN x
                  ELSE IF x.v THEN Is(TRUE, x.p + 1) ELSE ParseAnd(nested, text, x.p + 1, row)
    BY <2>4, Zenon DEF OrTurn, turn
  <2>6. CASE ~truth[k]
    <3>1. turn[x] = ParseAnd(nested, text, x.p + 1, row) BY <2>2, <2>4, <2>5, <2>6
    <3> QED BY <2>2, <2>3, <2>4, <2>6, <3>1 DEF x
  <2>7. CASE truth[k]
    <3>1. turn[x] = Is(TRUE, x.p + 1) /\ truth[k] = TRUE BY <2>1, <2>2, <2>4, <2>5, <2>7
    <3> QED BY <2>2, <2>3, <2>4, <2>7, <3>1 DEF x
  <2> QED BY <2>1, <2>6, <2>7
<1>11. At(text, e[n]) # Kw("OR") BY <1>7 DEF whole
<1>12. Chain(text, Kw("OR"), turn, n, s, e, res, truth, needed, go)
  <2> HIDE DEF s, e, res, truth, needed, go
  <2> QED BY <1>1, <1>8, <1>9, <1>10, <1>11 DEF Chain
<1>13. PICK more : /\ IsLoop(more, text, Kw("OR"), turn)
                   /\ \A q : ParseOr(nested, text, q, row) = more[ParseAnd(nested, text, q, row)]
  BY ParseOrIs DEF turn
<1> DEFINE all == 1..n \subseteq needed /\ 1..n - 1 \subseteq go
           r == ParseOr(nested, text, p, row)
<1>14. /\ all => r = Is(truth[n], e[n])
       /\ ~all => Stuck(text, r)
  <2>1. r = more[res[1]]
    <3>1. 1 \in 1..n BY <1>1
    <3> QED BY <1>7, <1>13, <3>1
  <2>2. Kw("OR") # End /\ ~Begins(Kw("OR")) BY MarksAreNotTheEnd, MarksAreNoValues DEF Begins
  <2> HIDE DEF s, e, res, truth, needed, go, r
  <2>3. /\ all => more[res[1]] = Is(truth[n], e[n])
        /\ ~all => Stuck(text, more[res[1]])
    BY <1>12, <1>13, <2>2, ChainRuns
  <2> QED BY <2>1, <2>3
<1>15. (OrNeeded(part, row, done) <=> all) /\ (OrTruth(part, row, done) <=> \E k \in 1..n : truth[k])
  <2>1. OrTruth(part, row, done) <=> \E k \in 1..n : truth[k] BY <1>1 DEF OrTruth
  <2>2. OrNeeded(part, row, done) <=> /\ \A k \in 1..n - 1 : ~AndTruth(part[k], row, done)
                                      /\ \A k \in 1..n : AndNeeded(part[k], row, done)
    BY <1>1 DEF OrNeeded, n
  <2>3. (\A k \in 1..n - 1 : ~AndTruth(part[k], row, done)) <=> 1..n - 1 \subseteq go
    <3>1. \A k \in 1..n - 1 : k \in 1..n BY <1>1
    <3> QED BY <3>1
  <2>4. (\A k \in 1..n : AndNeeded(part[k], row, done)) <=> 1..n \subseteq needed OBVIOUS
  <2> QED BY <2>1, <2>2, <2>3, <2>4
<1>16. OrTruth(part, row, done) \in BOOLEAN BY Zenon DEF OrTruth
<1>17. all => OrTruth(part, row, done) = truth[n]
  <2>1. n \in 1..n /\ \A k \in 1..n : k = n \/ k \in 1..n - 1 BY <1>1
  <2>2. \A k \in go : ~truth[k] OBVIOUS
  <2>3. truth[n] \in BOOLEAN BY <1>8, <2>1
  <2> HIDE DEF truth, go, needed
  <2>4. all => (OrTruth(part, row, done) <=> truth[n]) BY <1>15, <2>1, <2>2
  <2> QED BY <1>16, <2>3, <2>4
<1>18. p \in 1..Len(text) /\ Begins(text[p]) /\ e[n] \in Nat
  <2>1. 1 \in 1..n /\ n \in 1..n BY <1>1
  <2>2. Operand(text, s[1], e[1], res[1], truth[1], 1 \in needed) /\ Operand(text, s[n], e[n], res[n], truth[n], n \in needed)
    BY <1>8, <2>1
  <2> HIDE DEF s, e, res, truth, needed, go
  <2> QED BY <1>7, <2>2 DEF Operand
<1>19. r \in Outcome
  <2>1. p \in 1..Len(text) + 1 BY <1>18
  <2> QED BY <2>1, OrMoves
<1> DEFINE t == OrTruth(part, row, done)
           d == OrNeeded(part, row, done)
<1>20. /\ d => r = Is(t, p + Len(whole))
       /\ ~d => Stuck(text, r)
       /\ p + Len(whole) \in Nat
  <2>1. e[n] = p + Len(whole) BY <1>7
  <2> HIDE DEF s, e, res, truth, needed, go, r, all
  <2> QED BY <1>14, <1>15, <1>17, <1>18, <2>1
<1> HIDE DEF s, e, res, truth, needed, go, r, all, t, d
<1>21. Right(r, text, t, d, p + Len(whole)) BY <1>16, <1>20 DEF Right, t
<1> QED BY <1>21 DEF r, t, d, whole

\* What a part says, of the parts before it.
Meaning == [truth : BOOLEAN, needed : BOOLEAN]
MeaningOf(part, row, done) ==
    [truth |-> OrTruth(part, row, done), needed |-> OrNeeded(part, row, done)]

LEMMA MeaningTyped ==
    ASSUME NEW part, NEW row, NEW done
    PROVE  /\ MeaningOf(part, row, done) \in Meaning
           /\ MeaningOf(part, row, done).truth = OrTruth(part, row, done)
           /\ MeaningOf(part, row, done).needed = OrNeeded(part, row, done)
<1> DEFINE t == OrTruth(part, row, done)
           d == OrNeeded(part, row, done)
           m == MeaningOf(part, row, done)
<1>1. t \in BOOLEAN BY Zenon DEF OrTruth
<1>2. d \in BOOLEAN BY Zenon DEF OrNeeded
<1>3. m = [truth |-> t, needed |-> d] BY Zenon DEF MeaningOf
<1> HIDE DEF t, d, m
<1>4. m \in Meaning /\ m.truth = t /\ m.needed = d BY <1>1, <1>2, <1>3 DEF Meaning
<1> QED BY <1>4 DEF t, d, m

\* A part's meaning depends on those of the parts in its parentheses only.
LEMMA MeaningAgrees ==
    ASSUME NEW names, NEW part \in Part(names), NEW row, NEW x, NEW y, Agree(part, x, y)
    PROVE  MeaningOf(part, row, x) = MeaningOf(part, row, y)
<1>1. ASSUME NEW k \in DOMAIN part
      PROVE  \A m \in DOMAIN part[k] :
                /\ PrimaryTruth(part[k][m], row, x) = PrimaryTruth(part[k][m], row, y)
                /\ PrimaryNeeded(part[k][m], row, x) = PrimaryNeeded(part[k][m], row, y)
  <2> TAKE m \in DOMAIN part[k]
  <2> DEFINE p == part[k][m]
  <2>1. p.p = "paren" => x[p.of] = y[p.of] BY DEF Agree
  <2> HIDE DEF p
  <2>2. CASE p.p = "paren"
    <3>1. /\ PrimaryTruth(p, row, x) = x[p.of].truth /\ PrimaryNeeded(p, row, x) = x[p.of].needed
          /\ PrimaryTruth(p, row, y) = y[p.of].truth /\ PrimaryNeeded(p, row, y) = y[p.of].needed
      BY <2>2, TruthIs
    <3>2. x[p.of] = y[p.of] BY <2>1, <2>2
    <3> QED BY <3>1, <3>2 DEF p
  <2>3. CASE p.p # "paren"
    <3> DEFINE a == p.c \in DOMAIN row /\ Satisfies(Compared(p.c, p.v, row), p.op)
               b == p.c \in DOMAIN row /\ Compared(p.c, p.lo, row) >= 0 /\ Compared(p.c, p.hi, row) <= 0
               c == /\ p.c \in DOMAIN row
                    /\ (\E j \in DOMAIN p.items : Compared(p.c, p.items[j], row) = 0) # p.negated
    <3>a. \A z : /\ p.p = "cmp" => PrimaryTruth(p, row, z) = a
                 /\ p.p = "between" => PrimaryTruth(p, row, z) = b
                 /\ p.p = "in" => PrimaryTruth(p, row, z) = c
                 /\ PrimaryNeeded(p, row, z) = (p.c \in DOMAIN row)
      BY <2>3, TruthIs
    <3>b. p.p \in {"cmp", "between", "in"}
      <4>1. p \in Primary(names)
        <5>1. part \in Seq(NonEmpty(Primary(names))) BY DEF Part, NonEmpty
        <5> DEFINE and == part[k]
        <5>2. and \in Seq(Primary(names)) BY <5>1 DEF NonEmpty
        <5>3. m \in DOMAIN and OBVIOUS
        <5> HIDE DEF and
        <5>4. and[m] \in Primary(names) BY <5>2, <5>3
        <5> QED BY <5>4 DEF and, p
      <4> QED BY <2>3, <4>1, PrimaryShape
    <3> HIDE DEF a, b, c
    <3>1. PrimaryTruth(p, row, x) = PrimaryTruth(p, row, y) BY <3>a, <3>b
    <3>2. PrimaryNeeded(p, row, x) = PrimaryNeeded(p, row, y) BY <3>a
    <3> QED BY <3>1, <3>2 DEF p
  <2> QED BY <2>2, <2>3
<1>2. ASSUME NEW k \in DOMAIN part
      PROVE  AndTruth(part[k], row, x) <=> AndTruth(part[k], row, y) BY <1>1, Zenon DEF AndTruth
<1>3. /\ DOMAIN part = 1..Len(part) /\ Len(part) \in Nat \ {0}
      /\ \A k \in DOMAIN part : part[k] \in NonEmpty(Primary(names))
  BY DEF Part, NonEmpty
<1>4. ASSUME NEW k \in DOMAIN part
      PROVE  AndNeeded(part[k], row, x) <=> AndNeeded(part[k], row, y)
  <2> DEFINE and == part[k]
  <2>1. and \in NonEmpty(Primary(names)) BY <1>3
  <2> HIDE DEF and
  <2>2. \A m \in 1..Len(and) - 1 : m \in DOMAIN and BY <2>1 DEF NonEmpty
  <2>3. \A m \in 1..Len(part[k]) - 1 : m \in DOMAIN part[k] BY <2>2 DEF and
  <2> QED BY <1>1, <2>3, Zenon DEF AndNeeded
<1>5. OrTruth(part, row, x) <=> OrTruth(part, row, y) BY <1>2, Zenon DEF OrTruth
<1>6. OrNeeded(part, row, x) <=> OrNeeded(part, row, y)
  <2>1. \A k \in 1..Len(part) - 1 : k \in DOMAIN part BY <1>3
  <2> QED BY <1>2, <1>4, <2>1, Zenon DEF OrNeeded
<1>7. \A z : OrTruth(part, row, z) \in BOOLEAN /\ OrNeeded(part, row, z) \in BOOLEAN
  BY Zenon DEF OrTruth, OrNeeded
<1>8. OrTruth(part, row, x) = OrTruth(part, row, y) /\ OrNeeded(part, row, x) = OrNeeded(part, row, y)
  BY <1>5, <1>6, <1>7
<1> QED BY <1>8, Zenon DEF MeaningOf

\* The meanings of an expression are those of its parts, each with the others.
LEMMA MeaningsOf ==
    ASSUME NEW names, NEW e \in Expression(names), NEW row
    PROVE  /\ Meanings(e, row) \in Seq(Meaning) /\ Len(Meanings(e, row)) = Len(e)
           /\ \A i \in 1..Len(e) : Meanings(e, row)[i] = MeaningOf(e[i], row, Meanings(e, row))
<1> DEFINE n == Len(e)
           V == Meaning
           Chosen(f) == f = [i \in 0..n |-> IF i = 0 THEN <<>>
                                            ELSE Append(f[i - 1], [truth |-> OrTruth(e[i], row, f[i - 1]),
                                                                   needed |-> OrNeeded(e[i], row, f[i - 1])])]
           F == CHOOSE f : Chosen(f)
<1>1. Meanings(e, row) = F[n] BY Zenon DEF Meanings
<1>2. n \in Nat \ {0} /\ DOMAIN e = 1..n /\ \A i \in 1..n : e[i] \in Part(names) BY ExpressionParts
<1> DEFINE step == [q \in (1..n) \X Seq(V) |-> Append(q[2], MeaningOf(e[q[1]], row, q[2]))]
<1>3. ASSUME NEW i \in 1..n, NEW x \in Seq(V)
      PROVE  step[<<i, x>>] = Append(x, MeaningOf(e[i], row, x)) /\ step[<<i, x>>] \in Seq(V)
  <2>1. step[<<i, x>>] = Append(x, MeaningOf(e[i], row, x))
    <3>1. <<i, x>> \in (1..n) \X Seq(V) /\ <<i, x>>[1] = i /\ <<i, x>>[2] = x OBVIOUS
    <3> QED BY <3>1, Zenon
  <2>2. MeaningOf(e[i], row, x) \in V BY MeaningTyped
  <2> HIDE DEF step, V
  <2> QED BY <2>1, <2>2, AppendProperties
<1>4. \E f : Chosen(f)
  <2>1. Turns(n, Seq(V), step) /\ <<>> \in Seq(V)
    <3> HIDE DEF step, V
    <3> QED BY <1>3 DEF Turns
  <2>2. PICK h \in [0..n -> Seq(V)] : IsTrace(h, n, <<>>, step)
    <3> HIDE DEF step, V, n
    <3> QED BY <1>2, <2>1, TraceExists
  <2>3. h[0] = <<>> /\ \A i \in 1..n : h[i] = step[<<i, h[i - 1]>>] BY <2>2 DEF IsTrace
  <2> HIDE DEF step, V, n
  <2>4. ASSUME NEW i \in 0..n
        PROVE  h[i] = IF i = 0 THEN <<>> ELSE Append(h[i - 1], MeaningOf(e[i], row, h[i - 1]))
    <3>1. CASE i = 0 BY <2>3, <3>1
    <3>2. CASE i # 0
      <4>1. i \in 1..n /\ i - 1 \in 0..n BY <1>2, <3>2
      <4>2. h[i - 1] \in Seq(V) BY <4>1
      <4> QED BY <1>3, <2>3, <3>2, <4>1, <4>2
    <3> QED BY <3>1, <3>2
  <2>5. h = [i \in 0..n |-> IF i = 0 THEN <<>> ELSE Append(h[i - 1], MeaningOf(e[i], row, h[i - 1]))]
    BY <2>4
  <2> QED BY <2>5, Zenon DEF MeaningOf
<1>5. Chosen(F)
  <2> HIDE DEF Chosen
  <2> QED BY <1>4
<1> DEFINE g == [i \in 1..n |-> MeaningOf(e[i], row, F[i - 1])]
<1>6. F = [i \in 0..n |-> IF i = 0 THEN <<>> ELSE Append(F[i - 1], g[i])]
  <2>1. F = [i \in 0..n |-> IF i = 0 THEN <<>> ELSE Append(F[i - 1], MeaningOf(e[i], row, F[i - 1]))]
    <3> HIDE DEF F
    <3> QED BY <1>5, Zenon DEF MeaningOf
  <2> HIDE DEF F
  <2>2. \A i \in 0..n : i # 0 => g[i] = MeaningOf(e[i], row, F[i - 1]) BY <1>2
  <2> HIDE DEF g
  <2>3. \A i \in 0..n : (IF i = 0 THEN <<>> ELSE Append(F[i - 1], MeaningOf(e[i], row, F[i - 1])))
                        = IF i = 0 THEN <<>> ELSE Append(F[i - 1], g[i])
    BY <2>2, Zenon
  <2> QED BY <2>1, <2>3, Zenon
<1> HIDE DEF F, Chosen, step, V, n
<1>7. \A i \in 1..n : g[i] = MeaningOf(e[i], row, F[i - 1]) /\ g[i] \in V BY MeaningTyped DEF V
<1> HIDE DEF g
<1>8. \A i \in 0..n : F[i] \in Seq(V) /\ Len(F[i]) = i /\ \A j \in 1..i : F[i][j] = g[j]
  <2>1. Grows(F, n, V, g) BY <1>6, <1>7, Zenon DEF Grows
  <2> QED BY <1>2, <2>1, ListGrows
<1> DEFINE T == F[n]
<1>9. T \in Seq(V) /\ Len(T) = n /\ \A j \in 1..n : T[j] = g[j]
  <2>1. n \in 0..n BY <1>2
  <2> QED BY <1>8, <2>1
<1>10. ASSUME NEW i \in 1..n PROVE T[i] = MeaningOf(e[i], row, T)
  <2>1. i - 1 \in 0..n BY <1>2
  <2>2. \A j \in 1..i - 1 : F[i - 1][j] = g[j] BY <1>8, <2>1
  <2>3. ASSUME NEW k \in DOMAIN e[i], NEW m \in DOMAIN e[i][k], e[i][k][m].p = "paren"
        PROVE  F[i - 1][e[i][k][m].of] = T[e[i][k][m].of]
    <3>1. e[i][k][m].of \in 1..i - 1 BY <2>3, ExpressionParts DEF n
    <3>2. e[i][k][m].of \in 1..n BY <1>2, <3>1
    <3> DEFINE j == e[i][k][m].of
    <3>3. j \in 1..i - 1 /\ j \in 1..n BY <3>1, <3>2
    <3> HIDE DEF T, j
    <3>4. F[i - 1][j] = g[j] /\ T[j] = g[j] BY <1>9, <2>2, <3>3
    <3>5. F[i - 1][j] = T[j] BY <3>4
    <3> QED BY <3>5 DEF j
  <2>4. Agree(e[i], F[i - 1], T) BY <2>3 DEF Agree
  <2>5. T[i] = MeaningOf(e[i], row, F[i - 1]) /\ e[i] \in Part(names) BY <1>2, <1>7, <1>9
  <2> HIDE DEF T
  <2> QED BY <2>4, <2>5, MeaningAgrees
<1> QED BY <1>1, <1>9, <1>10 DEF V, n

\* A part in parentheses is shorter than the part it stands in.
LEMMA InsideIsShorter ==
    ASSUME NEW names, NEW part \in Part(names), NEW texts, AllKnown(part, texts, names),
           NEW k \in DOMAIN part, NEW m \in DOMAIN part[k], part[k][m].p = "paren"
    PROVE  Len(texts[part[k][m].of]) + 2 <= Len(OrText(part, texts))
<1> DEFINE and == part[k]
           x == and[m]
           whole == OrText(part, texts)
           inner == AndText(and, texts)
           s == PrimaryText(x, texts)
<1>1. /\ Len(part) \in Nat \ {0} /\ DOMAIN part = 1..Len(part)
      /\ and \in NonEmpty(Primary(names))
  <2>1. part \in Seq(NonEmpty(Primary(names))) /\ part # <<>> BY DEF Part, NonEmpty
  <2> QED BY <2>1
<1>2. Len(and) \in Nat \ {0} /\ DOMAIN and = 1..Len(and) /\ and \in Seq(Primary(names))
  <2> HIDE DEF and
  <2> QED BY <1>1 DEF NonEmpty
<1>3. x \in Primary(names) /\ Known(x, texts, names) /\ x.p = "paren"
      /\ \A j \in DOMAIN and : Known(and[j], texts, names)
  <2>1. \A j \in DOMAIN and : Known(and[j], texts, names) BY DEF AllKnown
  <2>2. m \in DOMAIN and /\ x.p = "paren" OBVIOUS
  <2> HIDE DEF and
  <2> QED BY <1>2, <2>1, <2>2
<1>4. whole \in Sentence(names) /\ \E at : PartsAt(at, OrParts(part, texts), Kw("OR"), whole)
  BY OrPlaces
<1>5. inner \in Sentence(names) /\ \E at : PartsAt(at, AndParts(and, texts), Kw("AND"), inner)
  <2> HIDE DEF and
  <2> QED BY <1>1, <1>3, AndPlaces
<1>6. s \in Sentence(names) /\ PrimaryAt(s, x, texts)
  <2> HIDE DEF x
  <2> QED BY <1>3, PrimaryPlaces
<1>7. Len(s) = Len(texts[x.of]) + 2
  <2> HIDE DEF s, x
  <2> QED BY <1>3, <1>6 DEF PrimaryAt, ParenAt
<1>8. OrParts(part, texts) = [j \in 1..Len(part) |-> AndText(part[j], texts)]
      /\ AndParts(and, texts) = [j \in 1..Len(and) |-> PrimaryText(and[j], texts)]
  <2> HIDE DEF and
  <2> QED BY <1>1, <1>2 DEF OrParts, AndParts
<1>9. OrParts(part, texts)[k] = inner /\ k \in 1..Len(OrParts(part, texts)) BY <1>1, <1>8
<1>10. AndParts(and, texts)[m] = s /\ m \in 1..Len(AndParts(and, texts))
  <2>1. m \in DOMAIN and OBVIOUS
  <2> HIDE DEF and
  <2> QED BY <1>2, <1>8, <2>1
<1> DEFINE ors == OrParts(part, texts)
           ands == AndParts(and, texts)
<1> HIDE DEF whole, inner, s, x, and
<1>11. Len(inner) <= Len(whole)
  <2>1. PICK at : PartsAt(at, ors, Kw("OR"), whole) BY <1>4
  <2>2. Spells(whole, at[k], ors[k]) BY <1>9, <2>1 DEF PartsAt
  <2> HIDE DEF ors
  <2>3. Spells(whole, at[k], inner) BY <1>9, <2>2 DEF ors
  <2> QED BY <1>4, <1>5, <2>3, SpelledAt DEF Sentence, NonEmpty
<1>12. Len(s) <= Len(inner)
  <2>1. PICK at : PartsAt(at, ands, Kw("AND"), inner) BY <1>5
  <2>2. Spells(inner, at[m], ands[m]) BY <1>10, <2>1 DEF PartsAt
  <2> HIDE DEF ands
  <2>3. Spells(inner, at[m], s) BY <1>10, <2>2 DEF ands
  <2> QED BY <1>5, <1>6, <2>3, SpelledAt DEF Sentence, NonEmpty
<1>13. Len(s) \in Nat /\ Len(inner) \in Nat /\ Len(whole) \in Nat
  BY <1>4, <1>5, <1>6 DEF Sentence, NonEmpty
<1>14. Len(texts[x.of]) + 2 <= Len(whole) BY <1>7, <1>11, <1>12, <1>13
<1> QED BY <1>14 DEF x, whole, and

\* What the evaluator finds of a part wherever it is spelled, from the depth of
\* its parentheses on.
LEMMA PartRight ==
    ASSUME NEW names, NEW text \in Seq(Symbols(names)), NEW e \in Expression(names), NEW row,
           NEW nested, Depths(text, row, nested)
    PROVE  \A i \in 1..Len(e) : \A d \in Len(Texts(e)[i])..Len(text) :
              RightWherever(nested[d], text, Texts(e)[i], Meanings(e, row)[i])
<1> DEFINE texts == Texts(e)
           done == Meanings(e, row)
           n == Len(e)
           Good(i) == \A d \in Len(texts[i])..Len(text) : RightWherever(nested[d], text, texts[i], done[i])
           bad == {i \in 1..n : ~Good(i)}
<1>1. n \in Nat \ {0} /\ \A i \in 1..n : e[i] \in Part(names) BY ExpressionParts
<1>2. ASSUME NEW i \in 1..n
      PROVE  AllKnown(e[i], texts, names) /\ texts[i] = OrText(e[i], texts) /\ texts[i] \in Sentence(names)
  <2>1. texts \in Seq(Sentence(names)) /\ Len(texts) = n BY TextsOf
  <2>2. AllKnown(e[i], texts, names) /\ texts[i] = OrText(e[i], texts) BY TextsOf
  <2> HIDE DEF texts
  <2> QED BY <2>1, <2>2
<1>3. ASSUME NEW i \in 1..n
      PROVE  /\ done[i].truth = OrTruth(e[i], row, done)
             /\ done[i].needed = OrNeeded(e[i], row, done)
  BY MeaningsOf, MeaningTyped
<1>4. ASSUME NEW i \in 1..n, NEW k \in DOMAIN e[i], NEW m \in DOMAIN e[i][k], e[i][k][m].p = "paren"
      PROVE  /\ e[i][k][m].of \in 1..i - 1
             /\ Len(texts[e[i][k][m].of]) + 2 <= Len(texts[i])
  <2>1. e[i][k][m].of \in 1..i - 1 BY <1>4, ExpressionParts
  <2>2. Len(texts[e[i][k][m].of]) + 2 <= Len(OrText(e[i], texts))
    <3> HIDE DEF texts
    <3> QED BY <1>1, <1>2, <1>4, InsideIsShorter
  <2> QED BY <1>2, <2>1, <2>2
<1> HIDE DEF texts, done, n
<1>5. ASSUME NEW i \in 1..n, \A j \in 1..i - 1 : Good(j)
      PROVE  Good(i)
  <2> SUFFICES ASSUME NEW d \in Len(texts[i])..Len(text)
               PROVE  RightWherever(nested[d], text, texts[i], done[i]) OBVIOUS
  <2>1. Len(texts[i]) \in Nat \ {0} /\ Len(text) \in Nat BY <1>2 DEF Sentence, NonEmpty
  <2>2. d \in 1..Len(text) /\ d - 1 \in 0..Len(text) /\ nested[d - 1] \in Onward(text)
    <3>1. d \in 1..Len(text) /\ d - 1 \in 0..Len(text) BY <2>1
    <3> QED BY <3>1 DEF Depths
  <2>3. AllInnerRight(e[i], nested[d - 1], text, texts, done)
    <3> SUFFICES ASSUME NEW k \in DOMAIN e[i], NEW m \in DOMAIN e[i][k], e[i][k][m].p = "paren"
                 PROVE  RightWherever(nested[d - 1], text, texts[e[i][k][m].of], done[e[i][k][m].of])
      BY DEF AllInnerRight, InnerRight
    <3> DEFINE j == e[i][k][m].of
    <3>1. j \in 1..i - 1 /\ Len(texts[j]) + 2 <= Len(texts[i]) BY <1>4
    <3> HIDE DEF j
    <3>2. Good(j) /\ j \in 1..n BY <1>1, <1>5, <3>1
    <3>3. Len(texts[j]) \in Nat BY <1>2, <3>2 DEF Sentence, NonEmpty
    <3>4. d - 1 \in Len(texts[j])..Len(text) BY <2>1, <2>2, <3>1, <3>3
    <3>5. RightWherever(nested[d - 1], text, texts[j], done[j]) BY <3>2, <3>4
    <3> QED BY <3>5 DEF j
  <2>4. ASSUME NEW q \in 1..Len(text) + 1, Spells(text, q, texts[i]),
               At(text, q + Len(texts[i])) \notin {Kw("AND"), Kw("OR")}
        PROVE  Right(nested[d][q], text, done[i].truth, done[i].needed, q + Len(texts[i]))
    <3>1. nested[d][q] = ParseOr(nested[d - 1], text, q, row) BY <2>2 DEF Depths
    <3>2. Right(ParseOr(nested[d - 1], text, q, row), text, OrTruth(e[i], row, done),
                OrNeeded(e[i], row, done), q + Len(OrText(e[i], texts)))
      <4>1. /\ e[i] \in Part(names) /\ AllKnown(e[i], texts, names) /\ texts[i] = OrText(e[i], texts)
        BY <1>1, <1>2
      <4>2. Spells(text, q, OrText(e[i], texts))
            /\ At(text, q + Len(OrText(e[i], texts))) \notin {Kw("AND"), Kw("OR")}
        BY <2>4, <4>1
      <4> QED BY <2>2, <2>3, <4>1, <4>2, OrRight
    <3> QED BY <1>2, <1>3, <3>1, <3>2
  <2> QED BY <2>4 DEF RightWherever
<1>6. bad = {}
  <2> HIDE DEF Good
  <2> SUFFICES ASSUME bad # {} PROVE FALSE OBVIOUS
  <2>1. bad \in SUBSET Nat BY <1>1
  <2>2. PICK i \in bad : \A j \in bad : i <= j
    <3> HIDE DEF bad
    <3> QED BY <2>1, LeastNatural
  <2>3. i \in 1..n /\ ~Good(i) OBVIOUS
  <2>4. \A j \in 1..i - 1 : Good(j) BY <1>1, <2>2, <2>3
  <2> QED BY <1>5, <2>3, <2>4
<1>7. \A i \in 1..n : Good(i)
  <2> HIDE DEF Good
  <2> QED BY <1>6
<1> QED BY <1>7 DEF n, texts, done

\* evalCheckExpr, on the text of any expression and for any row: its answer is the
\* truth of the expression by the meaning of AND, OR and its conditions, and it
\* throws exactly when a left-hand side decides early or a name is no column.
THEOREM VerdictOf ==
    ASSUME NEW names, NEW e \in Expression(names), NEW row
    PROVE  EvalCheckExpr(TextOf(e), row) = Verdict(e, row)
<1> DEFINE t == TextOf(e)
           n == Len(e)
           texts == Texts(e)
           done == Meanings(e, row)
           last1 == done[n]
           r == Parsed(t, row)[1]
<1>1. n \in Nat \ {0} /\ n \in 1..n BY ExpressionParts
<1>2. texts \in Seq(Sentence(names)) /\ Len(texts) = n BY TextsOf
<1>3. t = texts[n] /\ t \in Sentence(names)
  <2>1. t = texts[n] BY <1>2 DEF TextOf, Last
  <2> HIDE DEF texts, t
  <2> QED BY <1>1, <1>2, <2>1
<1>4. Truth(e, row) = last1.truth /\ NeedsAll(e, row) = last1.needed
  <2>1. Len(done) = n BY MeaningsOf
  <2> QED BY <2>1, Zenon DEF Truth, NeedsAll, Last
<1>5. PICK nested : Depths(t, row, nested)
  <2> HIDE DEF t
  <2> QED BY <1>3, ParsedIs DEF Sentence, NonEmpty
<1>6. Right(r, t, last1.truth, last1.needed, 1 + Len(t))
  <2>1. RightWherever(nested[Len(t)], t, texts[n], last1)
    <3>1. \A i \in 1..n : \A d \in Len(texts[i])..Len(t) : RightWherever(nested[d], t, texts[i], done[i])
      <4>1. t \in Seq(Symbols(names))
        <5> HIDE DEF t
        <5> QED BY <1>3 DEF Sentence, NonEmpty
      <4> HIDE DEF t
      <4> QED BY <1>5, <4>1, PartRight
    <3>2. Len(t) \in Len(texts[n])..Len(t)
      <4> HIDE DEF t, texts
      <4> QED BY <1>3 DEF Sentence, NonEmpty
    <3> HIDE DEF t, texts, done, n
    <3> QED BY <1>1, <3>1, <3>2
  <2> HIDE DEF t, texts, done, n
  <2>2. t \in Seq(Symbols(names)) /\ Len(t) \in Nat \ {0} BY <1>3 DEF Sentence, NonEmpty
  <2>3. Spells(t, 1, t) BY <2>2 DEF Spells
  <2>4. At(t, 1 + Len(t)) = End BY <2>2 DEF At
  <2>5. End \notin {Kw("AND"), Kw("OR")} BY MarksAreNotTheEnd
  <2>6. Right(nested[Len(t)][1], t, last1.truth, last1.needed, 1 + Len(t))
    <3>1. RightWherever(nested[Len(t)], t, t, last1) BY <1>3, <2>1
    <3> HIDE DEF last1
    <3> QED BY <2>2, <2>3, <2>4, <2>5, <3>1 DEF RightWherever
  <2> QED BY <1>5, <2>6 DEF Depths
<1>7. EvalCheckExpr(t, row) = IF ~r.ok \/ r.p # Len(t) + 1 THEN "error" ELSE IF r.v THEN "true" ELSE "false"
  BY Zenon DEF EvalCheckExpr
<1>8. Verdict(e, row) = IF ~last1.needed THEN "error" ELSE IF last1.truth THEN "true" ELSE "false"
  BY <1>4, Zenon DEF Verdict
<1>9. Len(t) \in Nat
  <2> HIDE DEF t
  <2> QED BY <1>3 DEF Sentence, NonEmpty
<1> HIDE DEF r, t, last1
<1>10. CASE last1.needed
  <2>1. r = Is(last1.truth, 1 + Len(t)) /\ last1.truth \in BOOLEAN BY <1>6, <1>10, Zenon DEF Right
  <2>2. r.ok /\ r.v = last1.truth /\ r.p = 1 + Len(t)
    <3>1. 1 + Len(t) \in Nat BY <1>9
    <3> QED BY <2>1, <3>1, OutcomeFields, Zenon
  <2>3. ~(~r.ok \/ r.p # Len(t) + 1) BY <1>9, <2>2
  <2>4. EvalCheckExpr(t, row) = IF r.v THEN "true" ELSE "false" BY <1>7, <2>3
  <2>5. Verdict(e, row) = IF last1.truth THEN "true" ELSE "false" BY <1>8, <1>10
  <2>6. (last1.truth => r.v) /\ (~last1.truth => ~r.v) BY <2>1, <2>2
  <2>7. EvalCheckExpr(t, row) = Verdict(e, row) BY <2>4, <2>5, <2>6
  <2> QED BY <2>7 DEF t
<1>11. CASE ~last1.needed
  <2>1. r.ok => r.p \in 1..Len(t) BY <1>6, <1>11, Zenon DEF Right, Stuck
  <2>2. ~r.ok \/ r.p # Len(t) + 1 BY <1>9, <2>1
  <2>3. EvalCheckExpr(t, row) = Verdict(e, row) BY <1>7, <1>8, <1>11, <2>2
  <2> QED BY <2>3 DEF t
<1> QED BY <1>10, <1>11

\* A text whose first primary cannot be read is an error.
LEMMA StuckAtOnce ==
    ASSUME NEW names, NEW text \in Seq(Symbols(names)), text # <<>>, NEW row,
           \A nested \in Onward(text) : ~ParsePrimary(nested, text, 1, row).ok
    PROVE  EvalCheckExpr(text, row) = "error"
<1> DEFINE n == Len(text)
<1>1. n \in Nat \ {0} /\ n \in 1..n /\ n - 1 \in 0..n /\ 1 \in 1..n + 1 OBVIOUS
<1>2. PICK nested : Depths(text, row, nested) BY ParsedIs
<1> DEFINE f == nested[n - 1]
           first == ParsePrimary(f, text, 1, row)
           and == ParseAnd(f, text, 1, row)
           or == ParseOr(f, text, 1, row)
<1>3. f \in Onward(text) BY <1>1, <1>2 DEF Depths
<1>4. Parsed(text, row)[1] = or BY <1>1, <1>2 DEF Depths
<1>5. ~first.ok /\ first \in Outcome
  <2> HIDE DEF f
  <2> QED BY <1>1, <1>3, PrimaryMoves
<1> HIDE DEF f
<1>6. and = first
  <2>1. PICK more : /\ IsLoop(more, text, Kw("AND"), AndTurn(f, text, row))
                    /\ \A p : ParseAnd(f, text, p, row) = more[ParsePrimary(f, text, p, row)]
    BY <1>3, ParseAndIs
  <2>2. and = more[first] BY <2>1
  <2> HIDE DEF first, and
  <2> QED BY <1>5, <2>1, <2>2 DEF IsLoop
<1>7. or = and
  <2>1. PICK more : /\ IsLoop(more, text, Kw("OR"), OrTurn(f, text, row))
                    /\ \A p : ParseOr(f, text, p, row) = more[ParseAnd(f, text, p, row)]
    BY <1>3, ParseOrIs
  <2>2. or = more[and] BY <2>1
  <2> HIDE DEF first, and, or
  <2> QED BY <1>5, <1>6, <2>1, <2>2 DEF IsLoop
<1>8. ~Parsed(text, row)[1].ok BY <1>4, <1>5, <1>6, <1>7
<1> QED BY <1>8, Zenon DEF EvalCheckExpr

----------------------------------------------------------------------------
(* A CHECK that is kept as its expression has it *)

\* An expression of one condition has its text, any other a longer one.
LEMMA AloneText ==
    ASSUME NEW names, NEW e \in Expression(names)
    PROVE  /\ Alone(e) => TextOf(e) = PrimaryText(First(e), Texts(e))
           /\ ~Alone(e) => Len(TextOf(e)) >= Len(PrimaryText(First(e), Texts(e))) + 2
<1> DEFINE texts == Texts(e)
           l == Len(e)
           part == e[l]
           and == part[1]
           p == and[1]
           s == OrText(part, texts)
           u == AndText(and, texts)
           v == PrimaryText(p, texts)
           ors == OrParts(part, texts)
           ands == AndParts(and, texts)
<1>1. l \in Nat \ {0} /\ part \in Part(names) /\ \A k \in DOMAIN part : part[k] \in NonEmpty(Primary(names))
  BY ExpressionParts
<1>2. texts \in Seq(Sentence(names)) /\ Len(texts) = l /\ AllKnown(part, texts, names) /\ texts[l] = s
  BY <1>1, TextsOf
<1>3. TextOf(e) = s BY <1>2 DEF TextOf, Last
<1>4. First(e) = p /\ (Alone(e) <=> Len(part) = 1 /\ Len(and) = 1) BY DEF First, Whole, Last, Alone
<1> HIDE DEF texts, l, part
<1>5. 1 \in DOMAIN part /\ and \in NonEmpty(Primary(names)) /\ Len(part) \in Nat \ {0} /\ DOMAIN part = 1..Len(part)
  <2>1. Len(part) \in Nat \ {0} /\ DOMAIN part = 1..Len(part) BY <1>1 DEF Part, NonEmpty
  <2>2. 1 \in DOMAIN part BY <2>1
  <2> QED BY <1>1, <2>1, <2>2
<1>6. \A k \in DOMAIN part : AndText(part[k], texts) \in Sentence(names)
  BY <1>1, <1>2, AndPlaces DEF AllKnown
<1>7. ors = [k \in 1..Len(part) |-> AndText(part[k], texts)] BY <1>5 DEF OrParts
<1>8. s \in Sentence(names) /\ \E at : PartsAt(at, ors, Kw("OR"), s) BY <1>1, <1>2, OrPlaces
<1>9. \A m \in DOMAIN and : Known(and[m], texts, names) BY <1>2, <1>5 DEF AllKnown
<1> HIDE DEF and
<1>10. Len(and) \in Nat \ {0} /\ DOMAIN and = 1..Len(and) /\ 1 \in DOMAIN and
       /\ \A m \in DOMAIN and : and[m] \in Primary(names)
  <2>1. Len(and) \in Nat \ {0} /\ DOMAIN and = 1..Len(and) /\ \A m \in DOMAIN and : and[m] \in Primary(names)
    BY <1>5 DEF NonEmpty
  <2>2. 1 \in DOMAIN and BY <2>1
  <2> QED BY <2>1, <2>2
<1>11. \A m \in DOMAIN and : PrimaryText(and[m], texts) \in Sentence(names)
  BY <1>9, <1>10, PrimaryPlaces
<1>12. ands = [m \in 1..Len(and) |-> PrimaryText(and[m], texts)] BY <1>10 DEF AndParts
<1>13. u \in Sentence(names) /\ \E at : PartsAt(at, ands, Kw("AND"), u) BY <1>5, <1>9, AndPlaces
<1>14. (Len(part) = 1 => s = u) /\ (Len(part) # 1 => Len(s) >= Len(u) + 2)
  <2>1. ors[1] = u /\ \A k \in 1..Len(part) : ors[k] \in Sentence(names) BY <1>5, <1>6, <1>7 DEF and
  <2>2. ors = [k \in 1..Len(part) |-> ors[k]]
    <3> HIDE DEF ors
    <3> QED BY <1>7
  <2>3. PICK at : PartsAt(at, ors, Kw("OR"), s) BY <1>8
  <2> HIDE DEF ors, s, u
  <2>4. Phrases(ors, Len(part), Symbols(names)) /\ \A k \in 1..Len(part) : ors[k] # <<>>
    BY <2>1, <2>2 DEF Phrases, Sentence, NonEmpty
  <2>5. s \in Seq(Symbols(names)) BY <1>8 DEF Sentence, NonEmpty
  <2> QED BY <1>5, <2>1, <2>3, <2>4, <2>5, FirstOperand
<1>15. (Len(and) = 1 => u = v) /\ (Len(and) # 1 => Len(u) >= Len(v) + 2)
  <2>1. ands[1] = v /\ \A k \in 1..Len(and) : ands[k] \in Sentence(names) BY <1>10, <1>11, <1>12
  <2>2. ands = [k \in 1..Len(and) |-> ands[k]]
    <3> HIDE DEF ands
    <3> QED BY <1>12
  <2>3. PICK at : PartsAt(at, ands, Kw("AND"), u) BY <1>13
  <2> HIDE DEF ands, u, v
  <2>4. Phrases(ands, Len(and), Symbols(names)) /\ \A k \in 1..Len(and) : ands[k] # <<>>
    BY <2>1, <2>2 DEF Phrases, Sentence, NonEmpty
  <2>5. u \in Seq(Symbols(names)) BY <1>13 DEF Sentence, NonEmpty
  <2> QED BY <1>10, <2>1, <2>3, <2>4, <2>5, FirstOperand
<1>16. Len(s) \in Nat /\ Len(u) \in Nat /\ Len(v) \in Nat
  <2>1. v \in Sentence(names) BY <1>10, <1>11
  <2> HIDE DEF s, u, v
  <2> QED BY <1>8, <1>13, <2>1 DEF Sentence, NonEmpty
<1> HIDE DEF s, u, v, p
<1>17. (Alone(e) => s = v) /\ (~Alone(e) => Len(s) >= Len(v) + 2) BY <1>4, <1>14, <1>15, <1>16
<1> QED BY <1>3, <1>4, <1>17 DEF v, texts

\* Only a list of its own column is taken for one.
LEMMA ListIsOwn ==
    ASSUME NEW names, NEW e \in Expression(names), NEW n, IsList(TextOf(e), n)
    PROVE  /\ First(e).p = "in" /\ ~First(e).negated /\ First(e).c = n /\ n \in names
           /\ ListBegins(TextOf(e), First(e).items)
<1> DEFINE t == TextOf(e)
           p == First(e)
<1>1. t \in Seq(Symbols(names)) /\ p \in Primary(names) /\ BeginsAs(t, p)
      /\ (p.p = "in" /\ ~p.negated => ListBegins(t, p.items))
  BY TextBegins
<1>2. Len(t) >= 4 /\ t[1] = Id(n) /\ t[2] = Kw("IN") BY DEF IsList
<1> HIDE DEF t, p
<1>3. At(t, 1) = Id(n) /\ At(t, 2) = Kw("IN")
  <2>1. 1 \in DOMAIN t /\ 2 \in DOMAIN t BY <1>1, <1>2
  <2> QED BY <1>2, <2>1 DEF At
<1>4. p.p # "paren" /\ p.p # "cmp" /\ p.p # "between" BY <1>1, <1>3, MarksDiffer DEF BeginsAs
<1>5. p.p = "in" /\ p.negated \in BOOLEAN /\ p.c \in names BY <1>1, <1>4, PrimaryShape
<1>6. ~p.negated BY <1>1, <1>3, <1>5, MarksDiffer DEF BeginsAs
<1>7. p.c = n
  <2>1. Id(p.c) = Id(n) BY <1>1, <1>3, <1>4 DEF BeginsAs
  <2>2. Id(p.c).w[1] = p.c /\ Id(n).w[1] = n BY MarksAreNoValues
  <2> QED BY <2>1, <2>2
<1>8. ListBegins(t, p.items) BY <1>1, <1>5, <1>6
<1> QED BY <1>5, <1>6, <1>7, <1>8 DEF t, p

\* What normalizeColumnCheckExpr puts around a list.
Listed(text, n) == <<Id(n), Kw("IN"), Kw("(")>> \o text \o <<Kw(")")>>

LEMMA ListedPlaces ==
    ASSUME NEW names, NEW b \in Seq(Symbols(names)), NEW n \in names
    PROVE  /\ Listed(b, n) \in Seq(Symbols(names)) /\ Len(Listed(b, n)) = Len(b) + 4
           /\ Listed(b, n)[1] = Id(n) /\ Listed(b, n)[2] = Kw("IN") /\ Listed(b, n)[3] = Kw("(")
           /\ Listed(b, n)[Len(b) + 4] = Kw(")")
           /\ \A j \in 1..Len(b) : Listed(b, n)[3 + j] = b[j]
<1> DEFINE S == Symbols(names)
           a == <<Id(n), Kw("IN"), Kw("(")>>
           z == Kw(")")
           t == Listed(b, n)
<1>1. Id(n) \in S /\ Kw("IN") \in S /\ Kw("(") \in S /\ z \in S BY SymbolsHold
<1>2. a \in Seq(S) /\ Len(a) = 3 /\ a[1] = Id(n) /\ a[2] = Kw("IN") /\ a[3] = Kw("(")
  <2> HIDE DEF S
  <2> QED BY <1>1
<1>3. t = a \o b \o <<z>> BY DEF Listed
<1> HIDE DEF S, a, z, t
<1>4. /\ t \in Seq(S) /\ Len(t) = Len(a) + Len(b) + 1 /\ t[Len(a) + Len(b) + 1] = z
      /\ \A j \in 1..Len(a) : t[j] = a[j]
      /\ \A j \in 1..Len(b) : t[Len(a) + j] = b[j]
  <2>1. b \in Seq(S) BY DEF S
  <2> DEFINE r == a \o b \o <<z>>
  <2>2. a \in Seq(S) /\ z \in S BY <1>1, <1>2
  <2>3. /\ r \in Seq(S) /\ Len(r) = Len(a) + Len(b) + 1 /\ r[Len(a) + Len(b) + 1] = z
        /\ \A j \in 1..Len(a) : r[j] = a[j]
        /\ \A j \in 1..Len(b) : r[Len(a) + j] = b[j]
    BY <2>1, <2>2, Bracketed
  <2>4. t = r BY <1>3
  <2> HIDE DEF r
  <2> QED BY <2>3, <2>4
<1>5. 1 \in 1..Len(a) /\ 2 \in 1..Len(a) /\ 3 \in 1..Len(a) /\ Len(b) \in Nat BY <1>2
<1>6. Len(a) + Len(b) + 1 = Len(b) + 4 BY <1>2, <1>5
<1> QED BY <1>2, <1>4, <1>5, <1>6 DEF S, t, z

\* What is taken out of a list goes back into it.
LEMMA BodyOf ==
    ASSUME NEW names, NEW t \in Seq(Symbols(names)), NEW n \in names, IsList(t, n)
    PROVE  /\ Body(t) \in Seq(Symbols(names)) /\ Len(Body(t)) = Len(t) - 4
           /\ (\A j \in 1..Len(t) - 4 : Body(t)[j] = t[j + 3])
           /\ Listed(Body(t), n) = t
<1> DEFINE S == Symbols(names)
           m == Len(t)
           b == Body(t)
           u == Listed(b, n)
<1>1. m \in Nat /\ m >= 4 /\ t[1] = Id(n) /\ t[2] = Kw("IN") /\ t[3] = Kw("(") /\ t[m] = Kw(")") /\ t \in Seq(S)
  BY DEF IsList
<1>2. b \in Seq(S) /\ Len(b) = m - 4 /\ \A j \in 1..m - 4 : b[j] = t[j + 3]
  <2>1. b = SubSeq(t, 4, m - 1) BY DEF Body
  <2> HIDE DEF b, S, m
  <2>2. /\ SubSeq(t, 4, m - 1) \in Seq(S)
        /\ Len(SubSeq(t, 4, m - 1)) = (IF 4 <= m - 1 THEN m - 1 - 4 + 1 ELSE 0)
        /\ \A j \in 1..m - 1 - 4 + 1 : SubSeq(t, 4, m - 1)[j] = t[4 + j - 1]
    <3>1. 4 \in Int /\ m - 1 \in Int /\ \A j \in 4..m - 1 : t[j] \in S BY <1>1 DEF m
    <3> QED BY <1>1, <3>1, SubSeqProperties
  <2>3. \A j \in 1..m - 4 : j \in 1..m - 1 - 4 + 1 /\ 4 + j - 1 = j + 3 BY <1>1
  <2> QED BY <1>1, <2>1, <2>2, <2>3
<1>3. /\ u \in Seq(S) /\ Len(u) = Len(b) + 4
      /\ u[1] = Id(n) /\ u[2] = Kw("IN") /\ u[3] = Kw("(") /\ u[Len(b) + 4] = Kw(")")
      /\ \A j \in 1..Len(b) : u[3 + j] = b[j]
  <2> HIDE DEF b
  <2> QED BY <1>2, ListedPlaces
<1> HIDE DEF S, m, b, u
<1>4. Len(u) = m /\ u[m] = t[m] /\ u[1] = t[1] /\ u[2] = t[2] /\ u[3] = t[3] BY <1>1, <1>2, <1>3
<1>5. \A j \in 4..m - 1 : u[j] = t[j]
  <2> TAKE j \in 4..m - 1
  <2>1. j - 3 \in 1..m - 4 /\ 3 + (j - 3) = j /\ (j - 3) + 3 = j BY <1>1
  <2> QED BY <1>2, <1>3, <2>1
<1>6. \A j \in 1..m : u[j] = t[j]
  <2>1. \A j \in 1..m : j = 1 \/ j = 2 \/ j = 3 \/ j = m \/ j \in 4..m - 1 BY <1>1
  <2> QED BY <1>4, <1>5, <2>1
<1>7. u = t BY <1>1, <1>3, <1>4, <1>6 DEF m
<1> QED BY <1>2, <1>7 DEF S, u, b, m

\* A list starts with a value.
LEMMA ValuesBegin ==
    ASSUME NEW S, NEW text \in Seq(S), text # <<>>, NEW p \in Nat \ {0}, Values(text, p).ok
    PROVE  IsValue(At(text, p))
<1>1. PICK n \in Nat \ {0} : \A m \in 1..n : IsValue(At(text, p + 2 * m - 2)) BY ListEnds
<1>2. 1 \in 1..n /\ p + 2 * 1 - 2 = p OBVIOUS
<1> QED BY <1>1, <1>2

\* A name that no predicate follows is an error, and so is a list that starts
\* with a parenthesis.
LEMMA NameAlone ==
    ASSUME NEW names, NEW text \in Seq(Symbols(names)), NEW x, NEW row,
           At(text, 1) = Id(x), At(text, 2) = Kw(")")
    PROVE  EvalCheckExpr(text, row) = "error"
<1>1. text # <<>>
  <2>1. Id(x) # End BY MarksDiffer
  <2> QED BY <2>1 DEF At
<1>2. ASSUME NEW nested \in Onward(text) PROVE ~ParsePrimary(nested, text, 1, row).ok
  <2>1. ParsePrimary(nested, text, 1, row) = IF x \in DOMAIN row THEN Leaf(text, 1, row) ELSE Wrong
    BY NameRead
  <2>2. Kw(")") # Kw("BETWEEN") /\ Kw(")") # Kw("IN") /\ Kw(")") # Kw("NOT") /\ Kw(")").k # "op"
    BY TokensDiffer DEF Kw
  <2>3. Leaf(text, 1, row) = Wrong
    <3>1. At(text, 1 + 1) = Kw(")") OBVIOUS
    <3>2. InAt(text, 1) = 1 + 1 BY <2>2, <3>1 DEF InAt, NegatedAt
    <3> QED BY <2>2, <3>1, <3>2, LeafCases
  <2> QED BY <2>1, <2>3, OutcomeFields
<1> QED BY <1>1, <1>2, StuckAtOnce

LEMMA ListOfParen ==
    ASSUME NEW names, NEW text \in Seq(Symbols(names)), NEW n, NEW row,
           At(text, 1) = Id(n), At(text, 2) = Kw("IN"), At(text, 4) = Kw("(")
    PROVE  EvalCheckExpr(text, row) = "error"
<1>1. text # <<>>
  <2>1. Id(n) # End BY MarksDiffer
  <2> QED BY <2>1 DEF At
<1>2. ASSUME NEW nested \in Onward(text) PROVE ~ParsePrimary(nested, text, 1, row).ok
  <2>1. ParsePrimary(nested, text, 1, row) = IF n \in DOMAIN row THEN Leaf(text, 1, row) ELSE Wrong
    BY NameRead
  <2>2. Leaf(text, 1, row) = Wrong
    <3>1. At(text, 1 + 1) = Kw("IN") /\ Kw("IN") # Kw("NOT") BY MarksDiffer
    <3>2. InAt(text, 1) = 1 + 1 BY <3>1 DEF InAt, NegatedAt
    <3>3. ~IsListAt(text, 1)
      <4>1. ~IsValue(At(text, 4)) /\ 4 \in Nat \ {0} BY MarksAreNoValues
      <4>2. ~Values(text, 4).ok BY <1>1, <4>1, ValuesBegin
      <4>3. InAt(text, 1) + 2 = 4 BY <3>2
      <4> QED BY <4>2, <4>3 DEF IsListAt
    <3> QED BY <3>1, <3>2, <3>3, LeafCases
  <2> QED BY <2>1, <2>2, OutcomeFields
<1> QED BY <1>1, <1>2, StuckAtOnce

\* The text of a column's CHECK, in the names of the table: it starts with a
\* parenthesis where the expression does, and is else what is kept of the
\* expression's text.
Stores(t, e, n, names) ==
    IF First(e).p = "paren" THEN t \in Seq(Symbols(names)) /\ At(t, 1) = Kw("(")
    ELSE t = NormalizeStoredColumnCheckExpr(TextOf(e), n)

StartsList(t) ==
    \/ At(t, 1).k \in {"str", "num"} \/ At(t, 1) = Kw("(")
    \/ At(t, 1).k = "id" /\ At(t, 2) \in {Comma, End}
\* normalizeColumnCheckExpr in these words.
LEMMA NormalizedIs ==
    ASSUME NEW t, NEW n
    PROVE  /\ t # <<>> /\ StartsList(t) => NormalizeColumnCheckExpr(t, n) = Listed(t, n)
           /\ ~StartsList(t) => NormalizeColumnCheckExpr(t, n) = t
BY Zenon DEF NormalizeColumnCheckExpr, StartsList, Listed

\* What a kept CHECK says of a row is what the expression says of it.
LEMMA StoredVerdict ==
    ASSUME NEW names, NEW e \in Expression(names), NEW n \in names, NEW t, Stores(t, e, n, names), NEW row
    PROVE  EvalCheckExpr(NormalizeColumnCheckExpr(t, n), row)
           = IF Misread(e, n) THEN "error" ELSE Verdict(e, row)
<1> DEFINE T == TextOf(e)
           p == First(e)
<1>1. /\ T \in Seq(Symbols(names)) /\ Len(T) \in Nat \ {0} /\ p \in Primary(names) /\ BeginsAs(T, p)
  BY TextBegins
<1>2. EvalCheckExpr(T, row) = Verdict(e, row) BY VerdictOf
<1>3. CASE p.p = "paren"
  <2>1. Misread(e, n) BY <1>3 DEF Misread
  <2>2. t \in Seq(Symbols(names)) /\ At(t, 1) = Kw("(") BY <1>3 DEF Stores
  <2>3. t # <<>> /\ Len(t) \in Nat \ {0} /\ t[1] = Kw("(")
    <3>1. Kw("(") # End BY MarksAreNotTheEnd
    <3> QED BY <2>2, <3>1 DEF At
  <2> DEFINE u == Listed(t, n)
  <2>4. NormalizeColumnCheckExpr(t, n) = u BY <2>2, <2>3, NormalizedIs DEF StartsList
  <2>5. /\ u \in Seq(Symbols(names)) /\ Len(u) = Len(t) + 4 /\ u[1] = Id(n) /\ u[2] = Kw("IN")
        /\ \A j \in 1..Len(t) : u[3 + j] = t[j]
    BY <2>2, ListedPlaces
  <2> HIDE DEF u
  <2>6. 1 \in DOMAIN u /\ 2 \in DOMAIN u /\ 4 \in DOMAIN u /\ 1 \in 1..Len(t) /\ 3 + 1 = 4
    BY <2>3, <2>5
  <2>7. At(u, 1) = Id(n) /\ At(u, 2) = Kw("IN") /\ At(u, 4) = Kw("(") BY <2>3, <2>5, <2>6 DEF At
  <2>8. EvalCheckExpr(u, row) = "error" BY <2>5, <2>7, ListOfParen
  <2> QED BY <2>1, <2>4, <2>8
<1>4. CASE p.p # "paren" /\ ~IsList(T, n)
  <2>1. t = T BY <1>4 DEF Stores, NormalizeStoredColumnCheckExpr
  <2>2. ~Misread(e, n) BY <1>4 DEF Misread
  <2>3. ~StartsList(T)
    <3> HIDE DEF T, p
    <3>1. At(T, 1) = Id(p.c) BY <1>1, <1>4 DEF BeginsAs
    <3>2. At(T, 1).k = "id" /\ At(T, 1) # Kw("(") BY <3>1, MarksAreNoValues
    <3>3. At(T, 2) # Comma /\ At(T, 2) # End
      <4>1. /\ \A o : Tok("op", o) # Comma /\ Tok("op", o) # End
            /\ \A w \in {"BETWEEN", "NOT", "IN"} : Kw(w) # Comma /\ Kw(w) # End
        <5>1. \A o : Tok("op", o).k = "op" BY MarksAreNoValues
        <5> QED BY <5>1, CommaIsAlone, MarksAreNotTheEnd
      <4> QED BY <1>1, <1>4, <4>1, PrimaryShape DEF BeginsAs
    <3> QED BY <3>2, <3>3 DEF StartsList
  <2>4. NormalizeColumnCheckExpr(T, n) = T BY <2>3, NormalizedIs
  <2> QED BY <1>2, <2>1, <2>2, <2>4
<1>5. CASE p.p # "paren" /\ IsList(T, n)
  <2> DEFINE b == Body(T)
             items == p.items
  <2>1. t = b BY <1>5 DEF Stores, NormalizeStoredColumnCheckExpr
  <2>2. p.p = "in" /\ ListBegins(T, items) /\ ~p.negated BY <1>5, ListIsOwn
  <2>3. Misread(e, n) <=> ~Alone(e) /\ Len(items) = 1 /\ items[1].k = "id" BY <1>5 DEF Misread
  <2>4. /\ b \in Seq(Symbols(names)) /\ Len(b) = Len(T) - 4
        /\ (\A j \in 1..Len(T) - 4 : b[j] = T[j + 3]) /\ Listed(b, n) = T
    <3> HIDE DEF b, T
    <3> QED BY <1>1, <1>5, BodyOf DEF b
  <2>5. items \in Seq(ValueTok(names)) /\ Len(items) \in Nat \ {0}
    BY <1>1, <2>2, PrimaryShape DEF NonEmpty, ListBegins
  <2>6. ~Alone(e) => Len(T) >= 7
    <3>1. ~Alone(e) => Len(T) >= Len(PrimaryText(p, Texts(e))) + 2 BY AloneText
    <3>2. Len(PrimaryText(p, Texts(e))) >= 5 /\ Len(PrimaryText(p, Texts(e))) \in Nat
      <4> DEFINE s == PrimaryText(p, Texts(e))
                 m == Len(items)
      <4>1. s \in Sentence(names) /\ ListAt(s, p) BY <1>1, <2>2, ListOf
      <4>2. Len(s) = 3 + 2 * m BY <2>2, <4>1 DEF ListAt, InFrom
      <4> HIDE DEF s
      <4>3. Len(s) >= 5 /\ Len(s) \in Nat BY <2>5, <4>2
      <4> QED BY <4>3 DEF s
    <3> HIDE DEF T
    <3> QED BY <1>1, <3>1, <3>2
  <2>7. Alone(e) => Len(T) = 3 + 2 * Len(items)
    <3>1. Alone(e) => T = PrimaryText(p, Texts(e)) BY AloneText
    <3>2. ListAt(PrimaryText(p, Texts(e)), p) BY <1>1, <2>2, ListOf
    <3> QED BY <2>2, <3>1, <3>2 DEF ListAt, InFrom
  <2>8. items[1].k \in {"id", "num", "str"} /\ \A w : items[1] # Kw(w)
    <3> DEFINE x == items[1]
    <3>1. x \in ValueTok(names) BY <2>5
    <3> HIDE DEF x
    <3>2. x.k \in {"id", "num", "str"} /\ IsValue(x) BY <3>1, ValueToken
    <3> QED BY <3>2, MarksAreNoValues DEF x
  <2> HIDE DEF b, T, items, p
  <2>9. b # <<>> /\ At(b, 1) = items[1]
    <3>1. Len(T) >= 5 BY <1>1, <2>2, <2>5 DEF ListBegins
    <3>2. 1 \in DOMAIN b /\ 4 \in DOMAIN T /\ 1 \in 1..Len(T) - 4 BY <1>1, <2>4, <3>1
    <3>3. b[1] = T[4] /\ At(T, 4) = T[4] BY <2>4, <3>2 DEF At
    <3> QED BY <2>2, <3>2, <3>3 DEF At, ListBegins
  <2>10. At(b, 2) = IF Alone(e) /\ Len(items) = 1 THEN End
                    ELSE IF Len(items) = 1 THEN Kw(")") ELSE Comma
    <3>1. CASE Alone(e) /\ Len(items) = 1
      <4>1. Len(T) = 3 + 2 * Len(items) /\ Len(items) = 1 BY <2>7, <3>1
      <4>a. Len(b) = 1 BY <2>4, <4>1
      <4>2. 2 \notin DOMAIN b BY <2>4, <4>a
      <4> QED BY <3>1, <4>2 DEF At
    <3>2. CASE ~(Alone(e) /\ Len(items) = 1)
      <4>1. Len(T) >= 6
        <5>1. Len(T) \in Nat /\ Len(items) \in Nat \ {0} BY <1>1, <2>5
        <5>2. CASE Alone(e)
          <6>1. Len(T) = 3 + 2 * Len(items) BY <2>7, <5>2, Zenon
          <6>2. Len(items) # 1 BY <3>2, <5>2, Zenon
          <6> DEFINE l == Len(items)
                     m == Len(T)
          <6>3. l \in Nat /\ l # 0 /\ m = 3 + 2 * l /\ l # 1 BY <5>1, <6>1, <6>2
          <6> HIDE DEF l, m
          <6>4. m >= 6 BY <6>3
          <6> QED BY <6>4 DEF m
        <5>3. CASE ~Alone(e)
          <6>1. Len(T) >= 7 BY <2>6, <5>3
          <6> QED BY <5>1, <6>1
        <5> QED BY <5>2, <5>3
      <4>2. 2 \in DOMAIN b /\ 5 \in DOMAIN T /\ 2 \in 1..Len(T) - 4 BY <1>1, <2>4, <4>1
      <4>3. b[2] = T[5] /\ At(T, 5) = T[5] BY <2>4, <4>2 DEF At
      <4> QED BY <2>2, <3>2, <4>2, <4>3 DEF At, ListBegins
    <3> QED BY <3>1, <3>2
  <2>11. CASE StartsList(b)
    <3>1. NormalizeColumnCheckExpr(b, n) = T BY <2>4, <2>9, <2>11, NormalizedIs
    <3>2. ~Misread(e, n)
      <4> SUFFICES ASSUME ~Alone(e), Len(items) = 1, items[1].k = "id" PROVE FALSE BY <2>3
      <4>1. At(b, 2) = Kw(")") BY <2>10
      <4>2. Kw(")") # Comma /\ Kw(")") # End BY CommaIsAlone, MarksAreNotTheEnd
      <4> QED BY <2>8, <2>9, <2>11, <4>1, <4>2 DEF StartsList
    <3> QED BY <1>2, <2>1, <3>1, <3>2 DEF T
  <2>12. CASE ~StartsList(b)
    <3>1. NormalizeColumnCheckExpr(b, n) = b BY <2>12, NormalizedIs
    <3>2. items[1].k = "id" /\ At(b, 2) \notin {Comma, End} BY <2>8, <2>9, <2>12 DEF StartsList
    <3>3. Misread(e, n) /\ At(b, 2) = Kw(")") BY <2>3, <2>10, <3>2
    <3>4. \E x : items[1] = Id(x)
      <4> DEFINE x == items[1]
      <4>1. x \in ValueTok(names) BY <2>5
      <4> HIDE DEF x
      <4>2. x.k = "id" => x = Id(x.w[1]) BY <4>1, ValueToken
      <4> QED BY <3>2, <4>2 DEF x
    <3>5. EvalCheckExpr(b, row) = "error" BY <2>4, <2>9, <3>3, <3>4, NameAlone
    <3> QED BY <2>1, <3>1, <3>3, <3>5
  <2> QED BY <2>11, <2>12
<1> QED BY <1>3, <1>4, <1>5

----------------------------------------------------------------------------
(* A storable CHECK comes back from the catalog as it was *)

\* The names a table's columns may have, and their tokens.
TableNames == SUBSET (Names \cup {NewName})

LEMMA TableTokens ==
    ASSUME NEW names \in TableNames
    PROVE  /\ \A x \in Symbols(names) : x \in Tokens /\ Len(x.w) = 1
           /\ \A v \in ValueTok(names) : v \in Tokens /\ (v.k # "id" => ScalarToJson(<<v>>) = v)
           /\ \A t \in Seq(Symbols(names)) : t \in Seq(Tokens)
<1>1. ASSUME NEW x \in Symbols(names) PROVE x \in Tokens /\ Len(x.w) = 1
  <2>1. x \in Symbols(Names) \/ x = Id(NewName) BY Zenon DEF Symbols, ValueTok, TableNames
  <2>2. CASE x \in Symbols(Names) BY <2>2, SymbolTokens
  <2>3. CASE x = Id(NewName)
    <3>1. Id(NewName) \in Tokens BY OwnToken
    <3>2. Len(Id(NewName).w) = 1 BY TokensDiffer DEF Id
    <3> QED BY <2>3, <3>1, <3>2
  <2> QED BY <2>1, <2>2, <2>3
<1>2. ASSUME NEW v \in ValueTok(names) PROVE v \in Tokens /\ (v.k # "id" => ScalarToJson(<<v>>) = v)
  <2>1. v \in Tokens /\ v.k \in {"id", "num", "str"} BY <1>1, ValueToken
  <2>2. CASE v.k = "num"
    <3>1. Len(<<v>>) = 1 /\ <<v>>[1] = v BY OneToken
    <3> QED BY <2>1, <2>2, <3>1 DEF ScalarToJson
  <2>3. CASE v.k = "str"
    <3>1. Words(<<v>>) = v.w BY <2>1, WordsOne
    <3>2. <<v>>[1].k # "num" BY <2>3
    <3>3. ScalarToJson(<<v>>) = [k |-> "str", w |-> v.w] BY <3>1, <3>2 DEF ScalarToJson
    <3>4. v = [k |-> v.k, w |-> v.w] BY <2>1 DEF Tokens
    <3> QED BY <2>1, <2>3, <3>3, <3>4
  <2> QED BY <2>1, <2>2, <2>3
<1>3. ASSUME NEW t \in Seq(Symbols(names)) PROVE t \in Seq(Tokens)
  <2> DEFINE U == Tokens
             V == Symbols(names)
             m == Len(t)
  <2>1. V \subseteq U BY <1>1
  <2> HIDE DEF U, V
  <2>2. t \in Seq(V) BY DEF V
  <2>3. t \in Seq(U) BY <2>1, <2>2
  <2> QED BY <2>3 DEF U
<1> QED BY <1>1, <1>2, <1>3

\* A text that begins with no literal and is no condition of its column.
LEMMA OtherComesBack ==
    ASSUME NEW n \in Names \cup {NewName}, NEW t \in Seq(Tokens) \ {<<>>}, ~IsList(t, n),
           t[1].k # "str", t[1] # Comma,
           At(t, 1) = Id(n) => At(t, 2) # Kw("BETWEEN") /\ At(t, 2).k # "op"
    PROVE  Reloaded(t, n) = t
<1>1. ~IsEnum(t)
  <2>1. 1 \in DOMAIN Parts(t) /\ Parts(t)[1][1] = t[1] BY FirstPart
  <2>2. ~Quoted(Parts(t)[1]) BY <2>1 DEF Quoted
  <2> QED BY <2>1, <2>2 DEF IsEnum, AllQuoted
<1>2. ~IsRange(t, n) /\ ~IsComparison(t, n) BY DEF IsRange, IsComparison
<1> QED BY <1>1, <1>2, ReloadedIs

\* The list of an IN.
LEMMA ItemsComeBack ==
    ASSUME NEW names \in TableNames, NEW n \in Names \cup {NewName}, NEW items \in NonEmpty(ValueTok(names)),
           ~IsList(ListText(items), n)
    PROVE  Reloaded(ListText(items), n) = ListText(items)
<1> DEFINE V == ValueTok(names)
           t == ListText(items)
           m == Len(items)
<1>1. items \in Seq(V) \ {<<>>} /\ m \in Nat \ {0} /\ DOMAIN items = 1..m /\ \A k \in 1..m : items[k] \in V
  <2>1. items \in Seq(V) \ {<<>>} BY DEF NonEmpty
  <2> HIDE DEF V
  <2> QED BY <2>1
<1>2. \A v \in V : v \in Tokens /\ v.k \in {"id", "num", "str"} /\ (v.k # "id" => ScalarToJson(<<v>>) = v)
  BY TableTokens, ValueToken
<1> HIDE DEF V, t
<1>3. \A k \in 1..m : items[k] # Comma /\ items[k].k \in {"id", "num", "str"}
  <2>1. Comma.k = "kw" BY CommaIsAlone
  <2> QED BY <1>1, <1>2, <2>1
<1>4. /\ t \in Seq(V \cup {Comma}) /\ Len(t) = 2 * m - 1
      /\ \A k \in 1..m : t[2 * k - 1] = items[k]
      /\ \A k \in 1..m - 1 : t[2 * k] = Comma
  BY <1>1, ListPlaces DEF t
<1>5. DOMAIN Parts(t) = 1..m /\ \A k \in 1..m : Parts(t)[k] = <<items[k]>>
  <2>1. \A k \in DOMAIN items : items[k] # Comma BY <1>1, <1>3
  <2> QED BY <1>1, <2>1, PartsOfList DEF t
<1>6. t \in Seq(Tokens) \ {<<>>}
  <2> DEFINE U == Tokens
             W == V \cup {Comma}
  <2>1. W \subseteq U BY <1>2, MarkTokens
  <2> HIDE DEF U, W
  <2>2. t \in Seq(W) BY <1>4 DEF W
  <2>3. t \in Seq(U) BY <2>1, <2>2
  <2>4. Len(t) # 0
    <3>1. 2 * m - 1 # 0 BY <1>1
    <3> QED BY <1>4, <3>1
  <2>5. t # <<>> BY <2>4
  <2> QED BY <2>3, <2>5 DEF U
<1>7. CASE IsEnum(t)
  <2>1. Reloaded(t, n) = ListText(Scalars(t)) BY <1>6, <1>7, ReloadedIs DEF t
  <2>2. Scalars(t) = items
    <3>1. Scalars(t) = [k \in 1..m |-> ScalarToJson(Parts(t)[k])] BY <1>5 DEF Scalars
    <3>2. ASSUME NEW k \in 1..m PROVE ScalarToJson(Parts(t)[k]) = items[k]
      <4>1. Quoted(<<items[k]>>) BY <1>5, <1>7 DEF IsEnum, AllQuoted
      <4>2. items[k].k = "str" BY <4>1 DEF Quoted
      <4> QED BY <1>1, <1>2, <1>5, <4>2
    <3>3. items = [k \in 1..m |-> items[k]] BY <1>1
    <3> QED BY <3>1, <3>2, <3>3
  <2> QED BY <2>1, <2>2 DEF t
<1>8. CASE ~IsEnum(t)
  <2>1. At(t, 2) # Kw("BETWEEN") /\ At(t, 2).k # "op"
    <3>1. At(t, 2) = Comma \/ At(t, 2) = End
      <4>1. CASE m = 1
        <5>1. Len(t) = 1 BY <1>4, <4>1
        <5>2. 2 \notin DOMAIN t BY <1>4, <5>1
        <5> QED BY <5>2 DEF At
      <4>2. CASE m # 1
        <5>1. 1 \in 1..m - 1 /\ 2 * 1 = 2 /\ 2 * m - 1 >= 2 BY <1>1, <4>2
        <5>2. t[2] = Comma /\ 2 \in DOMAIN t BY <1>4, <5>1
        <5> QED BY <5>2 DEF At
      <4> QED BY <4>1, <4>2
    <3>2. Comma # Kw("BETWEEN") /\ End # Kw("BETWEEN") /\ Comma.k # "op" /\ End.k # "op"
      BY CommaIsAlone, MarksAreNotTheEnd
    <3> QED BY <3>1, <3>2
  <2>2. ~IsRange(t, n) /\ ~IsComparison(t, n) BY <2>1 DEF IsRange, IsComparison
  <2> QED BY <1>6, <1>8, <2>2, ReloadedIs DEF t
<1> QED BY <1>7, <1>8

\* checkExprToJson and parseCheckObject: a column's CHECK that metadata.json can
\* hold, and what buildTableMetadata or a rename kept of it, come back as saved.
THEOREM StorableComesBack ==
    ASSUME NEW names \in TableNames, NEW e \in Expression(names), NEW n \in names, NEW t,
           Stores(t, e, n, names), Storable(e, n)
    PROVE  Reloaded(t, n) = t
<1> DEFINE T == TextOf(e)
           p == First(e)
           s == PrimaryText(p, Texts(e))
<1>1. /\ T \in Seq(Symbols(names)) /\ Len(T) \in Nat \ {0} /\ p \in Primary(names) /\ BeginsAs(T, p)
  BY TextBegins
<1>2. n \in Names \cup {NewName} BY DEF TableNames
<1>3. T \in Seq(Tokens) \ {<<>>} /\ T[1] = At(T, 1)
  <2> HIDE DEF T
  <2>1. T \in Seq(Tokens) /\ T # <<>> BY <1>1, TableTokens
  <2>2. 1 \in DOMAIN T BY <1>1
  <2> QED BY <2>1, <2>2 DEF At
<1>4. Own(e, n) <=> p.p # "paren" /\ p.c = n BY DEF Own
<1>5. /\ Alone(e) => T = s
      /\ \A j \in 1..Len(s) : Len(s) <= Len(T)
  BY AloneText
<1> HIDE DEF T, p, s
<1>6. CASE p.p = "paren"
  <2>1. t \in Seq(Symbols(names)) /\ At(t, 1) = Kw("(") BY <1>6 DEF Stores, p
  <2>2. t \in Seq(Tokens) BY <2>1, TableTokens
  <2>3. t # <<>> /\ t[1] = Kw("(")
    <3>1. Kw("(") # End BY MarksAreNotTheEnd
    <3> QED BY <2>1, <3>1 DEF At
  <2>4. t[1].k # "str" /\ t[1] # Comma /\ At(t, 1) # Id(n)
    BY <2>1, <2>3, CommaIsAlone, MarksAreNoValues
  <2>5. ~IsList(t, n) BY <2>3, MarksDiffer DEF IsList
  <2> QED BY <1>2, <2>2, <2>3, <2>4, <2>5, OtherComesBack
<1>7. CASE p.p # "paren" /\ ~IsList(T, n)
  <2>1. t = T BY <1>7 DEF Stores, NormalizeStoredColumnCheckExpr, T, p
  <2>2. At(T, 1) = Id(p.c) /\ T[1].k # "str" /\ T[1] # Comma
    <3>1. At(T, 1) = Id(p.c) BY <1>1, <1>7 DEF BeginsAs
    <3>2. T[1].k = "id" BY <1>3, <3>1, MarksAreNoValues
    <3>3. Comma.k = "kw" BY CommaIsAlone
    <3> QED BY <3>1, <3>2, <3>3
  <2>3. CASE p.c # n
    <3>1. At(T, 1) # Id(n)
      <4>1. Id(p.c).w[1] = p.c /\ Id(n).w[1] = n BY MarksAreNoValues
      <4> QED BY <2>2, <2>3, <4>1
    <3> QED BY <1>2, <1>3, <1>7, <2>1, <2>2, <3>1, OtherComesBack
  <2>4. CASE p.c = n /\ p.p = "in"
    <3>1. At(T, 2) # Kw("BETWEEN") /\ At(T, 2).k # "op"
      <4>1. At(T, 2) = Kw("NOT") \/ At(T, 2) = Kw("IN") BY <1>1, <2>4 DEF BeginsAs
      <4>2. Kw("NOT") # Kw("BETWEEN") /\ Kw("IN") # Kw("BETWEEN") BY MarksAreNotTheEnd
      <4>3. Kw("NOT").k = "kw" /\ Kw("IN").k = "kw" BY MarksAreNoValues
      <4> QED BY <4>1, <4>2, <4>3
    <3> QED BY <1>2, <1>3, <1>7, <2>1, <2>2, <3>1, OtherComesBack
  <2>5. CASE p.c = n /\ p.p = "cmp"
    <3>1. Alone(e) /\ p.v.k # "id"
      <4>1. Own(e, n) BY <1>4, <1>7, <2>5
      <4> QED BY <2>5, <4>1 DEF Storable, p
    <3>2. p.v \in ValueTok(names) /\ p.op \in Operators BY <1>1, <2>5, PrimaryShape
    <3>3. T = <<Id(n), Tok("op", p.op), p.v>>
      <4>1. T = s BY <1>5, <3>1
      <4>2. s = <<Id(p.c), Tok("op", p.op), p.v>> BY <2>5, Zenon DEF PrimaryText, s
      <4> QED BY <2>5, <4>1, <4>2
    <3>4. p.v \in Tokens /\ ScalarToJson(<<p.v>>) = p.v BY <3>1, <3>2, TableTokens
    <3>5. Tok("op", p.op) \in Tokens /\ Tok("op", p.op).k = "op"
      <4>1. Tok("op", p.op) \in Symbols(names) BY <3>2, SymbolsHold
      <4> QED BY <4>1, TableTokens, MarksAreNoValues
    <3> DEFINE o == Tok("op", p.op)
               v == p.v
    <3> HIDE DEF o, v
    <3>6. ComesBack(<<Id(n), o, v>>, t, n)
      <4>1. o \in Tokens /\ o.k = "op" /\ v \in Tokens /\ ScalarToJson(<<v>>) = v
        BY <3>4, <3>5 DEF o, v
      <4> QED BY <1>2, <4>1, ComparisonComesBack
    <3>7. T = <<Id(n), o, v>> BY <3>3 DEF o, v
    <3> QED BY <2>1, <3>6, <3>7 DEF ComesBack
  <2>6. CASE p.c = n /\ p.p = "between"
    <3>1. Alone(e) /\ p.lo.k # "id" /\ p.hi.k # "id"
      <4>1. Own(e, n) BY <1>4, <1>7, <2>6
      <4> QED BY <2>6, <4>1 DEF Storable, p
    <3>2. p.lo \in ValueTok(names) /\ p.hi \in ValueTok(names) BY <1>1, <2>6, PrimaryShape
    <3>3. T = <<Id(n), Kw("BETWEEN"), p.lo, Kw("AND"), p.hi>>
      <4>1. T = s BY <1>5, <3>1
      <4>2. s = <<Id(p.c), Kw("BETWEEN"), p.lo, Kw("AND"), p.hi>> BY <2>6, Zenon DEF PrimaryText, s
      <4> QED BY <2>6, <4>1, <4>2
    <3>4. p.lo \in Tokens /\ p.hi \in Tokens /\ ScalarToJson(<<p.lo>>) = p.lo /\ ScalarToJson(<<p.hi>>) = p.hi
      BY <3>1, <3>2, TableTokens
    <3> DEFINE lo == p.lo
               hi == p.hi
    <3> HIDE DEF lo, hi
    <3>5. ComesBack(<<Id(n), Kw("BETWEEN"), lo, Kw("AND"), hi>>, t, n)
      <4>1. lo \in Tokens /\ hi \in Tokens /\ ScalarToJson(<<lo>>) = lo /\ ScalarToJson(<<hi>>) = hi
        BY <3>4 DEF lo, hi
      <4> QED BY <1>2, <4>1, RangeComesBack
    <3>6. T = <<Id(n), Kw("BETWEEN"), lo, Kw("AND"), hi>> BY <3>3 DEF lo, hi
    <3> QED BY <2>1, <3>5, <3>6 DEF ComesBack
  <2> QED BY <1>1, <1>7, <2>3, <2>4, <2>5, <2>6, PrimaryShape
<1>8. CASE p.p # "paren" /\ IsList(T, n)
  <2>1. t = Body(T) BY <1>8 DEF Stores, NormalizeStoredColumnCheckExpr, T, p
  <2>2. p.p = "in" /\ ~p.negated /\ p.c = n /\ ListBegins(T, p.items) BY <1>8, ListIsOwn DEF T, p
  <2>3. Alone(e)
    <3>1. Own(e, n) BY <1>4, <1>8, <2>2
    <3> QED BY <1>8, <2>2, <3>1 DEF Storable, p, T
  <2>4. p.items \in NonEmpty(ValueTok(names)) BY <1>1, <2>2, PrimaryShape
  <2> DEFINE list == ListText(p.items)
             m == Len(p.items)
  <2>5. t = list
    <3>1. /\ Body(T) \in Seq(Symbols(names)) /\ Len(Body(T)) = Len(T) - 4
          /\ \A j \in 1..Len(T) - 4 : Body(T)[j] = T[j + 3]
      BY <1>1, <1>8, BodyOf
    <3>2. ListAt(T, p)
      <4>1. ListAt(s, p) BY <1>1, <2>2, ListOf DEF s
      <4>2. T = s BY <1>5, <2>3
      <4> QED BY <4>1, <4>2
    <3>3. /\ Len(T) = 3 + 2 * m /\ (\A k \in 1..m : T[3 + 2 * k - 1] = p.items[k])
          /\ \A k \in 1..m - 1 : T[3 + 2 * k] = Comma
      BY <2>2, <3>2 DEF ListAt, InFrom
    <3>4. /\ list \in Seq(Symbols(names)) /\ Len(list) = 2 * m - 1
          /\ (\A k \in 1..m : list[2 * k - 1] = p.items[k]) /\ (\A k \in 1..m - 1 : list[2 * k] = Comma)
      <4> DEFINE V == ValueTok(names)
                 W == Symbols(names)
                 x == p.items
      <4>1. x \in Seq(V) \ {<<>>} /\ V \subseteq W /\ W \cup {Comma} = W
        BY <2>4, SymbolsHold DEF NonEmpty
      <4> HIDE DEF V, W, x
      <4>2. x \in Seq(W) \ {<<>>} BY <4>1
      <4>3. ListText(x) \in Seq(W) /\ Len(ListText(x)) = 2 * Len(x) - 1
            /\ (\A k \in 1..Len(x) : ListText(x)[2 * k - 1] = x[k])
            /\ (\A k \in 1..Len(x) - 1 : ListText(x)[2 * k] = Comma)
        BY <4>1, <4>2, ListPlaces
      <4> QED BY <4>3 DEF W, x
    <3>5. m \in Nat \ {0} BY <2>2 DEF ListBegins
    <3> HIDE DEF list, m
    <3>6. Len(t) = 2 * m - 1 /\ t \in Seq(Symbols(names)) /\ \A j \in 1..2 * m - 1 : t[j] = T[j + 3]
      <4>1. Len(T) - 4 = 2 * m - 1 BY <3>3, <3>5
      <4> QED BY <2>1, <3>1, <4>1
    <3>7. ASSUME NEW j \in 1..2 * m - 1 PROVE t[j] = list[j]
      <4>1. (\E k \in 1..m : j = 2 * k - 1) \/ (\E k \in 1..m - 1 : j = 2 * k)
        <5>1. (\E k \in Int : j = 2 * k) \/ \E k \in Int : j = 2 * k - 1
          <6>1. j \in Nat BY <3>5
          <6>2. (\E k \in Nat : j = 2 * k) \/ \E k \in Nat : j = 2 * k + 1
            BY <6>1, EvenOrOdd DEF EvenOr
          <6>3. ASSUME NEW k \in Nat, j = 2 * k + 1 PROVE \E i \in Int : j = 2 * i - 1
            <7>1. k + 1 \in Int /\ j = 2 * (k + 1) - 1 BY <6>3
            <7> QED BY <7>1
          <6>4. ASSUME NEW k \in Nat, j = 2 * k PROVE \E i \in Int : j = 2 * i
            <7>1. k \in Int OBVIOUS
            <7> QED BY <6>4, <7>1
          <6> QED BY <6>2, <6>3, <6>4
        <5> QED BY <3>5, <5>1
      <4>2. ASSUME NEW k \in 1..m, j = 2 * k - 1 PROVE t[j] = list[j]
        <5>1. j + 3 = 3 + 2 * k - 1 BY <3>5, <4>2
        <5> QED BY <3>3, <3>4, <3>6, <4>2, <5>1
      <4>3. ASSUME NEW k \in 1..m - 1, j = 2 * k PROVE t[j] = list[j]
        <5>1. j + 3 = 3 + 2 * k BY <3>5, <4>3
        <5> QED BY <3>3, <3>4, <3>6, <4>3, <5>1
      <4> QED BY <4>1, <4>2, <4>3
    <3> QED BY <3>4, <3>6, <3>7
  <2>6. ~IsList(list, n)
    <3>1. m \in Nat \ {0} /\ p.items \in Seq(ValueTok(names)) \ {<<>>}
      BY <2>2, <2>4 DEF ListBegins, NonEmpty
    <3>2. Len(list) = 2 * m - 1 /\ \A k \in 1..m - 1 : list[2 * k] = Comma BY <3>1, ListPlaces
    <3> HIDE DEF list, m
    <3> SUFFICES ASSUME Len(list) >= 4, list[2] = Kw("IN") PROVE FALSE BY DEF IsList
    <3>3. 1 \in 1..m - 1 /\ 2 * 1 = 2 BY <3>1, <3>2
    <3> QED BY <3>2, <3>3, MarksDiffer
  <2> HIDE DEF list
  <2>7. Reloaded(list, n) = list
    <3> DEFINE items == p.items
    <3>1. items \in NonEmpty(ValueTok(names)) /\ ~IsList(ListText(items), n) BY <2>4, <2>6 DEF list
    <3> HIDE DEF items
    <3>2. Reloaded(ListText(items), n) = ListText(items) BY <1>2, <3>1, ItemsComeBack
    <3> QED BY <3>2 DEF items, list
  <2> QED BY <2>5, <2>7
<1> QED BY <1>6, <1>7, <1>8

----------------------------------------------------------------------------
(* A CHECK after a rename: its text is the text of its renamed expression *)

LEMMA SeparatedRespelled ==
    ASSUME NEW S, NEW T, NEW f, Spelling(f, S, T), NEW parts \in Seq(Seq(S)), NEW separator \in S
    PROVE  Separated(EachRespelled(parts, f), f[separator]) = Respelled(Separated(parts, separator), f)
BY SeparatedIs, SeparatedRespell

\* All names a table may have, and what a rename makes of a token.
AllNames == Names \cup {NewName}
RenamedToken(x, from) == IF x = Id(from) THEN Id(NewName) ELSE x
RenamingOf(from) == [x \in Symbols(Names) |-> RenamedToken(x, from)]

\* It spells again a token of the same kind.
LEMMA RenamingSpells ==
    ASSUME NEW from \in Names
    PROVE  /\ Spelling(RenamingOf(from), Symbols(Names), Symbols(AllNames))
           /\ \A x \in Symbols(Names) : RenamingOf(from)[x] = RenamedToken(x, from)
           /\ \A n \in Names : RenamedToken(Id(n), from) = Id(NewNameOf(n, from)) /\ NewNameOf(n, from) \in AllNames
           /\ \A w : RenamedToken(Kw(w), from) = Kw(w) /\ RenamedToken(Tok("op", w), from) = Tok("op", w)
           /\ RenamedToken(Comma, from) = Comma
           /\ \A v \in ValueTok(Names) : RenamedToken(v, from) \in ValueTok(AllNames) /\ (RenamedToken(v, from).k = "id" => v.k = "id")
<1>1. \A w : RenamedToken(Kw(w), from) = Kw(w) /\ RenamedToken(Tok("op", w), from) = Tok("op", w)
  <2> TAKE w
  <2>1. Kw(w) # Id(from) /\ Tok("op", w) # Id(from) BY MarksAreNoValues
  <2> QED BY <2>1 DEF RenamedToken
<1>2. RenamedToken(Comma, from) = Comma BY <1>1 DEF Comma
<1>3. \A n \in Names : RenamedToken(Id(n), from) = Id(NewNameOf(n, from)) /\ NewNameOf(n, from) \in AllNames
  <2> TAKE n \in Names
  <2>1. Id(n) = Id(from) <=> n = from BY TokensDiffer DEF Id
  <2> QED BY <2>1 DEF RenamedToken, NewNameOf, AllNames
<1>4. ASSUME NEW v \in ValueTok(Names)
      PROVE  RenamedToken(v, from) \in ValueTok(AllNames) /\ (RenamedToken(v, from).k = "id" => v.k = "id")
  <2>1. Id(from).k = "id" /\ Id(NewName) \in ValueTok(AllNames) /\ v \in ValueTok(AllNames)
    <3>1. Id(from).k = "id" BY MarksAreNoValues
    <3>2. Id(NewName) \in ValueTok(AllNames) BY Zenon DEF ValueTok, AllNames
    <3>3. v \in ValueTok(AllNames) BY Zenon DEF ValueTok, AllNames
    <3> QED BY <3>1, <3>2, <3>3
  <2> QED BY <2>1 DEF RenamedToken
<1>5. ASSUME NEW x \in Symbols(Names) PROVE RenamedToken(x, from) \in Symbols(AllNames)
  <2>1. x \in Symbols(AllNames) /\ Id(NewName) \in Symbols(AllNames)
    <3>1. x \in Symbols(AllNames) BY Zenon DEF Symbols, ValueTok, AllNames
    <3>2. Id(NewName) \in Symbols(AllNames) BY Zenon DEF Symbols, ValueTok, AllNames
    <3> QED BY <3>1, <3>2
  <2> QED BY <2>1 DEF RenamedToken
<1>6. \A x \in Symbols(Names) : RenamingOf(from)[x] = RenamedToken(x, from) BY Zenon DEF RenamingOf
<1>7. Spelling(RenamingOf(from), Symbols(Names), Symbols(AllNames))
  <2> DEFINE S == Symbols(Names)
             T == Symbols(AllNames)
  <2>1. \A x \in S : RenamedToken(x, from) \in T BY <1>5
  <2> HIDE DEF S, T
  <2>2. [x \in S |-> RenamedToken(x, from)] \in [S -> T] BY <2>1
  <2> QED BY <2>2, Zenon DEF S, T, RenamingOf, Spelling
<1> QED BY <1>1, <1>2, <1>3, <1>4, <1>6, <1>7

\* A primary after a rename.
LEMMA RenamedPrimaryIs ==
    ASSUME NEW p \in Primary(Names), NEW from \in Names
    PROVE  LET q == RenamedPrimary(p, from, NewName) IN
           /\ q \in Primary(AllNames) /\ q.p = p.p
           /\ p.p # "paren" => p.c \in Names /\ q.c = NewNameOf(p.c, from)
           /\ p.p = "cmp" => q.op = p.op /\ q.v = RenamedToken(p.v, from)
           /\ p.p = "between" => q.lo = RenamedToken(p.lo, from) /\ q.hi = RenamedToken(p.hi, from)
           /\ p.p = "in" => /\ q.negated = p.negated /\ DOMAIN q.items = DOMAIN p.items
                            /\ q.items = [k \in DOMAIN p.items |-> RenamedToken(p.items[k], from)]
           /\ p.p = "paren" => q = p
<1> DEFINE q == RenamedPrimary(p, from, NewName)
<1>1. CASE p \in [p : {"cmp"}, c : Names, op : Operators, v : ValueTok(Names)]
  <2> DEFINE c == NewNameOf(p.c, from)
             v == RenamedToken(p.v, from)
  <2>1. p.p = "cmp" /\ p.c \in Names /\ p.op \in Operators /\ p.v \in ValueTok(Names)
        /\ p = [p |-> "cmp", c |-> p.c, op |-> p.op, v |-> p.v]
    BY <1>1
  <2>2. q = [p EXCEPT !.c = c, !.v = v] BY <2>1, Zenon DEF RenamedPrimary, NewNameOf, RenamedToken
  <2>3. c \in AllNames /\ v \in ValueTok(AllNames) BY <2>1, RenamingSpells
  <2> HIDE DEF c, v
  <2>4. q = [p |-> "cmp", c |-> c, op |-> p.op, v |-> v] BY <2>1, <2>2
  <2>5. q \in Primary(AllNames) BY <2>1, <2>3, <2>4 DEF Primary
  <2>6. q.p = "cmp" /\ q.c = c /\ q.op = p.op /\ q.v = v BY <2>4
  <2> QED BY <2>1, <2>5, <2>6 DEF c, v
<1>2. CASE p \in [p : {"between"}, c : Names, lo : ValueTok(Names), hi : ValueTok(Names)]
  <2> DEFINE c == NewNameOf(p.c, from)
             lo == RenamedToken(p.lo, from)
             hi == RenamedToken(p.hi, from)
  <2>1. p.p = "between" /\ p.c \in Names /\ p.lo \in ValueTok(Names) /\ p.hi \in ValueTok(Names)
        /\ p = [p |-> "between", c |-> p.c, lo |-> p.lo, hi |-> p.hi]
    BY <1>2
  <2>2. q = [p EXCEPT !.c = c, !.lo = lo, !.hi = hi]
    BY <2>1, Zenon DEF RenamedPrimary, NewNameOf, RenamedToken
  <2>3. c \in AllNames /\ lo \in ValueTok(AllNames) /\ hi \in ValueTok(AllNames)
    BY <2>1, RenamingSpells
  <2> HIDE DEF c, lo, hi
  <2>4. q = [p |-> "between", c |-> c, lo |-> lo, hi |-> hi] BY <2>1, <2>2
  <2>5. q \in Primary(AllNames) BY <2>1, <2>3, <2>4 DEF Primary
  <2>6. q.p = "between" /\ q.c = c /\ q.lo = lo /\ q.hi = hi BY <2>4
  <2> QED BY <2>1, <2>5, <2>6 DEF c, lo, hi
<1>3. CASE p \in [p : {"in"}, c : Names, negated : BOOLEAN, items : NonEmpty(ValueTok(Names))]
  <2> DEFINE c == NewNameOf(p.c, from)
             x == p.items
             items == [k \in DOMAIN x |-> RenamedToken(x[k], from)]
  <2>1. p.p = "in" /\ p.c \in Names /\ p.negated \in BOOLEAN /\ p.items \in NonEmpty(ValueTok(Names))
        /\ p = [p |-> "in", c |-> p.c, negated |-> p.negated, items |-> p.items]
    BY <1>3
  <2>2. q = [p EXCEPT !.c = c, !.items = items]
    BY <2>1, Zenon DEF RenamedPrimary, NewNameOf, RenamedToken
  <2>3. c \in AllNames BY <2>1, RenamingSpells
  <2>4. items \in NonEmpty(ValueTok(AllNames)) /\ DOMAIN items = DOMAIN x
    <3> DEFINE V == ValueTok(Names)
               W == ValueTok(AllNames)
    <3>1. \A v \in V : RenamedToken(v, from) \in W BY RenamingSpells
    <3>2. x \in Seq(V) /\ x # <<>> BY <2>1 DEF NonEmpty
    <3> HIDE DEF V, W, x
    <3>3. \A k \in DOMAIN x : RenamedToken(x[k], from) \in W BY <3>1, <3>2
    <3>4. items \in Seq(W) /\ items # <<>> /\ DOMAIN items = DOMAIN x BY <3>2, <3>3
    <3> QED BY <3>4 DEF W, NonEmpty
  <2> HIDE DEF c, items, x
  <2>5. q = [p |-> "in", c |-> c, negated |-> p.negated, items |-> items] BY <2>1, <2>2
  <2>6. q \in Primary(AllNames) BY <2>1, <2>3, <2>4, <2>5 DEF Primary
  <2>7. q.p = "in" /\ q.c = c /\ q.negated = p.negated /\ q.items = items BY <2>5
  <2> QED BY <2>1, <2>4, <2>6, <2>7 DEF c, items, x
<1>4. CASE p \in [p : {"paren"}, of : Nat \ {0}]
  <2>1. p.p = "paren" BY <1>4
  <2>2. q = p BY <2>1, Zenon DEF RenamedPrimary
  <2>3. p \in Primary(AllNames) BY <1>4 DEF Primary
  <2> QED BY <2>1, <2>2, <2>3
<1> QED BY <1>1, <1>2, <1>3, <1>4 DEF Primary

\* The text of a renamed condition is the condition's text, respelled.
LEMMA ListRespelled ==
    ASSUME NEW S, NEW T, NEW f, Spelling(f, S, T), NEW items \in Seq(S), Comma \in S
    PROVE  Separated([k \in DOMAIN items |-> <<f[items[k]]>>], f[Comma]) = Respelled(ListText(items), f)
<1> DEFINE parts == [k \in DOMAIN items |-> <<items[k]>>]
           n == Len(items)
<1>1. n \in Nat /\ DOMAIN items = 1..n /\ \A k \in 1..n : items[k] \in S /\ <<items[k]>> \in Seq(S)
  OBVIOUS
<1>2. parts \in Seq(Seq(S)) /\ DOMAIN parts = 1..n /\ \A k \in 1..n : parts[k] = <<items[k]>>
  <2> DEFINE V == Seq(S)
  <2>1. \A k \in 1..n : <<items[k]>> \in V BY <1>1
  <2>2. n \in Nat /\ DOMAIN items = 1..n BY <1>1
  <2> HIDE DEF V, n
  <2>3. parts \in Seq(V) BY <2>1, <2>2
  <2> QED BY <2>2, <2>3 DEF V
<1>3. EachRespelled(parts, f) = [k \in DOMAIN items |-> <<f[items[k]]>>]
  <2>1. \A x : Respelled(<<x>>, f) = <<f[x]>> BY DEF Respelled
  <2> HIDE DEF parts, n
  <2> QED BY <1>1, <1>2, <2>1 DEF EachRespelled
<1>4. ListText(items) = Separated(parts, Comma) BY DEF ListText
<1> HIDE DEF parts
<1>5. Separated(EachRespelled(parts, f), f[Comma]) = Respelled(Separated(parts, Comma), f)
  BY <1>2, SeparatedRespelled
<1> QED BY <1>3, <1>4, <1>5

\* The text of a primary after a rename.
RespelledIn(p, after, texts, f) == p.p = "paren" => after[p.of] = Respelled(texts[p.of], f)
LEMMA PrimaryRespelled ==
    ASSUME NEW p \in Primary(Names), NEW from \in Names, NEW texts, Known(p, texts, Names),
           NEW after, RespelledIn(p, after, texts, RenamingOf(from))
    PROVE  PrimaryText(RenamedPrimary(p, from, NewName), after)
           = Respelled(PrimaryText(p, texts), RenamingOf(from))
<1> DEFINE q == RenamedPrimary(p, from, NewName)
           f == RenamingOf(from)
           S == Symbols(Names)
           T == Symbols(AllNames)
<1>1. /\ Spelling(f, S, T) /\ (\A x \in S : f[x] = RenamedToken(x, from))
      /\ (\A w : RenamedToken(Kw(w), from) = Kw(w) /\ RenamedToken(Tok("op", w), from) = Tok("op", w))
      /\ (\A n \in Names : RenamedToken(Id(n), from) = Id(NewNameOf(n, from)))
      /\ RenamedToken(Comma, from) = Comma
  BY RenamingSpells
<1>2. /\ (\A n \in Names : Id(n) \in S) /\ (\A o \in Operators : Tok("op", o) \in S)
      /\ Kw("(") \in S /\ Kw(")") \in S /\ Kw("AND") \in S /\ Kw("NOT") \in S /\ Kw("IN") \in S
      /\ Kw("BETWEEN") \in S /\ Comma \in S /\ (\A v \in ValueTok(Names) : v \in S)
  BY SymbolsHold
<1>3. /\ q.p = p.p
      /\ p.p # "paren" => p.c \in Names /\ q.c = NewNameOf(p.c, from)
      /\ p.p = "cmp" => q.op = p.op /\ q.v = RenamedToken(p.v, from)
      /\ p.p = "between" => q.lo = RenamedToken(p.lo, from) /\ q.hi = RenamedToken(p.hi, from)
      /\ p.p = "in" => /\ q.negated = p.negated
                       /\ q.items = [k \in DOMAIN p.items |-> RenamedToken(p.items[k], from)]
      /\ p.p = "paren" => q = p
  BY RenamedPrimaryIs
<1> HIDE DEF q, f, S, T
<1>4. CASE p.p = "cmp"
  <2>1. PrimaryText(p, texts) = <<Id(p.c), Tok("op", p.op), p.v>>
        /\ PrimaryText(q, after) = <<Id(q.c), Tok("op", q.op), q.v>>
    BY <1>3, <1>4, Zenon DEF PrimaryText
  <2>2. p.c \in Names /\ p.op \in Operators /\ p.v \in ValueTok(Names) BY <1>4, PrimaryShape
  <2>3. f[Id(p.c)] = Id(q.c) /\ f[Tok("op", p.op)] = Tok("op", q.op) /\ f[p.v] = q.v
    BY <1>1, <1>2, <1>3, <1>4, <2>2
  <2>4. Respelled(<<Id(p.c), Tok("op", p.op), p.v>>, f) = <<f[Id(p.c)], f[Tok("op", p.op)], f[p.v]>>
    BY Zenon, ThreeRespelled
  <2> QED BY <2>1, <2>3, <2>4 DEF f, q
<1>5. CASE p.p = "between"
  <2>1. PrimaryText(p, texts) = <<Id(p.c), Kw("BETWEEN"), p.lo, Kw("AND"), p.hi>>
        /\ PrimaryText(q, after) = <<Id(q.c), Kw("BETWEEN"), q.lo, Kw("AND"), q.hi>>
    BY <1>3, <1>5, Zenon DEF PrimaryText
  <2>2. p.c \in Names /\ p.lo \in ValueTok(Names) /\ p.hi \in ValueTok(Names) BY <1>5, PrimaryShape
  <2>3. f[Id(p.c)] = Id(q.c) /\ f[Kw("BETWEEN")] = Kw("BETWEEN") /\ f[p.lo] = q.lo
        /\ f[Kw("AND")] = Kw("AND") /\ f[p.hi] = q.hi
    BY <1>1, <1>2, <1>3, <1>5, <2>2
  <2>4. Respelled(<<Id(p.c), Kw("BETWEEN"), p.lo, Kw("AND"), p.hi>>, f)
        = <<f[Id(p.c)], f[Kw("BETWEEN")], f[p.lo], f[Kw("AND")], f[p.hi]>>
    <3> DEFINE a == Id(p.c)
               b == Kw("BETWEEN")
               c == p.lo
               d == Kw("AND")
               g == p.hi
    <3> HIDE DEF a, b, c, d, g
    <3>1. Respelled(<<a, b, c, d, g>>, f) = <<f[a], f[b], f[c], f[d], f[g]>> BY FiveRespelled
    <3> QED BY <3>1 DEF a, b, c, d, g
  <2> QED BY <2>1, <2>3, <2>4 DEF f, q
<1>6. CASE p.p = "in"
  <2> DEFINE x == p.items
             l == ListText(p.items)
             not == IF p.negated THEN <<Kw("NOT")>> ELSE <<>>
             a == <<Id(p.c)>>
             b == <<Kw("IN"), Kw("(")>>
  <2>1. /\ PrimaryText(p, texts) = a \o not \o b \o l \o <<Kw(")")>>
        /\ PrimaryText(q, after) = <<Id(q.c)>> \o (IF q.negated THEN <<Kw("NOT")>> ELSE <<>>) \o b
                                   \o ListText(q.items) \o <<Kw(")")>>
    BY <1>3, <1>6, Zenon DEF PrimaryText
  <2>2. p.c \in Names /\ p.negated \in BOOLEAN /\ x \in NonEmpty(ValueTok(Names))
    BY <1>6, PrimaryShape
  <2>3. x \in Seq(S)
    <3> DEFINE V == ValueTok(Names)
    <3>1. x \in Seq(V) /\ V \subseteq S BY <1>2, <2>2 DEF NonEmpty
    <3> HIDE DEF V, x
    <3> QED BY <3>1
  <2>4. ListText(q.items) = Respelled(l, f)
    <3>1. DOMAIN x = 1..Len(x) /\ \A k \in DOMAIN x : x[k] \in S BY <2>3
    <3>2. q.items = [k \in DOMAIN x |-> f[x[k]]] BY <1>1, <1>3, <1>6, <3>1
    <3>3. DOMAIN q.items = DOMAIN x /\ \A k \in DOMAIN x : q.items[k] = f[x[k]] BY <3>2
    <3>4. [k \in DOMAIN q.items |-> <<q.items[k]>>] = [k \in DOMAIN x |-> <<f[x[k]]>>] BY <3>3
    <3>5. f[Comma] = Comma BY <1>1, <1>2
    <3>6. ListText(q.items) = Separated([k \in DOMAIN x |-> <<f[x[k]]>>], f[Comma])
      BY <3>4, <3>5, Zenon DEF ListText
    <3> HIDE DEF x
    <3>7. Separated([k \in DOMAIN x |-> <<f[x[k]]>>], f[Comma]) = Respelled(ListText(x), f)
      BY <1>1, <1>2, <2>3, ListRespelled
    <3> QED BY <3>6, <3>7 DEF x
  <2>5. l \in Seq(S)
    <3>1. x \in Seq(S) \ {<<>>} BY <2>2, <2>3 DEF NonEmpty
    <3>2. S \cup {Comma} = S BY <1>2
    <3> HIDE DEF x
    <3>3. ListText(x) \in Seq(S \cup {Comma}) BY <3>1, ListPlaces
    <3> QED BY <3>2, <3>3 DEF x
  <2>6. /\ a \in Seq(S) /\ Respelled(a, f) = <<Id(q.c)>>
    <3>1. Id(p.c) \in S /\ f[Id(p.c)] = Id(q.c) BY <1>1, <1>2, <1>3, <1>6, <2>2
    <3>2. Respelled(a, f) = <<f[Id(p.c)]>> BY Zenon, FewRespelled
    <3> QED BY <3>1, <3>2
  <2>7. not \in Seq(S) /\ Respelled(not, f) = IF q.negated THEN <<Kw("NOT")>> ELSE <<>>
    <3>1. Kw("NOT") \in S /\ f[Kw("NOT")] = Kw("NOT") BY <1>1, <1>2
    <3>2. <<Kw("NOT")>> \in Seq(S) /\ Respelled(<<Kw("NOT")>>, f) = <<Kw("NOT")>>
          /\ <<>> \in Seq(S) /\ Respelled(<<>>, f) = <<>>
      <4>1. Respelled(<<Kw("NOT")>>, f) = <<f[Kw("NOT")]>> /\ Respelled(<<>>, f) = <<>>
        BY Zenon, FewRespelled
      <4> QED BY <3>1, <4>1
    <3> QED BY <1>3, <1>6, <2>2, <3>2
  <2>8. b \in Seq(S) /\ Respelled(b, f) = b
    <3>1. Kw("IN") \in S /\ f[Kw("IN")] = Kw("IN") /\ Kw("(") \in S /\ f[Kw("(")] = Kw("(")
      BY <1>1, <1>2
    <3>2. Respelled(b, f) = <<f[Kw("IN")], f[Kw("(")]>> BY Zenon, FewRespelled
    <3> QED BY <3>1, <3>2
  <2>9. Kw(")") \in S /\ f[Kw(")")] = Kw(")") BY <1>1, <1>2
  <2> HIDE DEF a, b, not, l
  <2>10. a \o not \in Seq(S) /\ Respelled(a \o not, f) = Respelled(a, f) \o Respelled(not, f)
    <3>1. Spelling(f, S, T) /\ a \in Seq(S) /\ not \in Seq(S) BY <1>1, <2>6, <2>7
    <3> QED BY <3>1, RespelledJoins
  <2> DEFINE c == a \o not
  <2> HIDE DEF c
  <2>11. c \o b \in Seq(S) /\ Respelled(c \o b, f) = Respelled(c, f) \o Respelled(b, f)
    <3>1. c \in Seq(S) BY <2>10 DEF c
    <3>2. Spelling(f, S, T) /\ b \in Seq(S) BY <1>1, <2>8
    <3> QED BY <3>1, <3>2, RespelledJoins
  <2> DEFINE d == c \o b
  <2> HIDE DEF d
  <2>12. Respelled(d \o l \o <<Kw(")")>>, f) = Respelled(d, f) \o Respelled(l, f) \o <<f[Kw(")")]>>
    <3>1. d \in Seq(S) BY <2>11 DEF d
    <3> DEFINE z == <<Kw(")")>>
    <3>2. Spelling(f, S, T) /\ l \in Seq(S) /\ z \in Seq(S) BY <1>1, <2>5, <2>9
    <3>3. Respelled(z, f) = <<f[Kw(")")]>> BY Zenon, FewRespelled
    <3> HIDE DEF z
    <3>4. d \o l \in Seq(S) /\ Respelled(d \o l, f) = Respelled(d, f) \o Respelled(l, f)
      BY <3>1, <3>2, RespelledJoins
    <3> DEFINE u == d \o l
    <3> HIDE DEF u
    <3>5. u \in Seq(S) /\ Respelled(u, f) = Respelled(d, f) \o Respelled(l, f) BY <3>4 DEF u
    <3>6. u \o z \in Seq(S) /\ Respelled(u \o z, f) = Respelled(u, f) \o Respelled(z, f)
      <4>1. Spelling(f, S, T) /\ u \in Seq(S) /\ z \in Seq(S) BY <3>2, <3>5
      <4> QED BY <4>1, RespelledJoins
    <3>7. Respelled(u \o z, f) = Respelled(d, f) \o Respelled(l, f) \o Respelled(z, f) BY <3>5, <3>6
    <3> QED BY <3>3, <3>7 DEF u, z
  <2>13. PrimaryText(p, texts) = d \o l \o <<Kw(")")>> BY <2>1 DEF c, d
  <2>14. Respelled(d, f) = Respelled(a, f) \o Respelled(not, f) \o b BY <2>8, <2>10, <2>11 DEF c, d
  <2> QED BY <2>1, <2>4, <2>6, <2>7, <2>9, <2>12, <2>13, <2>14 DEF f, q
<1>7. CASE p.p = "paren"
  <2> DEFINE s == texts[p.of]
  <2>1. PrimaryText(p, texts) = <<Kw("(")>> \o s \o <<Kw(")")>>
        /\ PrimaryText(q, after) = <<Kw("(")>> \o after[p.of] \o <<Kw(")")>>
    BY <1>3, <1>7, Zenon DEF PrimaryText
  <2>2. s \in Seq(S) /\ after[p.of] = Respelled(s, f)
    BY <1>7 DEF Known, Sentence, NonEmpty, RespelledIn, S, f
  <2>3. Kw("(") \in S /\ f[Kw("(")] = Kw("(") /\ Kw(")") \in S /\ f[Kw(")")] = Kw(")") BY <1>1, <1>2
  <2> HIDE DEF s
  <2> DEFINE a == <<Kw("(")>>
  <2>4. a \in Seq(S) /\ Respelled(a, f) = a
    <3>1. Respelled(a, f) = <<f[Kw("(")]>> BY Zenon, FewRespelled
    <3> QED BY <2>3, <3>1
  <2> HIDE DEF a
  <2>5. Respelled(a \o s \o <<Kw(")")>>, f) = Respelled(a, f) \o Respelled(s, f) \o <<f[Kw(")")]>>
    <3> DEFINE z == <<Kw(")")>>
    <3>1. Spelling(f, S, T) /\ a \in Seq(S) /\ s \in Seq(S) /\ z \in Seq(S)
      BY <1>1, <2>2, <2>3, <2>4
    <3>2. Respelled(z, f) = <<f[Kw(")")]>> BY Zenon, FewRespelled
    <3> HIDE DEF z
    <3>3. a \o s \in Seq(S) /\ Respelled(a \o s, f) = Respelled(a, f) \o Respelled(s, f)
      BY <3>1, RespelledJoins
    <3> DEFINE u == a \o s
    <3> HIDE DEF u
    <3>4. u \in Seq(S) /\ Respelled(u, f) = Respelled(a, f) \o Respelled(s, f) BY <3>3 DEF u
    <3>5. u \o z \in Seq(S) /\ Respelled(u \o z, f) = Respelled(u, f) \o Respelled(z, f)
      <4>1. Spelling(f, S, T) /\ u \in Seq(S) /\ z \in Seq(S) BY <3>1, <3>4
      <4> QED BY <4>1, RespelledJoins
    <3>6. Respelled(u \o z, f) = Respelled(a, f) \o Respelled(s, f) \o Respelled(z, f) BY <3>4, <3>5
    <3> QED BY <3>2, <3>6 DEF u, z
  <2> QED BY <2>1, <2>2, <2>3, <2>4, <2>5 DEF a, f, q
<1> QED BY <1>4, <1>5, <1>6, <1>7, PrimaryShape

\* A rename of a connective and of a part.
RenamedAnd(and, from) == [m \in DOMAIN and |-> RenamedPrimary(and[m], from, NewName)]
RenamedPart(part, from) == [k \in DOMAIN part |-> RenamedAnd(part[k], from)]

\* Sequences, none of them empty, keep their lengths.
LEMMA NonEmptyOf ==
    ASSUME NEW V, NEW s, NEW n \in Nat \ {0}, s = [k \in 1..n |-> s[k]], \A k \in 1..n : s[k] \in V
    PROVE  s \in NonEmpty(V) /\ Len(s) = n /\ DOMAIN s = 1..n
<1>1. s \in Seq(V) /\ Len(s) = n OBVIOUS
<1>2. s # <<>> BY <1>1
<1> QED BY <1>1, <1>2 DEF NonEmpty

LEMMA RenamedAndIs ==
    ASSUME NEW and \in NonEmpty(Primary(Names)), NEW from \in Names
    PROVE  /\ RenamedAnd(and, from) \in NonEmpty(Primary(AllNames))
           /\ DOMAIN RenamedAnd(and, from) = DOMAIN and /\ DOMAIN and = 1..Len(and)
           /\ Len(RenamedAnd(and, from)) = Len(and)
           /\ \A m \in DOMAIN and : RenamedAnd(and, from)[m] = RenamedPrimary(and[m], from, NewName)
<1> DEFINE n == Len(and)
           r == RenamedAnd(and, from)
<1>1. n \in Nat \ {0} /\ DOMAIN and = 1..n /\ \A m \in 1..n : and[m] \in Primary(Names)
  BY DEF NonEmpty
<1>2. r = [m \in 1..n |-> RenamedPrimary(and[m], from, NewName)] BY <1>1 DEF RenamedAnd
<1> HIDE DEF r, n
<1>3. r = [m \in 1..n |-> r[m]] /\ \A m \in 1..n : r[m] = RenamedPrimary(and[m], from, NewName)
  BY <1>2
<1>4. \A m \in 1..n : r[m] \in Primary(AllNames)
  <2> TAKE m \in 1..n
  <2> DEFINE x == and[m]
  <2>1. x \in Primary(Names) /\ r[m] = RenamedPrimary(x, from, NewName) BY <1>1, <1>3
  <2> HIDE DEF x
  <2>2. RenamedPrimary(x, from, NewName) \in Primary(AllNames) BY <2>1, RenamedPrimaryIs
  <2> QED BY <2>1, <2>2
<1>5. r \in NonEmpty(Primary(AllNames)) /\ Len(r) = n /\ DOMAIN r = 1..n
  BY <1>1, <1>3, <1>4, NonEmptyOf
<1> QED BY <1>1, <1>3, <1>5 DEF r, n

LEMMA RenamedPartIs ==
    ASSUME NEW part \in Part(Names), NEW from \in Names
    PROVE  /\ RenamedPart(part, from) \in Part(AllNames)
           /\ DOMAIN RenamedPart(part, from) = DOMAIN part /\ DOMAIN part = 1..Len(part)
           /\ Len(RenamedPart(part, from)) = Len(part)
           /\ \A k \in DOMAIN part : RenamedPart(part, from)[k] = RenamedAnd(part[k], from)
<1> DEFINE n == Len(part)
           r == RenamedPart(part, from)
<1>1. n \in Nat \ {0} /\ DOMAIN part = 1..n /\ \A k \in 1..n : part[k] \in NonEmpty(Primary(Names))
  BY DEF NonEmpty, Part
<1>2. r = [k \in 1..n |-> RenamedAnd(part[k], from)] BY <1>1 DEF RenamedPart
<1> HIDE DEF r, n
<1>3. r = [k \in 1..n |-> r[k]] /\ \A k \in 1..n : r[k] = RenamedAnd(part[k], from) BY <1>2
<1>4. \A k \in 1..n : r[k] \in NonEmpty(Primary(AllNames)) BY <1>1, <1>3, RenamedAndIs
<1>5. r \in NonEmpty(NonEmpty(Primary(AllNames))) /\ Len(r) = n /\ DOMAIN r = 1..n
  BY <1>1, <1>3, <1>4, NonEmptyOf
<1> QED BY <1>1, <1>3, <1>5 DEF r, n, Part

\* A renamed expression is one over the new names.
LEMMA RenamedExpression ==
    ASSUME NEW e \in Expression(Names), NEW from \in Names
    PROVE  /\ RenamedIn(e, from, NewName) \in Expression(AllNames)
           /\ Len(RenamedIn(e, from, NewName)) = Len(e)
           /\ \A i \in 1..Len(e) : RenamedIn(e, from, NewName)[i] = RenamedPart(e[i], from)
<1> DEFINE n == Len(e)
           r == RenamedIn(e, from, NewName)
<1>1. n \in Nat \ {0} /\ DOMAIN e = 1..n /\ \A i \in 1..n : e[i] \in Part(Names) BY ExpressionParts
<1>2. r = [i \in 1..n |-> RenamedPart(e[i], from)]
  BY <1>1, Zenon DEF RenamedIn, RenamedPart, RenamedAnd
<1> HIDE DEF r, n
<1>3. r = [i \in 1..n |-> r[i]] /\ \A i \in 1..n : r[i] = RenamedPart(e[i], from) BY <1>2
<1>4. \A i \in 1..n : r[i] \in Part(AllNames) BY <1>1, <1>3, RenamedPartIs
<1>5. r \in NonEmpty(Part(AllNames)) /\ Len(r) = n /\ DOMAIN r = 1..n
  BY <1>1, <1>3, <1>4, NonEmptyOf
<1>6. ASSUME NEW i \in DOMAIN r, NEW k \in DOMAIN r[i], NEW m \in DOMAIN r[i][k], r[i][k][m].p = "paren"
      PROVE  r[i][k][m].of < i
  <2>1. i \in 1..n /\ e[i] \in Part(Names) /\ r[i] = RenamedPart(e[i], from) BY <1>1, <1>3, <1>5
  <2>2. k \in DOMAIN e[i] /\ r[i][k] = RenamedAnd(e[i][k], from) /\ e[i][k] \in NonEmpty(Primary(Names))
    <3>1. k \in DOMAIN e[i] /\ r[i][k] = RenamedAnd(e[i][k], from) BY <1>6, <2>1, RenamedPartIs
    <3> QED BY <2>1, <3>1, ExpressionParts DEF n
  <2>3. m \in DOMAIN e[i][k] /\ r[i][k][m] = RenamedPrimary(e[i][k][m], from, NewName)
    BY <1>6, <2>2, RenamedAndIs
  <2> DEFINE x == e[i][k][m]
  <2>4. x \in Primary(Names) /\ (x.p = "paren" => x.of \in 1..i - 1)
    BY <2>1, <2>2, <2>3, ExpressionParts DEF n
  <2>5. r[i][k][m].p = x.p /\ (x.p = "paren" => r[i][k][m] = x)
    <3>1. r[i][k][m] = RenamedPrimary(x, from, NewName) BY <2>3
    <3> HIDE DEF x
    <3>2. RenamedPrimary(x, from, NewName).p = x.p
          /\ (x.p = "paren" => RenamedPrimary(x, from, NewName) = x)
      BY <2>4, RenamedPrimaryIs
    <3> QED BY <3>1, <3>2
  <2> HIDE DEF x
  <2>6. x.p = "paren" /\ r[i][k][m] = x BY <1>6, <2>5
  <2>7. x.of \in 1..i - 1 /\ i \in Nat BY <1>1, <2>1, <2>4, <2>6
  <2> DEFINE o == x.of
  <2> HIDE DEF o
  <2>8. o < i
    <3>1. o \in 1..i - 1 /\ i \in Nat BY <2>7 DEF o
    <3> QED BY <3>1
  <2> QED BY <2>6, <2>8 DEF o
<1>7. r \in Expression(AllNames) BY <1>5, <1>6 DEF Expression, Part
<1> QED BY <1>3, <1>5, <1>7 DEF r, n

\* The text of a renamed part is the part's text, respelled.
LEMMA AndRespelled ==
    ASSUME NEW and \in NonEmpty(Primary(Names)), NEW from \in Names, NEW texts, NEW after,
           \A m \in DOMAIN and : /\ Known(and[m], texts, Names)
                                 /\ RespelledIn(and[m], after, texts, RenamingOf(from))
    PROVE  /\ AndText(RenamedAnd(and, from), after) = Respelled(AndText(and, texts), RenamingOf(from))
           /\ AndText(and, texts) \in Seq(Symbols(Names))
<1> DEFINE f == RenamingOf(from)
           S == Symbols(Names)
           r == RenamedAnd(and, from)
           n == Len(and)
           parts == AndParts(and, texts)
           now == AndParts(r, after)
<1>1. /\ n \in Nat \ {0} /\ DOMAIN and = 1..n /\ DOMAIN r = 1..n
      /\ \A m \in 1..n : and[m] \in Primary(Names) /\ r[m] = RenamedPrimary(and[m], from, NewName)
  BY RenamedAndIs DEF NonEmpty
<1>2. AndText(and, texts) = Separated(parts, Kw("AND")) /\ AndText(r, after) = Separated(now, Kw("AND"))
  BY Zenon DEF AndText, AndParts
<1>3. \A m \in 1..n : parts[m] = PrimaryText(and[m], texts) /\ now[m] = PrimaryText(r[m], after)
  BY <1>1 DEF AndParts
<1>4. parts = [m \in 1..n |-> parts[m]] /\ now = [m \in 1..n |-> now[m]] BY <1>1 DEF AndParts
<1> HIDE DEF r, parts, now, n, S, f
<1>5. ASSUME NEW m \in 1..n PROVE parts[m] \in Seq(S) /\ now[m] = Respelled(parts[m], f)
  <2>1. and[m] \in Primary(Names) /\ Known(and[m], texts, Names) /\ RespelledIn(and[m], after, texts, f)
    BY <1>1 DEF f
  <2>2. PrimaryText(and[m], texts) \in Seq(S) BY <2>1, PrimaryPlaces DEF Sentence, NonEmpty, S
  <2>3. PrimaryText(RenamedPrimary(and[m], from, NewName), after) = Respelled(PrimaryText(and[m], texts), f)
    BY <2>1, PrimaryRespelled DEF f
  <2> QED BY <1>1, <1>3, <2>2, <2>3
<1>6. parts \in Seq(Seq(S)) /\ DOMAIN parts = 1..n
  <2> DEFINE V == Seq(S)
  <2>1. \A m \in 1..n : parts[m] \in V BY <1>5
  <2>2. n \in Nat BY <1>1
  <2> HIDE DEF V
  <2>3. parts \in Seq(V) /\ DOMAIN parts = 1..n BY <1>4, <2>1, <2>2
  <2> QED BY <2>3 DEF V
<1>7. now = EachRespelled(parts, f) BY <1>4, <1>5, <1>6 DEF EachRespelled
<1>8. Kw("AND") \in S /\ f[Kw("AND")] = Kw("AND") /\ Spelling(f, S, Symbols(AllNames))
  <2>1. Kw("AND") \in S BY SymbolsHold DEF S
  <2> QED BY <2>1, RenamingSpells DEF f, S
<1> DEFINE z == Kw("AND")
<1> HIDE DEF z
<1>9. Separated(EachRespelled(parts, f), f[z]) = Respelled(Separated(parts, z), f)
  <2>1. z \in S /\ Spelling(f, S, Symbols(AllNames)) BY <1>8 DEF z
  <2> QED BY <1>6, <2>1, SeparatedRespelled
<1>10. AndText(and, texts) \in Seq(S)
  <2>1. AndText(and, texts) \in Sentence(Names) BY AndPlaces
  <2> QED BY <2>1 DEF Sentence, NonEmpty, S
<1> QED BY <1>2, <1>7, <1>8, <1>9, <1>10 DEF z, f, r, S

LEMMA OrRespelled ==
    ASSUME NEW part \in Part(Names), NEW from \in Names, NEW texts, NEW after,
           AllKnown(part, texts, Names),
           \A k \in DOMAIN part : \A m \in DOMAIN part[k] :
               RespelledIn(part[k][m], after, texts, RenamingOf(from))
    PROVE  OrText(RenamedPart(part, from), after) = Respelled(OrText(part, texts), RenamingOf(from))
<1> DEFINE f == RenamingOf(from)
           S == Symbols(Names)
           r == RenamedPart(part, from)
           n == Len(part)
           parts == OrParts(part, texts)
           now == OrParts(r, after)
<1>1. /\ n \in Nat \ {0} /\ DOMAIN part = 1..n /\ DOMAIN r = 1..n
      /\ \A k \in 1..n : part[k] \in NonEmpty(Primary(Names)) /\ r[k] = RenamedAnd(part[k], from)
  BY RenamedPartIs DEF NonEmpty, Part
<1>2. OrText(part, texts) = Separated(parts, Kw("OR")) /\ OrText(r, after) = Separated(now, Kw("OR"))
  BY Zenon DEF OrText, OrParts
<1>3. \A k \in 1..n : parts[k] = AndText(part[k], texts) /\ now[k] = AndText(r[k], after)
  BY <1>1 DEF OrParts
<1>4. parts = [k \in 1..n |-> parts[k]] /\ now = [k \in 1..n |-> now[k]] BY <1>1 DEF OrParts
<1> HIDE DEF r, parts, now, n, S, f
<1>5. ASSUME NEW k \in 1..n PROVE parts[k] \in Seq(S) /\ now[k] = Respelled(parts[k], f)
  <2>1. part[k] \in NonEmpty(Primary(Names)) /\ \A m \in DOMAIN part[k] :
          Known(part[k][m], texts, Names) /\ RespelledIn(part[k][m], after, texts, RenamingOf(from))
    BY <1>1 DEF AllKnown
  <2>2. AndText(RenamedAnd(part[k], from), after) = Respelled(AndText(part[k], texts), RenamingOf(from))
        /\ AndText(part[k], texts) \in Seq(Symbols(Names))
    BY <2>1, AndRespelled
  <2> QED BY <1>1, <1>3, <2>2 DEF f, S
<1>6. parts \in Seq(Seq(S)) /\ DOMAIN parts = 1..n
  <2> DEFINE V == Seq(S)
  <2>1. \A k \in 1..n : parts[k] \in V BY <1>5
  <2>2. n \in Nat BY <1>1
  <2> HIDE DEF V
  <2>3. parts \in Seq(V) /\ DOMAIN parts = 1..n BY <1>4, <2>1, <2>2
  <2> QED BY <2>3 DEF V
<1>7. now = EachRespelled(parts, f) BY <1>4, <1>5, <1>6 DEF EachRespelled
<1>8. Kw("OR") \in S /\ f[Kw("OR")] = Kw("OR") /\ Spelling(f, S, Symbols(AllNames))
  <2>1. Kw("OR") \in S BY SymbolsHold DEF S
  <2> QED BY <2>1, RenamingSpells DEF f, S
<1> DEFINE z == Kw("OR")
<1> HIDE DEF z
<1>9. Separated(EachRespelled(parts, f), f[z]) = Respelled(Separated(parts, z), f)
  <2>1. z \in S /\ Spelling(f, S, Symbols(AllNames)) BY <1>8 DEF z
  <2> QED BY <1>6, <2>1, SeparatedRespelled
<1> QED BY <1>2, <1>7, <1>8, <1>9 DEF z, f, r

\* The text of a renamed expression is the expression's text, respelled: what
\* RENAME makes of the two stays together.
LEMMA TextsRespelled ==
    ASSUME NEW e \in Expression(Names), NEW from \in Names
    PROVE  \A i \in 1..Len(e) :
               Texts(RenamedIn(e, from, NewName))[i] = Respelled(Texts(e)[i], RenamingOf(from))
<1> DEFINE n == Len(e)
           r == RenamedIn(e, from, NewName)
           f == RenamingOf(from)
           old == Texts(e)
           new == Texts(r)
           bad == {i \in 1..n : new[i] # Respelled(old[i], f)}
<1>1. n \in Nat \ {0} /\ \A i \in 1..n : e[i] \in Part(Names) BY ExpressionParts
<1>2. r \in Expression(AllNames) /\ Len(r) = n /\ \A i \in 1..n : r[i] = RenamedPart(e[i], from)
  BY RenamedExpression
<1>3. \A i \in 1..n : AllKnown(e[i], old, Names) /\ old[i] = OrText(e[i], old) BY TextsOf
<1> HIDE DEF r
<1>4. \A i \in 1..n : new[i] = OrText(r[i], new) BY <1>2, TextsOf
<1> HIDE DEF n, f, old, new
<1>5. ASSUME NEW i \in 1..n, \A j \in 1..i - 1 : j \notin bad PROVE i \notin bad
  <2>1. ASSUME NEW k \in DOMAIN e[i], NEW m \in DOMAIN e[i][k]
        PROVE  RespelledIn(e[i][k][m], new, old, f)
    <3> SUFFICES ASSUME e[i][k][m].p = "paren"
                 PROVE  new[e[i][k][m].of] = Respelled(old[e[i][k][m].of], f) BY DEF RespelledIn
    <3> DEFINE j == e[i][k][m].of
    <3>1. j \in 1..i - 1 BY ExpressionParts DEF n
    <3> HIDE DEF j
    <3>2. j \in 1..n BY <1>1, <3>1
    <3> QED BY <1>5, <3>1, <3>2 DEF j
  <2>2. OrText(RenamedPart(e[i], from), new) = Respelled(OrText(e[i], old), f)
    <3>1. e[i] \in Part(Names) /\ AllKnown(e[i], old, Names) BY <1>1, <1>3
    <3> QED BY <2>1, <3>1, OrRespelled DEF f
  <2> QED BY <1>2, <1>3, <1>4, <2>2
<1>6. bad = {}
  <2> SUFFICES ASSUME bad # {} PROVE FALSE OBVIOUS
  <2>1. bad \in SUBSET Nat BY <1>1
  <2>2. PICK i \in bad : \A j \in bad : i <= j BY <2>1, LeastNatural
  <2>3. i \in 1..n BY <2>2
  <2> HIDE DEF bad
  <2>4. \A j \in 1..i - 1 : j \notin bad BY <1>1, <2>2, <2>3
  <2> QED BY <1>5, <2>2, <2>3, <2>4
<1> QED BY <1>6 DEF n, r, f, old, new

LEMMA TextRespelled ==
    ASSUME NEW e \in Expression(Names), NEW from \in Names
    PROVE  TextOf(RenamedIn(e, from, NewName)) = Respelled(TextOf(e), RenamingOf(from))
<1> DEFINE n == Len(e)
           r == RenamedIn(e, from, NewName)
<1>1. n \in Nat \ {0} /\ n \in 1..n
  <2>1. n \in Nat \ {0} BY ExpressionParts
  <2> QED BY <2>1
<1>2. r \in Expression(AllNames) /\ Len(r) = n BY RenamedExpression
<1>3. Len(Texts(e)) = n BY TextsOf
<1> HIDE DEF r
<1>4. Len(Texts(r)) = n BY <1>2, TextsOf
<1> HIDE DEF n
<1>5. TextOf(e) = Texts(e)[n] /\ TextOf(r) = Texts(r)[n] BY <1>3, <1>4 DEF TextOf, Last
<1> QED BY <1>1, <1>5, TextsRespelled DEF n, r

\* A RENAME rewrites the text of a CHECK to that of the renamed CHECK.
LEMMA RewrittenIs ==
    ASSUME NEW t \in Seq(Symbols(Names)), NEW from \in Names
    PROVE  Rewritten(t, from, NewName) = Respelled(t, RenamingOf(from))
<1> DEFINE S == Symbols(Names)
           f == RenamingOf(from)
           m == Len(t)
           ss == [p \in DOMAIN t |-> Piece(t[p], from)]
<1>1. m \in Nat /\ DOMAIN t = 1..m /\ \A p \in 1..m : t[p] \in S
  <2> DEFINE V == S
  <2> HIDE DEF V
  <2>1. t \in Seq(V) BY DEF V
  <2>2. \A p \in 1..m : t[p] \in V BY <2>1
  <2> QED BY <2>2 DEF V
<1>2. Rewritten(t, from, NewName) = FlattenSeq(ss) BY DEF Rewritten, Piece
<1>3. \A x \in S : Piece(x, from) = <<f[x]>>
  <2> TAKE x \in S
  <2>1. x \in Tokens /\ Len(x.w) = 1 BY SymbolTokens
  <2>2. f[x] = RenamedToken(x, from) BY RenamingSpells
  <2>3. CASE x = Id(from) BY <2>1, <2>2, <2>3, PieceIs DEF RenamedToken
  <2>4. CASE x # Id(from) BY <2>1, <2>2, <2>4, PieceIs DEF RenamedToken
  <2> QED BY <2>3, <2>4
<1>4. \A x \in S : f[x] \in Symbols(AllNames) BY RenamingSpells DEF Spelling
<1> HIDE DEF f, S
<1> DEFINE T == Symbols(AllNames)
<1>5. DOMAIN ss = 1..m /\ \A p \in 1..m : ss[p] = <<f[t[p]]>> /\ f[t[p]] \in T BY <1>1, <1>3, <1>4
<1> HIDE DEF T, m
<1>6. ss = [p \in 1..m |-> ss[p]] BY <1>1
<1> HIDE DEF ss
<1>7. ss \in Seq(Seq(T)) /\ Len(ss) = m
  <2> DEFINE V == Seq(T)
  <2>1. \A p \in 1..m : ss[p] \in V
    <3> TAKE p \in 1..m
    <3> DEFINE x == f[t[p]]
    <3>1. ss[p] = <<x>> /\ x \in T BY <1>5
    <3> HIDE DEF x
    <3>2. <<x>> \in Seq(T) BY <3>1
    <3> QED BY <3>1, <3>2
  <2>2. m \in Nat BY <1>1
  <2> HIDE DEF V
  <2>3. ss \in Seq(V) /\ Len(ss) = m BY <1>6, <2>1, <2>2
  <2> QED BY <2>3 DEF V
<1>8. \A p \in 1..m : Len(ss[p]) = 1 /\ ss[p][1] = f[t[p]]
  <2> TAKE p \in 1..m
  <2> DEFINE x == f[t[p]]
  <2>1. ss[p] = <<x>> BY <1>5
  <2> HIDE DEF x
  <2>2. Len(<<x>>) = 1 /\ <<x>>[1] = x BY OneToken
  <2>3. Len(ss[p]) = 1 /\ ss[p][1] = x BY <2>1, <2>2
  <2> QED BY <2>3 DEF x
<1>9. FlattenSeq(ss) = [p \in 1..m |-> ss[p][1]] BY <1>7, <1>8, OnesJoined
<1>10. FlattenSeq(ss) = [p \in DOMAIN t |-> f[t[p]]] BY <1>1, <1>8, <1>9
<1> QED BY <1>2, <1>10 DEF Respelled, f

\* Its first condition and its form.
LEMMA WholeRenamed ==
    ASSUME NEW e \in Expression(Names), NEW from \in Names
    PROVE  LET r == RenamedIn(e, from, NewName) IN
           /\ First(e) \in Primary(Names) /\ First(r) = RenamedPrimary(First(e), from, NewName)
           /\ Alone(r) = Alone(e)
<1> DEFINE n == Len(e)
           r == RenamedIn(e, from, NewName)
           w == e[n]
           x == r[n]
<1>1. n \in Nat \ {0} /\ n \in 1..n /\ w \in Part(Names)
  <2>1. n \in Nat \ {0} /\ \A i \in 1..n : e[i] \in Part(Names) BY ExpressionParts
  <2>2. n \in 1..n BY <2>1
  <2> QED BY <2>1, <2>2
<1>2. Len(r) = n /\ x = RenamedPart(w, from) BY <1>1, RenamedExpression
<1> HIDE DEF r
<1>3. Whole(e) = w /\ Whole(r) = x BY <1>2 DEF Whole, Last
<1> HIDE DEF n, w, x
<1>4. /\ Len(x) = Len(w) /\ Len(w) \in Nat \ {0} /\ w[1] \in NonEmpty(Primary(Names))
      /\ x[1] = RenamedAnd(w[1], from)
  <2>1. Len(w) \in Nat \ {0} /\ DOMAIN w = 1..Len(w) /\ \A k \in 1..Len(w) : w[k] \in NonEmpty(Primary(Names))
    BY <1>1 DEF Part, NonEmpty
  <2>2. 1 \in 1..Len(w) BY <2>1
  <2>3. Len(x) = Len(w) /\ x[1] = RenamedAnd(w[1], from) BY <1>1, <1>2, <2>1, <2>2, RenamedPartIs
  <2> QED BY <2>1, <2>2, <2>3
<1> DEFINE a == w[1]
<1> HIDE DEF a
<1>5. /\ Len(RenamedAnd(a, from)) = Len(a) /\ a[1] \in Primary(Names)
      /\ RenamedAnd(a, from)[1] = RenamedPrimary(a[1], from, NewName)
  <2>1. a \in NonEmpty(Primary(Names)) BY <1>4 DEF a
  <2>2. Len(a) \in Nat \ {0} /\ \A k \in 1..Len(a) : a[k] \in Primary(Names) BY <2>1 DEF NonEmpty
  <2>3. 1 \in 1..Len(a) BY <2>2
  <2>4. /\ Len(RenamedAnd(a, from)) = Len(a) /\ DOMAIN a = 1..Len(a)
        /\ \A m \in DOMAIN a : RenamedAnd(a, from)[m] = RenamedPrimary(a[m], from, NewName)
    BY <2>1, RenamedAndIs
  <2> QED BY <2>2, <2>3, <2>4
<1>6. First(e) = a[1] /\ First(r) = RenamedAnd(a, from)[1] BY <1>3, <1>4, Zenon DEF First, a
<1>7. Alone(r) = Alone(e)
  <2>1. Len(x) = Len(w) /\ Len(x[1]) = Len(w[1]) BY <1>4, <1>5 DEF a
  <2> QED BY <1>3, <2>1, Zenon DEF Alone
<1> QED BY <1>5, <1>6, <1>7 DEF r

\* A token becomes the new name exactly if it was the old one, so a list of the
\* column stays one, and what was none becomes none.
LEMMA RenamedTokenIs ==
    ASSUME NEW x \in Symbols(Names), NEW from \in Names, NEW n \in Names
    PROVE  /\ RenamedToken(x, from).k = x.k
           /\ RenamedToken(x, from) = Id(NewNameOf(n, from)) <=> x = Id(n)
           /\ \A w : RenamedToken(x, from) = Kw(w) <=> x = Kw(w)
<1>1. x # Id(NewName) /\ NewName \notin Names BY SymbolTokens, ChecksAssumption
<1>2. \A a, b : Id(a) = Id(b) => a = b BY TokensDiffer DEF Id
<1>3. \A a, w : Id(a) # Kw(w) /\ Id(a).k = "id" BY MarksAreNoValues
<1>4. CASE x = Id(from) BY <1>1, <1>2, <1>3, <1>4 DEF RenamedToken, NewNameOf
<1>5. CASE x # Id(from) BY <1>1, <1>2, <1>3, <1>5 DEF RenamedToken, NewNameOf
<1> QED BY <1>4, <1>5

LEMMA ListIsRenamed ==
    ASSUME NEW t \in Seq(Symbols(Names)), NEW from \in Names, NEW n \in Names
    PROVE  IsList(Respelled(t, RenamingOf(from)), NewNameOf(n, from)) = IsList(t, n)
<1> DEFINE S == Symbols(Names)
           f == RenamingOf(from)
           r == Respelled(t, f)
           m == Len(t)
           now == NewNameOf(n, from)
<1>1. Spelling(f, S, Symbols(AllNames)) /\ \A x \in S : f[x] = RenamedToken(x, from)
  BY RenamingSpells
<1>2. Len(r) = m /\ \A p \in 1..m : r[p] = f[t[p]]
  <2> HIDE DEF S, f
  <2>1. t \in Seq(S) BY DEF S
  <2> QED BY <1>1, <2>1, RespelledIs
<1>3. m \in Nat /\ \A p \in 1..m : t[p] \in S
  <2> DEFINE V == S
  <2> HIDE DEF V
  <2>1. t \in Seq(V) BY DEF V
  <2>2. \A p \in 1..m : t[p] \in V BY <2>1
  <2> QED BY <2>2 DEF V
<1> HIDE DEF r, f
<1>4. \A p \in 1..m : /\ r[p] = Id(now) <=> t[p] = Id(n)
                      /\ \A w : r[p] = Kw(w) <=> t[p] = Kw(w)
  <2> TAKE p \in 1..m
  <2>1. t[p] \in S /\ r[p] = RenamedToken(t[p], from) BY <1>1, <1>2, <1>3
  <2> QED BY <2>1, RenamedTokenIs
<1> HIDE DEF S, m, now
<1>5. m >= 4 => 1 \in 1..m /\ 2 \in 1..m /\ 3 \in 1..m /\ m \in 1..m BY <1>3
<1>6. IsList(r, now) <=> m >= 4 /\ r[1] = Id(now) /\ r[2] = Kw("IN") /\ r[3] = Kw("(") /\ r[m] = Kw(")")
  BY <1>2 DEF IsList
<1>7. IsList(t, n) <=> m >= 4 /\ t[1] = Id(n) /\ t[2] = Kw("IN") /\ t[3] = Kw("(") /\ t[m] = Kw(")")
  BY DEF IsList, m
<1>8. IsList(r, now) <=> IsList(t, n) BY <1>4, <1>5, <1>6, <1>7
<1>9. IsList(r, now) \in BOOLEAN /\ IsList(t, n) \in BOOLEAN BY DEF IsList
<1> QED BY <1>8, <1>9 DEF r, f, now

LEMMA BodyPlaces ==
    ASSUME NEW S, NEW t \in Seq(S), Len(t) >= 4
    PROVE  /\ Body(t) \in Seq(S) /\ Len(Body(t)) = Len(t) - 4
           /\ \A j \in 1..Len(t) - 4 : Body(t)[j] = t[j + 3]
<1> DEFINE m == Len(t)
           b == Body(t)
<1>1. m \in Nat /\ m >= 4 OBVIOUS
<1>2. b = SubSeq(t, 4, m - 1) BY DEF Body
<1> HIDE DEF b, m
<1>3. /\ SubSeq(t, 4, m - 1) \in Seq(S)
      /\ Len(SubSeq(t, 4, m - 1)) = (IF 4 <= m - 1 THEN m - 1 - 4 + 1 ELSE 0)
      /\ \A j \in 1..m - 1 - 4 + 1 : SubSeq(t, 4, m - 1)[j] = t[4 + j - 1]
  <2>1. 4 \in Int /\ m - 1 \in Int /\ \A j \in 4..m - 1 : t[j] \in S BY <1>1 DEF m
  <2> QED BY <1>1, <2>1, SubSeqProperties
<1>4. \A j \in 1..m - 4 : j \in 1..m - 1 - 4 + 1 /\ 4 + j - 1 = j + 3 BY <1>1
<1>5. b \in Seq(S) /\ Len(b) = m - 4 /\ \A j \in 1..m - 4 : b[j] = t[j + 3]
  BY <1>1, <1>2, <1>3, <1>4
<1> QED BY <1>5 DEF b, m

LEMMA BodyRespelled ==
    ASSUME NEW S, NEW T, NEW f, Spelling(f, S, T), NEW t \in Seq(S), Len(t) >= 4
    PROVE  Body(Respelled(t, f)) = Respelled(Body(t), f) /\ Body(t) \in Seq(S)
<1> DEFINE r == Respelled(t, f)
           m == Len(t)
           b == Body(t)
<1>1. r \in Seq(T) /\ Len(r) = m /\ \A p \in 1..m : r[p] = f[t[p]] BY RespelledIs
<1>2. m \in Nat /\ m >= 4 OBVIOUS
<1>3. b \in Seq(S) /\ Len(b) = m - 4 /\ \A j \in 1..m - 4 : b[j] = t[j + 3] BY BodyPlaces
<1> HIDE DEF r, b
<1>4. Body(r) \in Seq(T) /\ Len(Body(r)) = m - 4 /\ \A j \in 1..m - 4 : Body(r)[j] = r[j + 3]
  <2>1. r \in Seq(T) /\ Len(r) >= 4 BY <1>1, <1>2
  <2>2. /\ Body(r) \in Seq(T) /\ Len(Body(r)) = Len(r) - 4
        /\ \A j \in 1..Len(r) - 4 : Body(r)[j] = r[j + 3]
    BY <2>1, BodyPlaces
  <2>3. Len(r) = m BY <1>1
  <2> QED BY <2>2, <2>3
<1>5. Respelled(b, f) \in Seq(T) /\ Len(Respelled(b, f)) = m - 4
      /\ \A j \in 1..m - 4 : Respelled(b, f)[j] = f[b[j]]
  BY <1>3, RespelledIs
<1> DEFINE c == Body(r)
           d == Respelled(b, f)
<1>6. c \in Seq(T) /\ d \in Seq(T) /\ Len(c) = m - 4 /\ Len(d) = m - 4 BY <1>4, <1>5
<1>7. \A j \in 1..m - 4 : c[j] = d[j]
  <2> TAKE j \in 1..m - 4
  <2>1. j + 3 \in 1..m
    <3> HIDE DEF m
    <3> QED BY <1>2
  <2> QED BY <1>1, <1>3, <1>4, <1>5, <2>1
<1> HIDE DEF c, d
<1>8. c = d BY <1>6, <1>7
<1> QED BY <1>3, <1>8 DEF c, d, r, b

\* A RENAME keeps that a column stores its CHECK, and makes none storable.
LEMMA StoresRenamed ==
    ASSUME NEW e \in Expression(Names), NEW n \in Names, NEW from \in Names, NEW t, Stores(t, e, n, Names)
    PROVE  Stores(Rewritten(t, from, NewName), RenamedIn(e, from, NewName), NewNameOf(n, from), AllNames)
<1> DEFINE S == Symbols(Names)
           f == RenamingOf(from)
           r == RenamedIn(e, from, NewName)
           now == NewNameOf(n, from)
           T == TextOf(e)
<1>1. Spelling(f, S, Symbols(AllNames)) /\ \A x \in S : f[x] = RenamedToken(x, from)
  BY RenamingSpells
<1>2. First(e) \in Primary(Names) /\ First(r) = RenamedPrimary(First(e), from, NewName)
  BY WholeRenamed
<1>3. First(r).p = First(e).p
  <2> DEFINE x == First(e)
  <2> HIDE DEF x
  <2>1. x \in Primary(Names) BY <1>2 DEF x
  <2>2. RenamedPrimary(x, from, NewName).p = x.p BY <2>1, RenamedPrimaryIs
  <2> QED BY <1>2, <2>2 DEF x
<1>4. TextOf(r) = Respelled(T, f) BY TextRespelled
<1>5. T \in Seq(S) BY TextBegins
<1> HIDE DEF T, r
<1>6. CASE First(e).p = "paren"
  <2>1. t \in Seq(S) /\ At(t, 1) = Kw("(") BY <1>6 DEF Stores
  <2>2. Rewritten(t, from, NewName) = Respelled(t, f) BY <2>1, RewrittenIs
  <2> HIDE DEF f, S
  <2>3. Respelled(t, f) \in Seq(Symbols(AllNames)) /\ Len(Respelled(t, f)) = Len(t)
        /\ \A p \in 1..Len(t) : Respelled(t, f)[p] = f[t[p]]
    BY <1>1, <2>1, RespelledIs
  <2>4. 1 \in 1..Len(t) /\ t[1] = Kw("(")
    <3>1. Kw("(") # End BY CommaIsAlone, TokensDiffer DEF End, Kw
    <3>2. DOMAIN t = 1..Len(t) BY <2>1
    <3> QED BY <2>1, <3>1, <3>2 DEF At
  <2>5. Kw("(") \in S /\ RenamedToken(Kw("("), from) = Kw("(")
    <3>1. Kw("(") \in S BY SymbolsHold DEF S
    <3> QED BY <3>1, RenamingSpells
  <2>6. Respelled(t, f)[1] = Kw("(") BY <1>1, <2>3, <2>4, <2>5
  <2>7. At(Respelled(t, f), 1) = Kw("(")
    <3>1. 1 \in DOMAIN Respelled(t, f) BY <2>3, <2>4
    <3> QED BY <2>6, <3>1 DEF At
  <2> QED BY <1>3, <1>6, <2>2, <2>3, <2>7 DEF Stores, r, f
<1>7. CASE First(e).p # "paren"
  <2>1. t = IF IsList(T, n) THEN Body(T) ELSE T
    BY <1>7 DEF Stores, NormalizeStoredColumnCheckExpr, T
  <2>2. IsList(Respelled(T, f), now) = IsList(T, n) BY <1>5, ListIsRenamed
  <2>3. CASE IsList(T, n)
    <3>1. Len(T) >= 4 BY <2>3 DEF IsList
    <3>2. Body(Respelled(T, f)) = Respelled(Body(T), f) /\ Body(T) \in Seq(S)
      <4> HIDE DEF f, S
      <4> QED BY <1>1, <1>5, <3>1, BodyRespelled
    <3>3. Rewritten(t, from, NewName) = Respelled(t, f) BY <2>1, <2>3, <3>2, RewrittenIs
    <3>4. Rewritten(t, from, NewName) = NormalizeStoredColumnCheckExpr(TextOf(r), now)
      BY <1>4, <2>1, <2>2, <2>3, <3>2, <3>3 DEF NormalizeStoredColumnCheckExpr
    <3> QED BY <1>3, <1>7, <3>4, Zenon DEF Stores, r
  <2>4. CASE ~IsList(T, n)
    <3>1. Rewritten(t, from, NewName) = Respelled(T, f) BY <1>5, <2>1, <2>4, RewrittenIs
    <3>2. Rewritten(t, from, NewName) = NormalizeStoredColumnCheckExpr(TextOf(r), now)
      BY <1>4, <2>2, <2>4, <3>1 DEF NormalizeStoredColumnCheckExpr
    <3> QED BY <1>3, <1>7, <3>2, Zenon DEF Stores, r
  <2> QED BY <2>3, <2>4
<1> QED BY <1>6, <1>7 DEF r

\* A rename makes no CHECK storable.
LEMMA StorableRenamed ==
    ASSUME NEW e \in Expression(Names), NEW n \in Names, NEW from \in Names,
           Storable(RenamedIn(e, from, NewName), NewNameOf(n, from))
    PROVE  Storable(e, n)
<1> DEFINE r == RenamedIn(e, from, NewName)
           now == NewNameOf(n, from)
           p == First(e)
           q == First(r)
<1>1. p \in Primary(Names) /\ q = RenamedPrimary(p, from, NewName) /\ Alone(r) = Alone(e)
  BY WholeRenamed
<1>2. TextOf(r) = Respelled(TextOf(e), RenamingOf(from)) /\ TextOf(e) \in Seq(Symbols(Names))
  BY TextRespelled, TextBegins
<1>3. IsList(TextOf(r), now) = IsList(TextOf(e), n) BY <1>2, ListIsRenamed
<1>4. Storable(r, now) OBVIOUS
<1> SUFFICES ASSUME Own(e, n) PROVE Storable(e, n) BY DEF Storable
<1>5. p.p # "paren" /\ p.c = n BY DEF Own
<1> HIDE DEF p, q, r, now
<1>6. /\ q.p = p.p /\ q.c = NewNameOf(p.c, from)
      /\ p.p = "cmp" => q.v = RenamedToken(p.v, from)
      /\ p.p = "between" => q.lo = RenamedToken(p.lo, from) /\ q.hi = RenamedToken(p.hi, from)
  BY <1>1, <1>5, RenamedPrimaryIs
<1>7. Own(r, now)
  <2>1. q.p # "paren" /\ q.c = now BY <1>5, <1>6 DEF now
  <2> QED BY <2>1 DEF Own, q
<1>8. \A v \in ValueTok(Names) : RenamedToken(v, from).k = v.k
  <2> TAKE v \in ValueTok(Names)
  <2>1. v \in Symbols(Names) BY ValueToken
  <2> QED BY <2>1, RenamedTokenIs
<1>9. CASE p.p = "cmp"
  <2>1. Alone(r) /\ q.v.k # "id" BY <1>4, <1>6, <1>7, <1>9, Zenon DEF Storable, q
  <2>2. p.v \in ValueTok(Names) BY <1>1, <1>9, PrimaryShape
  <2>3. p.v.k # "id" BY <1>6, <1>8, <1>9, <2>1, <2>2
  <2>4. Alone(e) BY <1>1, <2>1
  <2> QED BY <1>9, <2>3, <2>4, Zenon DEF Storable, p
<1>10. CASE p.p = "between"
  <2>1. Alone(r) /\ q.lo.k # "id" /\ q.hi.k # "id" BY <1>4, <1>6, <1>7, <1>10, Zenon DEF Storable, q
  <2>2. p.lo \in ValueTok(Names) /\ p.hi \in ValueTok(Names) BY <1>1, <1>10, PrimaryShape
  <2>3. p.lo.k # "id" /\ p.hi.k # "id" BY <1>6, <1>8, <1>10, <2>1, <2>2
  <2>4. Alone(e) BY <1>1, <2>1
  <2> QED BY <1>10, <2>3, <2>4, Zenon DEF Storable, p
<1>11. CASE p.p = "in"
  <2>1. Alone(r) \/ ~IsList(TextOf(r), now) BY <1>4, <1>6, <1>7, <1>11, Zenon DEF Storable, q
  <2>2. Alone(e) \/ ~IsList(TextOf(e), n) BY <1>1, <1>3, <2>1, Zenon DEF r, now
  <2> QED BY <1>11, <2>2, Zenon DEF Storable, p
<1> QED BY <1>1, <1>5, <1>9, <1>10, <1>11, PrimaryShape

----------------------------------------------------------------------------
(* What buildTableMetadata stores *)

\* The meaning that is built is an expression.
LEMMA BuiltExpression ==
    ASSUME NEW n \in Names, NEW c, c.enum \in Seq(StringWord), c.enum # <<>>, NEW e \in Expression(Names)
    PROVE  /\ BuiltMeaning(n, c, e) \in Expression(Names)
           /\ First(BuiltMeaning(n, c, e)) = Paren(Len(e))
<1> DEFINE enum == << <<EnumPredicate(n, c.enum)>> >>
           N == Len(e)
           both == << <<Paren(N), Paren(N + 1)>> >>
           m == BuiltMeaning(n, c, e)
           P == Part(Names)
           tail == <<enum, both>>
<1>1. N \in Nat \ {0} /\ e \in Seq(P) /\ e # <<>>
  <2>1. N \in Nat \ {0} /\ e \in NonEmpty(P) BY ExpressionParts DEF Expression, Part
  <2> QED BY <2>1 DEF NonEmpty
<1>2. m = e \o tail BY <1>1 DEF BuiltMeaning
<1>3. enum \in P /\ both \in P
  <2> DEFINE Q == Primary(Names)
             x == EnumPredicate(n, c.enum)
             y == Paren(N)
             z == Paren(N + 1)
  <2>1. x \in Q BY EnumIsPrimary
  <2>2. y \in Q /\ z \in Q
    <3>1. N + 1 \in Nat \ {0} BY <1>1
    <3> HIDE DEF N
    <3> QED BY <1>1, <3>1 DEF Paren, Primary
  <2> HIDE DEF Q, x, y, z
  <2>3. <<x>> \in NonEmpty(Q) /\ <<y, z>> \in NonEmpty(Q) BY <2>1, <2>2 DEF NonEmpty
  <2> DEFINE R == NonEmpty(Q)
             a == <<x>>
             b == <<y, z>>
  <2>4. a \in R /\ b \in R BY <2>3
  <2> HIDE DEF R, a, b
  <2>5. <<a>> \in NonEmpty(R) /\ <<b>> \in NonEmpty(R) BY <2>4 DEF NonEmpty
  <2> QED BY <2>5 DEF Part, Q, R, a, b, x, y, z
<1>4. tail \in Seq(P) /\ Len(tail) = 2 /\ tail[1] = enum /\ tail[2] = both
  <2> HIDE DEF P, enum, both
  <2> QED BY <1>3
<1> HIDE DEF tail, P, m
<1>5. /\ m \in Seq(P) /\ Len(m) = N + 2 /\ (\A i \in 1..N : m[i] = e[i])
      /\ m[N + 1] = enum /\ m[N + 2] = both
  <2>1. /\ e \o tail \in Seq(P) /\ Len(e \o tail) = Len(e) + Len(tail)
        /\ \A i \in 1..Len(e) : (e \o tail)[i] = e[i]
        /\ \A i \in 1..Len(tail) : (e \o tail)[Len(e) + i] = tail[i]
    BY <1>1, <1>4, TwoJoined, SMTT(30)
  <2>2. 1 \in 1..Len(tail) /\ 2 \in 1..Len(tail) BY <1>4
  <2>3. (e \o tail)[Len(e) + 1] = enum /\ (e \o tail)[Len(e) + 2] = both BY <1>4, <2>1, <2>2
  <2> QED BY <1>2, <1>4, <2>1, <2>3
<1>6. ASSUME NEW i \in DOMAIN m, NEW k \in DOMAIN m[i], NEW q \in DOMAIN m[i][k], m[i][k][q].p = "paren"
      PROVE  m[i][k][q].of < i
  <2>1. i \in 1..N \/ i = N + 1 \/ i = N + 2
    <3>1. i \in 1..N + 2 /\ N \in Nat BY <1>1, <1>5
    <3> HIDE DEF N
    <3> QED BY <3>1
  <2>2. CASE i \in 1..N
    <3>1. k \in DOMAIN e[i] /\ q \in DOMAIN e[i][k] /\ m[i][k][q] = e[i][k][q] /\ e[i][k][q].p = "paren"
      BY <1>5, <1>6, <2>2
    <3>2. e[i][k][q].of \in 1..i - 1 BY <2>2, <3>1, ExpressionParts
    <3> DEFINE o == e[i][k][q].of
    <3>3. m[i][k][q].of = o BY <3>1
    <3> HIDE DEF o
    <3>4. o \in 1..i - 1 /\ i \in Nat BY <1>1, <2>2, <3>2 DEF o
    <3>5. o < i BY <3>4
    <3> QED BY <3>3, <3>5
  <2>3. CASE i = N + 1
    <3>1. m[i] = enum BY <1>5, <2>3
    <3>2. k = 1 /\ m[i][k] = <<EnumPredicate(n, c.enum)>> BY <3>1
    <3>3. q = 1 /\ m[i][k][q] = EnumPredicate(n, c.enum) BY <3>2
    <3> QED BY <1>6, <3>3, EnumIsPrimary
  <2>4. CASE i = N + 2
    <3>1. m[i] = both BY <1>5, <2>4
    <3>2. k = 1 /\ m[i][k] = <<Paren(N), Paren(N + 1)>> BY <3>1
    <3>3. m[i][k][q] = Paren(N) \/ m[i][k][q] = Paren(N + 1) BY <3>2
    <3>4. m[i][k][q].of = N \/ m[i][k][q].of = N + 1 BY <3>3 DEF Paren
    <3> HIDE DEF N
    <3> QED BY <1>1, <2>4, <3>4
  <2> QED BY <2>1, <2>2, <2>3, <2>4
<1>7. m \in NonEmpty(P)
  <2>1. Len(m) # 0
    <3> HIDE DEF N
    <3> QED BY <1>1, <1>5
  <2> QED BY <1>5, <2>1 DEF NonEmpty
<1>8. m \in Expression(Names) BY <1>6, <1>7 DEF Expression, P, Part
<1>9. First(m) = Paren(N)
  <2>1. Last(m) = both BY <1>5 DEF Last
  <2>2. both[1][1] = Paren(N) OBVIOUS
  <2> QED BY <2>1, <2>2, Zenon DEF First, Whole
<1> QED BY <1>8, <1>9 DEF m, N

\* normalizeStoredColumnCheckExpr leaves alone what begins with no name.
LEMMA OnlyNamesList ==
    ASSUME NEW S, NEW t \in Seq(S), NEW n, \/ At(t, 1) = Kw("(")
                                           \/ At(t, 1).k = "str"
                                           \/ t = <<>>
    PROVE  NormalizeStoredColumnCheckExpr(t, n) = t
<1>1. ~IsList(t, n)
  <2> SUFFICES ASSUME IsList(t, n) PROVE FALSE OBVIOUS
  <2>1. Len(t) >= 4 /\ t[1] = Id(n) BY DEF IsList
  <2>2. t # <<>> /\ 1 \in DOMAIN t BY <2>1
  <2>3. At(t, 1) = Id(n) BY <2>1, <2>2 DEF At
  <2>4. Id(n).k = "id" /\ Id(n) # Kw("(") BY MarksAreNoValues
  <2> QED BY <2>2, <2>3, <2>4
<1> QED BY <1>1 DEF NormalizeStoredColumnCheckExpr

\* An ENUM alone is an expression of one list.
LEMMA EnumAlone ==
    ASSUME NEW n \in Names, NEW words \in Seq(StringWord), words # <<>>
    PROVE  LET m == << << <<EnumPredicate(n, words)>> >> >> IN
           /\ m \in Expression(Names) /\ First(m) = EnumPredicate(n, words)
           /\ TextOf(m) = <<Id(n), Kw("IN"), Kw("(")>> \o ListText(Strings(words)) \o <<Kw(")")>>
<1> DEFINE x == EnumPredicate(n, words)
           m == << << <<x>> >> >>
           Q == Primary(Names)
           P == Part(Names)
<1>1. x \in Q /\ x.p = "in" /\ x.c = n /\ ~x.negated /\ x.items = Strings(words) BY EnumIsPrimary
<1> HIDE DEF x, Q
<1>2. << <<x>> >> \in P
  <2> DEFINE R == NonEmpty(Q)
             a == <<x>>
  <2>1. a \in R BY <1>1 DEF NonEmpty
  <2> HIDE DEF R, a
  <2>2. <<a>> \in NonEmpty(R) BY <2>1 DEF NonEmpty
  <2> QED BY <2>2 DEF Part, Q, R, a
<1>3. m \in NonEmpty(P)
  <2> DEFINE a == << <<x>> >>
  <2> HIDE DEF P, a
  <2>1. <<a>> \in NonEmpty(P) BY <1>2 DEF NonEmpty, a
  <2> QED BY <2>1 DEF a
<1>4. m \in Expression(Names)
  <2>1. ASSUME NEW i \in DOMAIN m, NEW k \in DOMAIN m[i], NEW q \in DOMAIN m[i][k]
        PROVE  m[i][k][q] = x
    <3>1. i = 1 /\ m[i] = << <<x>> >> OBVIOUS
    <3>2. k = 1 /\ m[i][k] = <<x>> BY <3>1
    <3>3. q = 1 /\ m[i][k][q] = x BY <3>2
    <3> QED BY <3>3
  <2>2. x.p # "paren" BY <1>1
  <2> HIDE DEF m
  <2>3. \A i \in DOMAIN m : \A k \in DOMAIN m[i] : \A q \in DOMAIN m[i][k] : m[i][k][q].p # "paren"
    BY <2>1, <2>2
  <2> QED BY <1>3, <2>3 DEF Expression, P, Part
<1>5. First(m) = x /\ Alone(m)
  <2>1. Whole(m) = << <<x>> >> BY DEF Whole, Last
  <2>2. First(m) = x BY <2>1 DEF First
  <2>3. Alone(m) BY <2>1 DEF Alone
  <2> QED BY <2>2, <2>3
<1> HIDE DEF m
<1>6. TextOf(m) = PrimaryText(x, Texts(m)) BY <1>4, <1>5, AloneText
<1>7. PrimaryText(x, Texts(m)) = <<Id(n)>> \o <<>> \o <<Kw("IN"), Kw("(")>> \o ListText(Strings(words)) \o <<Kw(")")>>
  BY <1>1, Zenon DEF PrimaryText
<1>8. <<Id(n)>> \o <<>> \o <<Kw("IN"), Kw("(")>> = <<Id(n), Kw("IN"), Kw("(")>>
  <2> DEFINE a == Id(n)
             b == Kw("IN")
             c == Kw("(")
  <2> HIDE DEF a, b, c
  <2> DEFINE S == {a, b, c}
             u == <<a>>
             v == <<b, c>>
             all == <<a, b, c>>
  <2>1. /\ u \in Seq(S) /\ v \in Seq(S) /\ all \in Seq(S) /\ Len(u) = 1 /\ Len(v) = 2 /\ Len(all) = 3
        /\ u[1] = all[1] /\ v[1] = all[2] /\ v[2] = all[3]
    OBVIOUS
  <2> HIDE DEF S, u, v, all
  <2>2. u \o <<>> = u BY <2>1, ConcatEmptySeq
  <2>3. u \o v \in Seq(S) /\ Len(u \o v) = 3 /\ (u \o v)[1] = u[1]
        /\ (u \o v)[2] = v[1] /\ (u \o v)[3] = v[2]
    <3>1. /\ u \o v \in Seq(S) /\ Len(u \o v) = Len(u) + Len(v)
          /\ \A j \in 1..Len(u) : (u \o v)[j] = u[j]
          /\ \A j \in 1..Len(v) : (u \o v)[Len(u) + j] = v[j]
      <4>1. u \in Seq(S) /\ v \in Seq(S) BY <2>1
      <4> QED BY <4>1, TwoJoined
    <3>2. 1 \in 1..Len(u) /\ 1 \in 1..Len(v) /\ 2 \in 1..Len(v) /\ Len(u) + 1 = 2 /\ Len(u) + 2 = 3
      BY <2>1
    <3> QED BY <2>1, <3>1, <3>2
  <2> DEFINE w == u \o v
  <2>4. w \in Seq(S) /\ Len(w) = 3 /\ \A j \in 1..3 : w[j] = all[j] BY <2>1, <2>3
  <2> HIDE DEF w
  <2>5. w = all BY <2>1, <2>4
  <2>6. <<a>> \o <<>> \o <<b, c>> = <<a, b, c>> BY <2>2, <2>5 DEF u, v, all, w
  <2> QED BY <2>6 DEF a, b, c
<1> QED BY <1>4, <1>5, <1>6, <1>7, <1>8 DEF m, x

\* The column keeps the CHECK that is built, for what it means.
LEMMA BuiltStores ==
    ASSUME NEW n \in Names, NEW c, c.enum \in Seq(StringWord), NEW e, Reads(c.check, e)
    PROVE  LET t == NormalizeStoredColumnCheckExpr(BuiltText(n, c), n)
               m == BuiltMeaning(n, c, e)
           IN \/ m = <<>> /\ t = NoText
              \/ m \in Expression(Names) /\ Stores(t, m, n, Names)
<1> DEFINE b == BuiltText(n, c)
           t == NormalizeStoredColumnCheckExpr(b, n)
           m == BuiltMeaning(n, c, e)
           S == Symbols(Names)
<1>1. CASE c.enum = <<>> /\ e = <<>>
  <2>1. c.check = <<>>
    <3>1. <<>> \notin Expression(Names) BY DEF Expression, NonEmpty
    <3> QED BY <1>1, <3>1 DEF Reads, NoText
  <2>2. b = <<>> /\ m = <<>> BY <1>1, <2>1 DEF BuiltText, BuiltMeaning
  <2>3. <<>> \in Seq(S) OBVIOUS
  <2> HIDE DEF b, m, S
  <2>4. t = <<>> BY <2>2, <2>3, OnlyNamesList
  <2> QED BY <2>2, <2>4 DEF NoText, m, b
<1>2. CASE c.enum = <<>> /\ e # <<>>
  <2>1. e \in Expression(Names) /\ b = TextOf(e) /\ m = e BY <1>2 DEF Reads, BuiltText, BuiltMeaning
  <2>2. TextOf(e) \in Seq(S) /\ BeginsAs(TextOf(e), First(e)) BY <2>1, TextBegins
  <2>3. CASE First(e).p = "paren"
    <3>1. At(TextOf(e), 1) = Kw("(") BY <2>2, <2>3 DEF BeginsAs
    <3> HIDE DEF b, m, S
    <3>2. t = TextOf(e) BY <2>1, <2>2, <3>1, OnlyNamesList
    <3>3. Stores(t, e, n, Names) BY <2>2, <2>3, <3>1, <3>2 DEF Stores, S
    <3> QED BY <2>1, <3>3 DEF m, b
  <2>4. CASE First(e).p # "paren"
    <3>1. Stores(t, e, n, Names) BY <2>1, <2>4 DEF Stores
    <3> QED BY <2>1, <3>1
  <2> QED BY <2>3, <2>4
<1>3. CASE c.enum # <<>> /\ e = <<>>
  <2> DEFINE list == ListText(Strings(c.enum))
             x == EnumPredicate(n, c.enum)
  <2>1. c.check = NoText
    <3>1. <<>> \notin Expression(Names) BY DEF Expression, NonEmpty
    <3> QED BY <1>3, <3>1 DEF Reads
  <2>2. b = list /\ m = << << <<x>> >> >> BY <1>3, <2>1 DEF BuiltText, BuiltMeaning
  <2>3. /\ m \in Expression(Names) /\ First(m) = x
        /\ TextOf(m) = <<Id(n), Kw("IN"), Kw("(")>> \o list \o <<Kw(")")>>
    BY <1>3, <2>2, EnumAlone
  <2>4. list \in Seq(Tokens) \ {<<>>} /\ At(list, 1).k = "str"
    <3> DEFINE V == ValueTok(Names)
               values == Strings(c.enum)
    <3>1. values \in Seq(V) \ {<<>>} /\ values[1] = Str(c.enum[1]) /\ V \subseteq Tokens /\ Comma \in Tokens
      <4>1. V \subseteq Tokens
        <5>1. \A v \in V : v \in Symbols(Names) BY ValueToken
        <5> QED BY <5>1, SymbolTokens
      <4> QED BY <1>3, <4>1, StringsAreValues, MarkTokens DEF NonEmpty
    <3>2. Str(c.enum[1]).k = "str" BY TokensDiffer DEF Str
    <3> DEFINE T == Tokens
    <3> HIDE DEF V, values, T
    <3>3. values \in Seq(T) \ {<<>>} /\ T \cup {Comma} = T BY <3>1 DEF T
    <3>4. ListText(values) \in Seq(T \cup {Comma}) /\ Len(ListText(values)) = 2 * Len(values) - 1
          /\ \A k \in 1..Len(values) : ListText(values)[2 * k - 1] = values[k]
      BY <3>3, ListPlaces
    <3>5. 1 \in 1..Len(values) /\ 2 * 1 - 1 = 1 /\ Len(values) \in Nat \ {0} BY <3>3
    <3>6. ListText(values)[1] = values[1] /\ Len(ListText(values)) >= 1 BY <3>4, <3>5
    <3> DEFINE l == ListText(values)
    <3>7. l \in Seq(T) /\ Len(l) >= 1 /\ l[1].k = "str" BY <3>1, <3>2, <3>3, <3>4, <3>6
    <3> HIDE DEF l
    <3>8. l # <<>> /\ 1 \in DOMAIN l BY <3>7
    <3> QED BY <3>7, <3>8 DEF At, T, l, values
  <2> HIDE DEF list, x, m, b
  <2>5. t = list BY <2>2, <2>4, OnlyNamesList
  <2>6. NormalizeStoredColumnCheckExpr(TextOf(m), n) = list BY <2>3, <2>4, ListAgain
  <2>7. x.p # "paren" BY <1>3, EnumIsPrimary DEF x
  <2>8. Stores(t, m, n, Names) BY <2>3, <2>5, <2>6, <2>7 DEF Stores
  <2> QED BY <2>3, <2>8 DEF m, b
<1>4. CASE c.enum # <<>> /\ e # <<>>
  <2>1. e \in Expression(Names) /\ c.check = TextOf(e) BY <1>4 DEF Reads
  <2>2. c.check # NoText
    <3>1. TextOf(e) \in Sentence(Names) BY <2>1, DeclaredIsWritten
    <3> QED BY <2>1, <3>1 DEF Sentence, NonEmpty, NoText
  <2>3. b \in Seq(S) \ {<<>>} /\ b[1] = Kw("(") BY <1>4, <2>1, <2>2, BuiltOfBoth
  <2>4. m \in Expression(Names) /\ First(m) = Paren(Len(e)) BY <1>4, <2>1, BuiltExpression
  <2> HIDE DEF b, m, S
  <2>5. At(b, 1) = Kw("(")
    <3>1. 1 \in DOMAIN b BY <2>3
    <3> QED BY <2>3, <3>1 DEF At
  <2>6. t = b BY <2>3, <2>5, OnlyNamesList
  <2>7. First(m).p = "paren" BY <2>4 DEF Paren
  <2>8. Stores(t, m, n, Names) BY <2>3, <2>5, <2>6, <2>7 DEF Stores, S
  <2> QED BY <2>4, <2>8 DEF m, b
<1> QED BY <1>1, <1>2, <1>3, <1>4

----------------------------------------------------------------------------
(* What a live table holds of the CHECKs it was declared with *)

\* The names its texts may use, and a column's text for what it means.
Spoken == IF NewName \in DOMAIN cols THEN AllNames ELSE Names
Kept(text, e, n, names, asDeclared) ==
    \/ e = <<>> /\ text = NoText
    \/ e \in Expression(names) /\ (asDeclared => Stores(text, e, n, names))
ColumnsKept ==
    stage = "live" => \A n \in DOMAIN cols :
        Kept(cols[n].check, meant.column[n], n, Spoken, Keeps(n))

\* A live table's columns are of the names its texts may use.
LEMMA SpokenNames ==
    ASSUME ReadSoFar
    PROVE  /\ DOMAIN cols \subseteq Spoken /\ Spoken \in TableNames
           /\ NewName \notin DOMAIN cols => Spoken = Names
           /\ NewName \in DOMAIN cols => Spoken = AllNames
BY DEF ReadSoFar, Columns, Spoken, AllNames, TableNames

LEMMA ColumnsKeptInit == Init => ColumnsKept
<1> SUFFICES ASSUME Init PROVE stage # "live" BY DEF ColumnsKept
<1> QED BY DEF Init

\* A column that is read is declared.
LEMMA ReadColumnsAreDeclared ==
    ASSUME ReadSoFar, stage = "parse" PROVE DOMAIN cols \subseteq Names
<1>1. /\ Declaration(decl) /\ DOMAIN cols = DeclaredIn(decl, Done)
      /\ Done \in 0..Len(decl)
  BY ChecksAssumption DEF ReadSoFar, Reading, Parsing
<1>2. Len(decl) \in Nat /\ DOMAIN decl = 1..Len(decl) BY <1>1 DEF Declaration
<1> SUFFICES ASSUME NEW n \in DOMAIN cols PROVE n \in Names OBVIOUS
<1>3. PICK q \in 1..Done : decl[q].i = "column" /\ n = decl[q].n BY <1>1, Zenon DEF DeclaredIn
<1>4. q \in DOMAIN decl
  <2> HIDE DEF Done
  <2> QED BY <1>1, <1>2
<1> QED BY <1>1, <1>3, <1>4 DEF Declaration

\* A restart keeps what is storable.
LEMMA KeptIsReloaded ==
    ASSUME NEW names \in TableNames, NEW n \in names, NEW e, NEW t, NEW keeps, NEW keepsNow,
           Kept(t, e, n, names, keeps), keepsNow => keeps /\ Storable(e, n)
    PROVE  Kept(Reloaded(t, n), e, n, names, keepsNow)
<1>1. CASE e = <<>> /\ t = NoText
  <2>1. Reloaded(t, n) = t BY <1>1 DEF Reloaded
  <2> QED BY <1>1, <2>1 DEF Kept
<1>2. CASE e \in Expression(names) /\ (keeps => Stores(t, e, n, names))
  <2>1. ASSUME keepsNow PROVE Stores(Reloaded(t, n), e, n, names)
    <3>1. Stores(t, e, n, names) /\ Storable(e, n) BY <1>2, <2>1
    <3>2. Reloaded(t, n) = t BY <1>2, <3>1, StorableComesBack
    <3> QED BY <3>1, <3>2
  <2> QED BY <1>2, <2>1 DEF Kept
<1> QED BY <1>1, <1>2 DEF Kept

\* A rename keeps everything.
LEMMA KeptIsRenamed ==
    ASSUME NEW n \in Names, NEW from \in Names, NEW e, NEW t, NEW keeps, NEW keepsNow,
           Kept(t, e, n, Names, keeps),
           e \in Expression(Names) /\ keepsNow => keeps
    PROVE  Kept(Rewritten(t, from, NewName), RenamedIn(e, from, NewName), NewNameOf(n, from), AllNames, keepsNow)
<1>1. CASE e = <<>> /\ t = NoText
  <2>1. RenamedIn(<<>>, from, NewName) = <<>> BY DEF RenamedIn
  <2>2. <<>> \in Seq(Symbols(Names)) /\ DOMAIN <<>> = {} OBVIOUS
  <2>3. Rewritten(<<>>, from, NewName) = Respelled(<<>>, RenamingOf(from)) BY <2>2, RewrittenIs
  <2>4. Respelled(<<>>, RenamingOf(from)) = <<>> BY <2>2 DEF Respelled
  <2> QED BY <1>1, <2>1, <2>3, <2>4 DEF Kept, NoText
<1>2. CASE e \in Expression(Names) /\ (keeps => Stores(t, e, n, Names))
  <2>1. RenamedIn(e, from, NewName) \in Expression(AllNames) BY <1>2, RenamedExpression
  <2>2. ASSUME keepsNow
        PROVE  Stores(Rewritten(t, from, NewName), RenamedIn(e, from, NewName), NewNameOf(n, from), AllNames)
    BY <1>2, <2>2, StoresRenamed
  <2> QED BY <2>1, <2>2 DEF Kept
<1> QED BY <1>1, <1>2 DEF Kept

LEMMA ColumnsKeptNext ==
    ReadSoFar /\ ReadSoFar' /\ TextsRead /\ ColumnsKept /\ [Next]_vars => ColumnsKept'
<1> SUFFICES ASSUME ReadSoFar, ReadSoFar', TextsRead, ColumnsKept, [Next]_vars,
                    stage' = "live", NEW n \in DOMAIN cols'
             PROVE  Kept(cols'[n].check, meant'.column[n], n, Spoken', Keeps(n)') BY DEF ColumnsKept
<1>0. /\ \A m \in DOMAIN cols : IsColumn(cols[m])
      /\ DOMAIN cols \subseteq Names \cup {NewName} /\ NewName \notin Names
  BY ChecksAssumption DEF ReadSoFar, Columns
<1>1. CASE stage' = stage /\ cols' = cols /\ meant'.column = meant.column /\ restarts' = restarts
  <2>1. Spoken' = Spoken /\ Keeps(n)' = Keeps(n) BY <1>1 DEF Spoken, Keeps
  <2> QED BY <1>1, <2>1 DEF ColumnsKept
<1>2. CASE Build
  <2>1. /\ stage = "parse" /\ cols' = [m \in DOMAIN cols |-> Built(m, cols[m])]
        /\ meant'.column = [m \in DOMAIN cols |-> BuiltMeaning(m, cols[m], meant.column[m])]
    BY <1>2, BuildDoes
  <2>2. DOMAIN cols \subseteq Names BY <2>1, ReadColumnsAreDeclared
  <2> DEFINE c == cols[n]
             e == meant.column[n]
  <2>3. n \in DOMAIN cols /\ cols'[n] = Built(n, c) /\ meant'.column[n] = BuiltMeaning(n, c, e)
    BY <2>1
  <2>4. c.enum \in Seq(StringWord) /\ Reads(c.check, e) BY <2>1, <2>3 DEF TextsRead
  <2>5. cols'[n].check = NormalizeStoredColumnCheckExpr(BuiltText(n, c), n) BY <1>0, <2>3, BuiltSays
  <2>6. Spoken' = Names
    <3>1. NewName \notin DOMAIN cols' BY <1>0, <2>1, <2>2
    <3> QED BY <3>1 DEF Spoken
  <2>7. n \in Names BY <2>2, <2>3
  <2> HIDE DEF c, e
  <2> DEFINE t == NormalizeStoredColumnCheckExpr(BuiltText(n, c), n)
             m == BuiltMeaning(n, c, e)
  <2>8. (m = <<>> /\ t = NoText) \/ (m \in Expression(Names) /\ Stores(t, m, n, Names))
    BY <2>4, <2>7, BuiltStores
  <2> HIDE DEF t, m
  <2>9. Kept(t, m, n, Names, Keeps(n)') BY <2>8 DEF Kept
  <2> QED BY <2>3, <2>5, <2>6, <2>9 DEF t, m
<1>3. CASE Restart
  <2>1. /\ stage = "live" /\ restarts' = TRUE /\ meant' = meant
        /\ cols' = [m \in DOMAIN cols |-> RestartedColumn(m, cols[m], OneOfSeveral(cols, m))]
    BY <1>3, RestartDoes
  <2>2. n \in DOMAIN cols /\ DOMAIN cols' = DOMAIN cols
        /\ cols'[n] = RestartedColumn(n, cols[n], OneOfSeveral(cols, n))
    BY <2>1
  <2> DEFINE t == cols[n].check
             e == meant.column[n]
  <2>3. cols'[n].check = Reloaded(t, n)
    <3>1. OneOfSeveral(cols, n) \in BOOLEAN BY DEF OneOfSeveral
    <3> QED BY <1>0, <2>2, <3>1, RestartedSays
  <2>4. Kept(t, e, n, Spoken, Keeps(n)) BY <2>1, <2>2 DEF ColumnsKept
  <2>5. n \in Spoken /\ Spoken \in TableNames /\ Spoken' = Spoken
    <3>1. Spoken' = Spoken BY <2>2 DEF Spoken
    <3> QED BY <2>2, <3>1, SpokenNames
  <2>6. Keeps(n)' => Keeps(n) /\ Storable(e, n) BY <2>1 DEF Keeps
  <2>7. meant'.column[n] = e BY <2>1
  <2> HIDE DEF t, e
  <2>8. Kept(Reloaded(t, n), e, n, Spoken, Keeps(n)')
    <3> DEFINE names == Spoken
               before == Keeps(n)
               now == Keeps(n)'
    <3>1. /\ names \in TableNames /\ n \in names /\ Kept(t, e, n, names, before)
          /\ now => before /\ Storable(e, n)
      BY <2>4, <2>5, <2>6
    <3> HIDE DEF names, before, now
    <3>2. Kept(Reloaded(t, n), e, n, names, now) BY <3>1, KeptIsReloaded
    <3> QED BY <3>2 DEF names, now
  <2> QED BY <2>3, <2>5, <2>7, <2>8
<1>4. ASSUME NEW from \in Names, Rename(from)
      PROVE  Kept(cols'[n].check, meant'.column[n], n, Spoken', Keeps(n)')
  <2> DEFINE names == {NewNameOf(m, from) : m \in DOMAIN cols}
             old == OldName(n, from)
             t == cols[old].check
             e == meant.column[old]
  <2>1. /\ stage = "live" /\ from \in DOMAIN cols /\ NewName \notin DOMAIN cols /\ restarts' = restarts
        /\ cols' = [m \in names |-> RenamedColumn(cols[OldName(m, from)], from)]
        /\ meant'.column = [m \in names |-> RenamedIn(meant.column[OldName(m, from)], from, NewName)]
    BY <1>4, RenameDoes
  <2>2. names = (DOMAIN cols \ {from}) \cup {NewName} /\ \A m \in names : OldName(m, from) \in DOMAIN cols
    BY <2>1, RenamedNames
  <2> HIDE DEF names
  <2>3. n \in names /\ DOMAIN cols' = names /\ cols'[n] = RenamedColumn(cols[old], from) /\ old \in DOMAIN cols
        /\ meant'.column[n] = RenamedIn(e, from, NewName)
    BY <2>1, <2>2
  <2>4. cols'[n].check = Rewritten(t, from, NewName) BY <1>0, <2>3, RenamedSays
  <2>5. NewNameOf(old, from) = n BY <2>1, <2>2, <2>3 DEF NewNameOf, OldName
  <2>6. old \in Names BY <1>0, <2>1, <2>3
  <2>7. Spoken = Names /\ Spoken' = AllNames BY <2>1, <2>2, <2>3 DEF Spoken
  <2>8. Kept(t, e, old, Names, Keeps(old)) BY <2>1, <2>3, <2>7 DEF ColumnsKept
  <2>9. ASSUME e \in Expression(Names), Keeps(n)' PROVE Keeps(old)
    <3>1. CASE ~restarts BY <3>1 DEF Keeps
    <3>2. CASE restarts
      <4>1. Storable(meant'.column[n], n) BY <2>1, <2>9, <3>2 DEF Keeps
      <4> HIDE DEF old
      <4>2. Storable(RenamedIn(e, from, NewName), NewNameOf(old, from)) BY <2>3, <2>5, <4>1
      <4> HIDE DEF e
      <4>3. Storable(e, old) BY <1>4, <2>6, <2>9, <4>2, StorableRenamed
      <4> QED BY <4>3 DEF Keeps, e
    <3> QED BY <3>1, <3>2
  <2> HIDE DEF old, t, e
  <2>10. Kept(Rewritten(t, from, NewName), RenamedIn(e, from, NewName), NewNameOf(old, from), AllNames, Keeps(n)')
    <3> DEFINE before == Keeps(old)
               now == Keeps(n)'
    <3>1. Kept(t, e, old, Names, before) /\ (e \in Expression(Names) /\ now => before) BY <2>8, <2>9
    <3> HIDE DEF before, now
    <3>2. Kept(Rewritten(t, from, NewName), RenamedIn(e, from, NewName), NewNameOf(old, from), AllNames, now)
      BY <1>4, <2>6, <3>1, KeptIsRenamed
    <3> QED BY <3>2 DEF now
  <2> QED BY <2>3, <2>4, <2>5, <2>7, <2>10
<1>5. CASE UNCHANGED vars BY <1>1, <1>5 DEF vars
<1>6. ASSUME NEW row \in Rows, Insert(row)
      PROVE  stage' = stage /\ cols' = cols /\ meant'.column = meant.column /\ restarts' = restarts
  BY <1>6 DEF Insert
<1>7. ASSUME NEW e \in LaterChecks, AddCheck(e)
      PROVE  stage' = stage /\ cols' = cols /\ meant'.column = meant.column /\ restarts' = restarts
  BY <1>7, AddCheckDoes
<1> QED BY <1>1, <1>2, <1>3, <1>4, <1>5, <1>6, <1>7, ReadersOnly DEF Next

\* What the parser and the table hold of the table's CHECKs.
Agreed(texts, es, names) ==
    es \in Seq(Expression(names)) /\ texts = [k \in 1..Len(es) |-> TextOf(es[k])]
TablesKept ==
    /\ stage = "parse" => Agreed(tableChecks, meant.table, Names)
    /\ stage = "live" => Agreed(tableChecks, meant.table, Spoken)

\* One more CHECK, and a rename of all.
LEMMA AgreedGrows ==
    ASSUME NEW names, NEW texts, NEW es, Agreed(texts, es, names), NEW e \in Expression(names)
    PROVE  Agreed(Append(texts, TextOf(e)), Append(es, e), names)
<1> DEFINE E == Expression(names)
           n == Len(es)
           t == TextOf(e)
           S == {TextOf(x) : x \in E}
           now == Append(texts, t)
           all == Append(es, e)
<1>1. es \in Seq(E) /\ e \in E /\ texts = [k \in 1..n |-> TextOf(es[k])] /\ n \in Nat BY DEF Agreed
<1>2. /\ all \in Seq(E) /\ Len(all) = n + 1 /\ all[n + 1] = e /\ \A k \in 1..n : all[k] = es[k]
  <2> HIDE DEF E
  <2> QED BY <1>1
<1>3. \A k \in 1..n : es[k] \in E
  <2> HIDE DEF E
  <2> QED BY <1>1
<1>4. texts \in Seq(S) /\ Len(texts) = n /\ t \in S
  <2>1. \A k \in 1..n : TextOf(es[k]) \in S BY <1>3
  <2>2. t \in S BY <1>1
  <2> HIDE DEF S, t, n
  <2>3. texts \in [1..n -> S] BY <1>1, <2>1
  <2> QED BY <1>1, <2>2, <2>3
<1>5. now \in Seq(S) /\ Len(now) = n + 1 /\ now[n + 1] = t /\ \A k \in 1..n : now[k] = texts[k]
  <2> HIDE DEF S, t, n
  <2> QED BY <1>1, <1>4
<1>6. \A k \in 1..n + 1 : now[k] = TextOf(all[k])
  <2> HIDE DEF now, all, E, n
  <2> TAKE k \in 1..n + 1
  <2>1. CASE k = n + 1 BY <1>2, <1>5, <2>1
  <2>2. CASE k # n + 1
    <3>1. k \in 1..n BY <1>1, <2>2
    <3> QED BY <1>1, <1>2, <1>5, <3>1
  <2> QED BY <2>1, <2>2
<1>7. now = [k \in 1..n + 1 |-> TextOf(all[k])]
  <2>1. now = [k \in 1..n + 1 |-> now[k]]
    <3> HIDE DEF now, S, n
    <3> QED BY <1>1, <1>5
  <2> HIDE DEF now, all
  <2> QED BY <1>6, <2>1
<1> HIDE DEF now, all, n
<1>8. Agreed(now, all, names) BY <1>2, <1>7 DEF Agreed
<1> QED BY <1>8 DEF now, all

LEMMA AgreedRenamed ==
    ASSUME NEW texts, NEW es, Agreed(texts, es, Names), NEW from \in Names
    PROVE  Agreed([k \in DOMAIN texts |-> Rewritten(texts[k], from, NewName)],
                  [k \in DOMAIN es |-> RenamedIn(es[k], from, NewName)], AllNames)
<1> DEFINE E == Expression(Names)
           A == Expression(AllNames)
           n == Len(es)
           now == [k \in DOMAIN texts |-> Rewritten(texts[k], from, NewName)]
           all == [k \in DOMAIN es |-> RenamedIn(es[k], from, NewName)]
<1>1. es \in Seq(E) /\ texts = [k \in 1..n |-> TextOf(es[k])] /\ n \in Nat BY DEF Agreed
<1>2. DOMAIN es = 1..n /\ \A k \in 1..n : es[k] \in E
  <2> HIDE DEF E
  <2> QED BY <1>1
<1>3. DOMAIN texts = 1..n /\ \A k \in 1..n : texts[k] = TextOf(es[k])
  <2> HIDE DEF n
  <2> QED BY <1>1
<1>4. \A k \in 1..n : Rewritten(texts[k], from, NewName) = TextOf(RenamedIn(es[k], from, NewName))
  <2> TAKE k \in 1..n
  <2>1. es[k] \in Expression(Names) /\ texts[k] = TextOf(es[k]) BY <1>2, <1>3
  <2> DEFINE e == es[k]
  <2> HIDE DEF e, n
  <2>2. e \in Expression(Names) /\ texts[k] = TextOf(e) BY <2>1 DEF e
  <2>3. TextOf(e) \in Seq(Symbols(Names)) BY <2>2, TextBegins
  <2>4. Rewritten(TextOf(e), from, NewName) = Respelled(TextOf(e), RenamingOf(from))
    BY <2>3, RewrittenIs
  <2>5. TextOf(RenamedIn(e, from, NewName)) = Respelled(TextOf(e), RenamingOf(from))
    BY <2>2, TextRespelled
  <2> QED BY <2>2, <2>4, <2>5 DEF e
<1>5. \A k \in 1..n : RenamedIn(es[k], from, NewName) \in A BY <1>2, RenamedExpression
<1>6. all = [k \in 1..n |-> RenamedIn(es[k], from, NewName)]
      /\ now = [k \in 1..n |-> Rewritten(texts[k], from, NewName)]
  BY <1>2, <1>3
<1> HIDE DEF n, now, all, A, E
<1>7. all \in [1..n -> A] BY <1>5, <1>6
<1>8. all \in Seq(A) /\ Len(all) = n BY <1>1, <1>7
<1>9. \A k \in 1..n : now[k] = TextOf(all[k])
  <2> TAKE k \in 1..n
  <2>1. all[k] = RenamedIn(es[k], from, NewName) BY <1>6
  <2>2. now[k] = Rewritten(texts[k], from, NewName) BY <1>6
  <2> QED BY <1>4, <2>1, <2>2
<1>10. now = [k \in 1..n |-> now[k]] BY <1>6
<1>11. now = [k \in 1..Len(all) |-> TextOf(all[k])] BY <1>8, <1>9, <1>10
<1>12. Agreed(now, all, AllNames) BY <1>8, <1>11 DEF Agreed, A
<1> QED BY <1>12 DEF now, all

LEMMA TablesKeptInit == Init => TablesKept
<1> SUFFICES ASSUME Init PROVE Agreed(tableChecks, meant.table, Names) /\ stage = "parse"
  BY DEF TablesKept
<1>1. tableChecks = <<>> /\ meant.table = <<>> /\ stage = "parse" BY DEF Init
<1> DEFINE E == Expression(Names)
<1>2. <<>> \in Seq(E) /\ Len(<<>>) = 0 /\ 1..0 = {} OBVIOUS
<1>3. <<>> = [k \in 1..0 |-> TextOf(<<>>[k])] BY <1>2
<1> QED BY <1>1, <1>2, <1>3 DEF Agreed

LEMMA TablesKeptNext ==
    ReadSoFar /\ ReadSoFar' /\ TablesKept /\ [Next]_vars => TablesKept'
<1> SUFFICES ASSUME ReadSoFar, ReadSoFar', TablesKept, [Next]_vars PROVE TablesKept' OBVIOUS
<1>1. ASSUME stage' \in {stage, "failed"}, tableChecks' = tableChecks, meant'.table = meant.table, DOMAIN cols' = DOMAIN cols \/ stage' # "live"
      PROVE  TablesKept'
  <2>1. CASE stage' = "parse" \/ stage' = "failed" BY <1>1, <2>1 DEF TablesKept
  <2>2. CASE stage' # "parse" /\ stage' # "failed"
    <3>1. stage' = "live" => Spoken' = Spoken BY <1>1, <2>2 DEF Spoken
    <3> QED BY <1>1, <2>2, <3>1 DEF TablesKept
  <2> QED BY <2>1, <2>2
<1>2. CASE ReadColumn
  <2>1. stage = "parse" /\ tableChecks' = tableChecks /\ meant'.table = meant.table /\ stage' \in {"parse", "failed"}
    BY <1>2, ReadColumnDoes
  <2> QED BY <1>1, <2>1
<1>3. CASE ReadColumnClause
  <2>1. stage = "parse" /\ tableChecks' = tableChecks /\ meant'.table = meant.table /\ stage' = stage
    BY <1>3, ReadColumnClauseDoes
  <2> QED BY <1>1, <2>1
<1>4. CASE ReadTableCheck
  <2>1. Read /\ Item.i = "CHECK" /\ decl' = decl /\ stage = "parse" /\ stage' = stage
    BY <1>4, ReadTableCheckDoes
  <2>2. Declaration(decl) /\ Done + 1 \in 1..Len(decl) /\ Item = decl[Done + 1] BY <2>1, ReadingNext
  <2>3. DOMAIN decl = 1..Len(decl) BY <2>2 DEF Declaration
  <2>4. Item.e \in Expression(Names) BY <2>1, <2>2, <2>3 DEF Declaration
  <2>5. Agreed(tableChecks, meant.table, Names) BY <2>1 DEF TablesKept
  <2>6. CASE UNCHANGED <<tableChecks, meant>> BY <2>1, <2>5, <2>6 DEF TablesKept
  <2>7. CASE ~UNCHANGED <<tableChecks, meant>>
    <3>1. tableChecks' = Append(tableChecks, TextOf(Item.e)) /\ meant'.table = Append(meant.table, Item.e)
      BY <1>4, <2>7, ReadTableCheckDoes
    <3> DEFINE e == Item.e
    <3> HIDE DEF e
    <3>2. Agreed(Append(tableChecks, TextOf(e)), Append(meant.table, e), Names)
      BY <2>4, <2>5, AgreedGrows DEF e
    <3> QED BY <2>1, <3>1, <3>2 DEF TablesKept, e
  <2> QED BY <2>6, <2>7
<1>5. CASE ReadPrimaryKey
  <2>1. stage = "parse" /\ tableChecks' = tableChecks /\ meant'.table = meant.table /\ stage' \in {"parse", "failed"}
    BY <1>5, ReadPrimaryKeyDoes
  <2> QED BY <1>1, <2>1
<1>6. CASE ReadForeignKey
  <2>1. stage = "parse" /\ tableChecks' = tableChecks /\ meant'.table = meant.table /\ stage' = stage
    BY <1>6, ReadForeignKeyDoes
  <2> QED BY <1>1, <2>1
<1>7. CASE Build
  <2>1. stage = "parse" /\ stage' = "live" /\ tableChecks' = tableChecks /\ meant'.table = meant.table
        /\ DOMAIN cols' = DOMAIN cols
    BY <1>7, BuildDoes
  <2>2. Spoken' = Names
    <3>1. DOMAIN cols \subseteq Names BY <2>1, ReadColumnsAreDeclared
    <3>2. NewName \notin DOMAIN cols' BY <2>1, <3>1, ChecksAssumption
    <3> QED BY <3>2 DEF Spoken
  <2> QED BY <2>1, <2>2 DEF TablesKept
<1>8. ASSUME NEW row \in Rows, Insert(row) PROVE TablesKept'
  <2>1. stage' = stage /\ tableChecks' = tableChecks /\ meant'.table = meant.table /\ cols' = cols
    BY <1>8 DEF Insert
  <2> QED BY <1>1, <2>1
<1>9. ASSUME NEW e \in LaterChecks, AddCheck(e) PROVE TablesKept'
  <2>1. /\ stage = "live" /\ ~Renaming /\ cols' = cols /\ stage' = stage
        /\ tableChecks' = Append(tableChecks, TextOf(e)) /\ meant'.table = Append(meant.table, e)
    BY <1>9, AddCheckDoes
  <2>2. Spoken = Names /\ Spoken' = Names
    <3>1. NewName \notin DOMAIN cols BY <2>1, Renamed, ChecksAssumption
    <3> QED BY <2>1, <3>1 DEF Spoken
  <2>3. e \in Expression(Names) BY ChecksAssumption
  <2>4. Agreed(Append(tableChecks, TextOf(e)), Append(meant.table, e), Names)
    <3>1. Agreed(tableChecks, meant.table, Names) BY <2>1, <2>2 DEF TablesKept
    <3> QED BY <2>3, <3>1, AgreedGrows
  <2> QED BY <2>1, <2>2, <2>4 DEF TablesKept
<1>10. ASSUME NEW from \in Names, Rename(from) PROVE TablesKept'
  <2> DEFINE names == {NewNameOf(m, from) : m \in DOMAIN cols}
  <2>1. /\ stage = "live" /\ stage' = stage /\ from \in DOMAIN cols /\ NewName \notin DOMAIN cols
        /\ DOMAIN cols' = names
        /\ tableChecks' = [k \in DOMAIN tableChecks |-> Rewritten(tableChecks[k], from, NewName)]
        /\ meant'.table = [k \in DOMAIN meant.table |-> RenamedIn(meant.table[k], from, NewName)]
    <3> DEFINE table == [k \in DOMAIN meant.table |-> RenamedIn(meant.table[k], from, NewName)]
               column == [m \in names |-> RenamedIn(meant.column[OldName(m, from)], from, NewName)]
               cs == [m \in names |-> RenamedColumn(cols[OldName(m, from)], from)]
    <3>1. /\ stage = "live" /\ stage' = stage /\ from \in DOMAIN cols /\ NewName \notin DOMAIN cols
          /\ cols' = cs /\ meant' = [column |-> column, table |-> table]
          /\ tableChecks' = [k \in DOMAIN tableChecks |-> Rewritten(tableChecks[k], from, NewName)]
      BY <1>10, RenameDoes, Zenon
    <3>2. DOMAIN cs = names OBVIOUS
    <3> HIDE DEF table, column, cs
    <3>3. meant'.table = table BY <3>1
    <3> QED BY <3>1, <3>2, <3>3 DEF table
  <2>2. names = (DOMAIN cols \ {from}) \cup {NewName} BY <2>1, RenamedNames
  <2>3. Spoken = Names /\ Spoken' = AllNames BY <2>1, <2>2 DEF Spoken
  <2>4. Agreed(tableChecks, meant.table, Names) BY <2>1, <2>3 DEF TablesKept
  <2>5. Agreed(tableChecks', meant'.table, AllNames) BY <1>10, <2>1, <2>4, AgreedRenamed
  <2> QED BY <2>1, <2>3, <2>5 DEF TablesKept
<1>11. CASE Restart
  <2>1. /\ stage' \in {stage, "failed"} /\ tableChecks' = tableChecks
        /\ meant'.table = meant.table /\ DOMAIN cols' = DOMAIN cols
    BY <1>11, RestartDoes, RestartRefused
  <2> QED BY <1>1, <2>1
<1>12. CASE UNCHANGED vars
  <2>1. stage' = stage /\ tableChecks' = tableChecks /\ meant'.table = meant.table /\ cols' = cols
    BY <1>12 DEF vars
  <2> QED BY <1>1, <2>1
<1> QED BY <1>2, <1>3, <1>4, <1>5, <1>6, <1>7, <1>8, <1>9, <1>10, <1>11, <1>12 DEF Next

\* All of it, at once.
Held == ReadSoFar /\ TextsRead /\ ColumnsKept /\ TablesKept

LEMMA HeldInit == Init => Held
BY ReadSoFarInit, TextsReadInit, ColumnsKeptInit, TablesKeptInit DEF Held

LEMMA HeldNext == Held /\ [Next]_vars => Held'
<1> SUFFICES ASSUME Held, [Next]_vars PROVE Held' OBVIOUS
<1>1. ReadSoFar' BY ReadSoFarNext DEF Held
<1>2. TextsRead' BY TextsReadNext DEF Held
<1>3. ColumnsKept' BY <1>1, ColumnsKeptNext DEF Held
<1>4. TablesKept' BY <1>1, TablesKeptNext DEF Held
<1> QED BY <1>1, <1>2, <1>3, <1>4 DEF Held

\* Whatever a table's declaration, its rows and the renames and restarts before:
\* evalCheckExpr, on what the catalog keeps of a CHECK, tells of each row what the
\* declared expression says of it, and fails where its meaning says so.
THEOREM VerdictsAreTrue == Spec => []VerdictIsTheTruth
<1>1. Init => Held BY HeldInit
<1>2. Held /\ [Next]_vars => Held' BY HeldNext
<1>3. Held => VerdictIsTheTruth
  <2> SUFFICES ASSUME Held, stage = "live", NEW row \in AnyRow
               PROVE  /\ \A n \in Checked : Keeps(n) =>
                           EvalCheckExpr(NormalizeColumnCheckExpr(cols[n].check, n), row)
                           = IF Misread(meant.column[n], n) THEN "error" ELSE Verdict(meant.column[n], row)
                      /\ \A k \in DOMAIN tableChecks :
                           EvalCheckExpr(tableChecks[k], row) = Verdict(meant.table[k], row)
    BY DEF VerdictIsTheTruth
  <2>1. ASSUME NEW n \in Checked, Keeps(n)
        PROVE  EvalCheckExpr(NormalizeColumnCheckExpr(cols[n].check, n), row)
               = IF Misread(meant.column[n], n) THEN "error" ELSE Verdict(meant.column[n], row)
    <3> DEFINE e == meant.column[n]
               t == cols[n].check
    <3>1. n \in DOMAIN cols /\ e # <<>> BY DEF Checked
    <3>2. e \in Expression(Spoken) /\ Stores(t, e, n, Spoken) BY <2>1, <3>1 DEF Held, ColumnsKept, Kept
    <3>3. n \in Spoken BY <3>1, SpokenNames DEF Held
    <3> HIDE DEF e, t
    <3>4. EvalCheckExpr(NormalizeColumnCheckExpr(t, n), row) = IF Misread(e, n) THEN "error" ELSE Verdict(e, row)
      BY <3>2, <3>3, StoredVerdict
    <3> QED BY <3>4 DEF e, t
  <2>2. ASSUME NEW k \in DOMAIN tableChecks
        PROVE  EvalCheckExpr(tableChecks[k], row) = Verdict(meant.table[k], row)
    <3> DEFINE E == Expression(Spoken)
               es == meant.table
               e == es[k]
    <3>1. es \in Seq(E) /\ tableChecks = [j \in 1..Len(es) |-> TextOf(es[j])]
      BY DEF Held, TablesKept, Agreed
    <3> HIDE DEF E, es
    <3>2. k \in 1..Len(es) /\ tableChecks[k] = TextOf(e) BY <3>1
    <3>3. e \in E BY <3>1, <3>2
    <3> HIDE DEF e
    <3>4. EvalCheckExpr(TextOf(e), row) = Verdict(e, row) BY <3>3, VerdictOf DEF E
    <3> QED BY <3>2, <3>4 DEF e, es
  <2> QED BY <2>1, <2>2
<1> QED BY <1>1, <1>2, <1>3, PTL DEF Spec

----------------------------------------------------------------------------
(* What the rows of a live table passed *)

\* Each of its texts is true of the row; of the columns' texts, those that are
\* as declared.
Passed(cs, checks, row, asDeclared) ==
    /\ \A n \in DOMAIN cs : n \in asDeclared /\ cs[n].check # NoText
         => EvalCheckExpr(NormalizeColumnCheckExpr(cs[n].check, n), row) = "true"
    /\ \A k \in DOMAIN checks : EvalCheckExpr(checks[k], row) = "true"
KeepingNow == {n \in DOMAIN cols : Keeps(n)}
RowsPassed ==
    /\ stage = "parse" => rows = {}
    /\ stage = "live" => \A row \in rows : Passed(cols, tableChecks, row, KeepingNow)

\* What validateRowsAgainstMetadata accepts has passed.
LEMMA ValidPassed ==
    ASSUME NEW cs, NEW checks, NEW rs, Valid(cs, checks, rs), NEW row \in rs, NEW asDeclared
    PROVE  Passed(cs, checks, row, asDeclared)
BY DEF Valid, ChecksHold, Passed

LEMMA RowsPassedInit == Init => RowsPassed
BY DEF Init, RowsPassed

LEMMA RowsPassedNext ==
    ReadSoFar /\ ColumnsKept /\ RowsPassed /\ [Next]_vars => RowsPassed'
<1> SUFFICES ASSUME ReadSoFar, ColumnsKept, RowsPassed, [Next]_vars PROVE RowsPassed' OBVIOUS
<1>1. ASSUME stage = "parse", rows' = rows PROVE RowsPassed' BY <1>1 DEF RowsPassed
<1>2. ASSUME stage' = "live", Valid(cols', tableChecks', rows') PROVE RowsPassed'
  <2>1. ASSUME NEW row \in rows' PROVE Passed(cols', tableChecks', row, KeepingNow')
    <3> DEFINE cs == cols'
               checks == tableChecks'
               rs == rows'
               k == KeepingNow'
    <3>1. Valid(cs, checks, rs) /\ row \in rs BY <1>2
    <3> HIDE DEF cs, checks, rs, k
    <3>2. Passed(cs, checks, row, k) BY <3>1, ValidPassed
    <3> QED BY <3>2 DEF cs, checks, k
  <2> QED BY <1>2, <2>1 DEF RowsPassed
<1>3. CASE UNCHANGED vars BY <1>3 DEF vars, RowsPassed, KeepingNow, Keeps
<1>4. CASE ReadColumn BY <1>1, <1>4, ReadColumnDoes
<1>5. CASE ReadColumnClause BY <1>1, <1>5, ReadColumnClauseDoes
<1>6. CASE ReadTableCheck BY <1>1, <1>6, ReadTableCheckDoes
<1>7. CASE ReadPrimaryKey BY <1>1, <1>7, ReadPrimaryKeyDoes
<1>8. CASE ReadForeignKey BY <1>1, <1>8, ReadForeignKeyDoes
<1>9. CASE Build BY <1>1, <1>9, BuildDoes
<1>10. ASSUME NEW row \in Rows, Insert(row) PROVE RowsPassed'
  <2>1. stage' = "live" /\ Valid(cols', tableChecks', rows') BY <1>10, Zenon DEF Insert
  <2> QED BY <1>2, <2>1
<1>11. ASSUME NEW e \in LaterChecks, AddCheck(e) PROVE RowsPassed'
  <2>1. stage' = "live" /\ cols' = cols /\ rows' = rows /\ Valid(cols, tableChecks', rows)
    BY <1>11, AddCheckDoes
  <2> QED BY <1>2, <2>1
<1>12. ASSUME NEW from \in Names, Rename(from) PROVE RowsPassed'
  <2>1. stage' = "live" /\ Valid(cols', tableChecks', rows') BY <1>12, RenameDoes
  <2> QED BY <1>2, <2>1
<1>13. CASE Restart /\ stage' = "live"
  <2>1. /\ stage = "live" /\ restarts' = TRUE
        /\ UNCHANGED <<stage, tableChecks, meant, rows>>
        /\ cols' = [m \in DOMAIN cols |-> RestartedColumn(m, cols[m], OneOfSeveral(cols, m))]
    BY <1>13, RestartDoes
  <2>2. ASSUME NEW row \in rows, NEW n \in DOMAIN cols', Keeps(n)', cols'[n].check # NoText
        PROVE  EvalCheckExpr(NormalizeColumnCheckExpr(cols'[n].check, n), row) = "true"
    <3> DEFINE t == cols[n].check
               e == meant.column[n]
    <3>1. n \in DOMAIN cols /\ IsColumn(cols[n])
          /\ cols'[n] = RestartedColumn(n, cols[n], OneOfSeveral(cols, n))
      BY <2>1 DEF ReadSoFar, Columns
    <3>2. cols'[n].check = Reloaded(t, n)
      <4>1. OneOfSeveral(cols, n) \in BOOLEAN BY DEF OneOfSeveral
      <4> QED BY <3>1, <4>1, RestartedSays
    <3>3. Keeps(n) /\ Storable(e, n) BY <2>1, <2>2 DEF Keeps
    <3>4. Kept(t, e, n, Spoken, Keeps(n)) BY <2>1, <3>1 DEF ColumnsKept
    <3>5. n \in Spoken /\ Spoken \in TableNames BY <3>1, SpokenNames
    <3>6. n \in KeepingNow BY <3>1, <3>3 DEF KeepingNow
    <3>7. t # NoText => EvalCheckExpr(NormalizeColumnCheckExpr(t, n), row) = "true"
      BY <2>1, <3>1, <3>6 DEF RowsPassed, Passed
    <3> HIDE DEF t, e
    <3>8. t # NoText BY <2>2, <3>2 DEF Reloaded
    <3>9. e \in Expression(Spoken) /\ Stores(t, e, n, Spoken) BY <3>3, <3>4, <3>8 DEF Kept
    <3>10. Reloaded(t, n) = t BY <3>3, <3>5, <3>9, StorableComesBack
    <3> QED BY <3>2, <3>7, <3>8, <3>10
  <2>3. ASSUME NEW row \in rows, NEW k \in DOMAIN tableChecks
        PROVE  EvalCheckExpr(tableChecks[k], row) = "true" BY <2>1 DEF RowsPassed, Passed
  <2>4. ASSUME NEW row \in rows PROVE Passed(cols', tableChecks', row, KeepingNow')
    <3>1. ASSUME NEW n \in DOMAIN cols', n \in KeepingNow', cols'[n].check # NoText
          PROVE  EvalCheckExpr(NormalizeColumnCheckExpr(cols'[n].check, n), row) = "true"
      BY <2>2, <3>1 DEF KeepingNow
    <3>2. \A k \in DOMAIN tableChecks' : EvalCheckExpr(tableChecks'[k], row) = "true" BY <2>1, <2>3
    <3> QED BY <3>1, <3>2 DEF Passed
  <2> QED BY <2>1, <2>4 DEF RowsPassed
<1>14. CASE Restart /\ stage' # "live" BY <1>14, RestartRefused DEF RowsPassed
<1> QED BY <1>3, <1>4, <1>5, <1>6, <1>7, <1>8, <1>9, <1>10, <1>11, <1>12, <1>13, <1>14 DEF Next

\* What is kept of an expression is never the text of no CHECK.
LEMMA StoredIsText ==
    ASSUME NEW names, NEW e \in Expression(names), NEW n, NEW t, Stores(t, e, n, names)
    PROVE  t # NoText
<1> DEFINE T == TextOf(e)
<1>1. T \in Seq(Symbols(names)) /\ Len(T) \in Nat \ {0} BY TextBegins
<1>2. CASE First(e).p = "paren"
  <2>1. At(t, 1) = Kw("(") BY <1>2 DEF Stores
  <2>2. At(<<>>, 1) = End
    <3>1. 1 \notin DOMAIN <<>> OBVIOUS
    <3> QED BY <3>1 DEF At
  <2>3. End # Kw("(") BY DEF End, Kw, Tok
  <2> QED BY <2>1, <2>2, <2>3 DEF NoText
<1>3. CASE First(e).p # "paren" /\ ~IsList(T, n)
  <2>1. t = T BY <1>3 DEF Stores, NormalizeStoredColumnCheckExpr
  <2> HIDE DEF T
  <2> QED BY <1>1, <2>1 DEF NoText
<1>4. CASE First(e).p # "paren" /\ IsList(T, n)
  <2>1. t = Body(T) BY <1>4 DEF Stores, NormalizeStoredColumnCheckExpr
  <2>2. n \in names /\ ListBegins(T, First(e).items) BY <1>4, ListIsOwn
  <2>3. Len(Body(T)) = Len(T) - 4 BY <1>1, <1>4, <2>2, BodyOf
  <2> DEFINE w == First(e).items
             b == Body(T)
             k == Len(w)
             m == Len(T)
             l == Len(b)
  <2>4. k \in Nat \ {0} /\ m >= 3 + 2 * k BY <2>2 DEF ListBegins
  <2>5. m \in Nat /\ l = m - 4 BY <1>1, <2>3
  <2>6. Len(<<>>) = 0 OBVIOUS
  <2> HIDE DEF T, w, k, m, l
  <2>7. l > 0 BY <2>4, <2>5
  <2> QED BY <2>1, <2>6, <2>7 DEF NoText, l
<1> QED BY <1>2, <1>3, <1>4

LEMMA TrueVerdict ==
    ASSUME NEW e, NEW row, Verdict(e, row) = "true" PROVE Truth(e, row)
<1>1. "error" # "true" /\ "false" # "true" OBVIOUS
<1> QED BY <1>1, Zenon DEF Verdict

\* Whatever is declared and whatever is done to the table: no statement and no
\* restart leaves a row in it that a CHECK it was declared with is false of.
THEOREM RowsStayChecked == Spec => []RowsSatisfyTheirChecks
<1> DEFINE Inv == Held /\ RowsPassed
<1>1. Init => Inv BY HeldInit, RowsPassedInit
<1>2. Inv /\ [Next]_vars => Inv'
  <2> SUFFICES ASSUME Inv, [Next]_vars PROVE Inv' OBVIOUS
  <2>1. Held' BY HeldNext
  <2>2. RowsPassed' BY RowsPassedNext DEF Held
  <2> QED BY <2>1, <2>2
<1>3. Inv => RowsSatisfyTheirChecks
  <2> SUFFICES ASSUME Inv, stage = "live", NEW row \in rows
               PROVE  /\ \A n \in Checked : Keeps(n) => Truth(meant.column[n], row)
                      /\ \A k \in DOMAIN meant.table : Truth(meant.table[k], row)
    BY DEF RowsSatisfyTheirChecks
  <2>1. ASSUME NEW n \in Checked, Keeps(n) PROVE Truth(meant.column[n], row)
    <3> DEFINE e == meant.column[n]
               t == cols[n].check
    <3>1. n \in DOMAIN cols /\ e # <<>> /\ n \in KeepingNow BY <2>1 DEF Checked, KeepingNow
    <3>2. e \in Expression(Spoken) /\ Stores(t, e, n, Spoken) BY <2>1, <3>1 DEF Held, ColumnsKept, Kept
    <3>3. n \in Spoken BY <3>1, SpokenNames DEF Held
    <3>4. t # NoText => EvalCheckExpr(NormalizeColumnCheckExpr(t, n), row) = "true"
      BY <3>1 DEF RowsPassed, Passed
    <3> HIDE DEF e, t
    <3>5. t # NoText BY <3>2, StoredIsText
    <3>6. EvalCheckExpr(NormalizeColumnCheckExpr(t, n), row) = IF Misread(e, n) THEN "error" ELSE Verdict(e, row)
      BY <3>2, <3>3, StoredVerdict
    <3>7. Verdict(e, row) = "true" BY <3>4, <3>5, <3>6
    <3>8. Truth(e, row) BY <3>7, TrueVerdict
    <3> QED BY <3>8 DEF e
  <2>2. ASSUME NEW k \in DOMAIN meant.table PROVE Truth(meant.table[k], row)
    <3> DEFINE E == Expression(Spoken)
               es == meant.table
               e == es[k]
    <3>1. es \in Seq(E) /\ tableChecks = [j \in 1..Len(es) |-> TextOf(es[j])] /\ k \in DOMAIN es
      BY DEF Held, TablesKept, Agreed
    <3>2. \A j \in DOMAIN tableChecks : EvalCheckExpr(tableChecks[j], row) = "true"
      BY DEF RowsPassed, Passed
    <3> HIDE DEF E, es
    <3>3. k \in 1..Len(es) /\ e \in E BY <3>1
    <3>4. k \in DOMAIN tableChecks /\ tableChecks[k] = TextOf(e) BY <3>1, <3>3
    <3> HIDE DEF e
    <3>5. EvalCheckExpr(TextOf(e), row) = Verdict(e, row) BY <3>3, VerdictOf DEF E
    <3>6. Truth(e, row) BY <3>2, <3>4, <3>5, TrueVerdict
    <3> QED BY <3>6 DEF e, es
  <2> QED BY <2>1, <2>2
<1> HIDE DEF Inv
<1> QED BY <1>1, <1>2, <1>3, PTL DEF Spec
=============================================================================
