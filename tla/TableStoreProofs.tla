-------------------------- MODULE TableStoreProofs --------------------------
(***************************************************************************)
(* The cache invariant of TableStore and its refinement of IndexedTable,   *)
(* for every set of tables, columns and cells and every threshold.         *)
(*                                                                         *)
(* Every statement ends in Store, so one lemma about Store serves all of   *)
(* them; the only other step that touches the cache is a lookup.           *)
(***************************************************************************)
EXTENDS TableStore, TLAPS

----------------------------------------------------------------------------
(* The index *)

\* An index built from well-typed rows is a well-typed cache entry.
LEMMA BuiltEntry ==
    ASSUME NEW C, NEW table \in Seq([C -> Cell]), NEW c, NEW n \in Nat
    PROVE  IsEntry([version |-> n, buckets |-> Buckets(table, c)])
<1>1. DOMAIN table \subseteq Nat
  OBVIOUS
<1>2. \A i \in DOMAIN table : Key(table[i], c) \in Cell
  BY StoreAssumption DEF Key
<1>3. DOMAIN Buckets(table, c) \subseteq Cell
  BY <1>2 DEF Buckets
<1>4. Buckets(table, c) \in [DOMAIN Buckets(table, c) -> SUBSET Nat]
  BY <1>1 DEF Buckets
<1> QED BY <1>3, <1>4 DEF IsEntry

\* Whether it is reused or built, the entry a lookup answers from is that of
\* the rows the table has.
LEMMA LookupIsCurrent ==
    ASSUME CacheCoherent, NEW t \in DOMAIN rows, NEW c \in Column
    PROVE  Lookup(t, c).buckets = Buckets(rows[t], c)
<1>1. CASE Reusable(cache[t][c], t)
  BY <1>1 DEF Lookup, CacheCoherent
<1>2. CASE ~Reusable(cache[t][c], t)
  BY <1>2 DEF Lookup
<1> QED BY <1>1, <1>2

\* An index answers with the rows that hold the literal as it is spelt.
LEMMA IndexAnswerIsSpelt ==
    ASSUME TypeOK, CacheCoherent,
           NEW t \in DOMAIN rows, NEW c \in schema[t], NEW v \in Cell
    PROVE  IndexAnswer(t, c, v) = Answered({i \in DOMAIN rows[t] : rows[t][i][c] = v})
<1>1. c \in Column /\ rows[t] \in Seq([schema[t] -> Cell])
  BY DEF TypeOK
<1>2. \A i \in DOMAIN rows[t] : Key(rows[t][i], c) = rows[t][i][c]
  BY <1>1 DEF Key
<1>3. Lookup(t, c).buckets = Buckets(rows[t], c)
  BY <1>1, LookupIsCurrent
<1>4. CASE v \in DOMAIN Buckets(rows[t], c)
  <2>1. Buckets(rows[t], c)[v] = {i \in DOMAIN rows[t] : Key(rows[t][i], c) = v}
    BY <1>4 DEF Buckets
  <2> QED BY <1>2, <1>3, <1>4, <2>1 DEF IndexAnswer, Answered
<1>5. CASE v \notin DOMAIN Buckets(rows[t], c)
  <2>1. {i \in DOMAIN rows[t] : rows[t][i][c] = v} = {}
    BY <1>2, <1>5 DEF Buckets
  <2> QED BY <1>3, <1>5, <2>1 DEF IndexAnswer, Answered
<1> QED BY <1>4, <1>5

----------------------------------------------------------------------------
(* Writes *)

\* Every statement that writes gives one table columns and well-typed rows.
LEMMA WriteStores ==
    ASSUME TypeOK, Write
    PROVE  \E t \in Table, columns \in SUBSET Column :
             \E table \in Seq([columns -> Cell]) : Store(t, columns, table)
<1>1. \A C, n : n \in Nat => TablesOf(C, n) \subseteq Seq([C -> Cell])
  BY DEF TablesOf
<1>2. CASE \E t \in Table, C \in SUBSET Column \ {{}} :
             \E table \in TablesOf(C, MaxRows) : Load(t, C, table)
  BY <1>1, <1>2, StoreAssumption DEF Load
<1>3. ASSUME NEW t \in DOMAIN rows,
             \E added \in TablesOf(schema[t], MaxRows) : Insert(t, added)
      PROVE  \E columns \in SUBSET Column :
               \E table \in Seq([columns -> Cell]) : Store(t, columns, table)
  <2>1. PICK added \in Seq([schema[t] -> Cell]) : Insert(t, added)
    BY <1>1, <1>3, StoreAssumption
  <2>2. rows[t] \o added \in Seq([schema[t] -> Cell]) /\ schema[t] \subseteq Column
    BY DEF TypeOK
  <2> QED BY <2>1, <2>2 DEF Insert
<1>4. ASSUME NEW t \in DOMAIN rows, NEW matched \in SUBSET DOMAIN rows[t],
             NEW c \in Column, NEW v \in Cell, Update(t, matched, c, v)
      PROVE  \E columns \in SUBSET Column :
               \E table \in Seq([columns -> Cell]) : Store(t, columns, table)
  <2>1. rows[t] \in Seq([schema[t] -> Cell]) /\ schema[t] \subseteq Column
    BY DEF TypeOK
  <2> DEFINE table == [i \in DOMAIN rows[t] |->
                         IF i \in matched THEN [rows[t][i] EXCEPT ![c] = v] ELSE rows[t][i]]
  <2>2. ASSUME NEW i \in DOMAIN rows[t] PROVE table[i] \in [schema[t] -> Cell]
    <3>1. rows[t][i] \in [schema[t] -> Cell]
      BY <2>1
    <3>2. [rows[t][i] EXCEPT ![c] = v] \in [schema[t] -> Cell]
      BY <3>1
    <3> QED BY <3>1, <3>2
  <2>3. DOMAIN rows[t] = 1..Len(rows[t]) /\ Len(rows[t]) \in Nat
    BY <2>1
  <2>4. table \in Seq([schema[t] -> Cell])
    BY <2>2, <2>3
  <2> QED BY <1>4, <2>1, <2>4 DEF Update
<1>5. ASSUME NEW t \in DOMAIN rows, NEW k \in 0..Len(rows[t]),
             NEW keep \in [1..k -> DOMAIN rows[t]], Delete(t, keep)
      PROVE  \E columns \in SUBSET Column :
               \E table \in Seq([columns -> Cell]) : Store(t, columns, table)
  <2>1. rows[t] \in Seq([schema[t] -> Cell]) /\ schema[t] \subseteq Column
    BY DEF TypeOK
  <2> DEFINE table == [i \in DOMAIN keep |-> rows[t][keep[i]]]
  <2>2. k \in Nat /\ table \in [1..k -> [schema[t] -> Cell]]
    BY <2>1
  <2>3. table \in Seq([schema[t] -> Cell])
    BY <2>2
  <2> QED BY <1>5, <2>1, <2>3 DEF Delete
<1>6. ASSUME NEW t \in DOMAIN rows, NEW C \in SUBSET Column,
             NEW origin \in [C -> Column], Alter(t, origin)
      PROVE  \E columns \in SUBSET Column :
               \E table \in Seq([columns -> Cell]) : Store(t, columns, table)
  <2>1. rows[t] \in Seq([schema[t] -> Cell])
    BY DEF TypeOK
  <2> DEFINE table == [i \in DOMAIN rows[t] |->
                         [c \in DOMAIN origin |-> Key(rows[t][i], origin[c])]]
  <2>2. \A i \in DOMAIN rows[t] : table[i] \in [C -> Cell]
    BY <2>1, StoreAssumption DEF Key
  <2>3. DOMAIN rows[t] = 1..Len(rows[t]) /\ Len(rows[t]) \in Nat
    BY <2>1
  <2>4. table \in Seq([C -> Cell])
    BY <2>2, <2>3
  <2> QED BY <1>6, <2>4 DEF Alter
<1>7. DOMAIN rows \subseteq Table
  BY DEF TypeOK
<1> QED BY <1>2, <1>3, <1>4, <1>5, <1>6, <1>7 DEF Write

\* A table that gets new rows loses its whole index, so nothing stale is left;
\* the other tables keep rows, version and index.
LEMMA StoreKeepsInvariant ==
    ASSUME TypeOK, CacheCoherent,
           NEW t \in Table, NEW columns \in SUBSET Column,
           NEW table \in Seq([columns -> Cell]), Store(t, columns, table)
    PROVE  TypeOK' /\ CacheCoherent'
<1> USE DEF Store, Mark
<1>1. IsEntry(NoEntry)
  <2>1. DOMAIN << >> = {}
    OBVIOUS
  <2> QED BY <2>1 DEF IsEntry, NoEntry
<1>2. cache' = [cache EXCEPT ![t] = [c \in Column |-> NoEntry]]
  OBVIOUS
<1>3. \A u \in Table, c \in Column :
         cache'[u][c] = IF u = t THEN NoEntry ELSE cache[u][c]
  BY <1>2 DEF TypeOK
<1>4. TypeOK'
  <2>1. DOMAIN rows' \subseteq Table /\ rows' = [u \in DOMAIN rows' |-> rows'[u]]
    BY DEF TypeOK
  <2>2. schema' \in [DOMAIN rows' -> SUBSET Column]
    BY DEF TypeOK
  <2>3. ASSUME NEW u \in DOMAIN rows' PROVE rows'[u] \in Seq([schema'[u] -> Cell])
    <3>1. CASE u = t
      <4>1. rows'[u] = table /\ schema'[u] = columns
        BY <3>1, <2>3 DEF TypeOK
      <4> QED BY <4>1
    <3>2. CASE u # t
      <4>1. u \in DOMAIN rows /\ rows'[u] = rows[u] /\ schema'[u] = schema[u]
        BY <3>2, <2>3 DEF TypeOK
      <4> QED BY <4>1 DEF TypeOK
    <3> QED BY <3>1, <3>2
  <2>4. version' \in [Table -> Nat]
    BY DEF TypeOK
  <2>5. cache' = [u \in Table |-> [c \in Column |-> cache'[u][c]]]
    BY <1>2 DEF TypeOK
  <2>6. \A u \in Table, c \in Column : IsEntry(cache'[u][c])
    BY <1>1, <1>3 DEF TypeOK
  <2>7. answer' \in [failed : BOOLEAN, ids : SUBSET Nat]
    BY DEF TypeOK
  <2> QED BY <2>1, <2>2, <2>3, <2>4, <2>5, <2>6, <2>7 DEF TypeOK
<1>5. CacheCoherent'
  <2> SUFFICES ASSUME NEW u \in DOMAIN rows', NEW c \in Column,
                      Reusable(cache[u][c], u)'
               PROVE  cache'[u][c].buckets = Buckets(rows'[u], c)
    BY DEF CacheCoherent
  <2>1. u \in Table
    BY DEF TypeOK
  <2>2. u # t
    BY <1>3, <2>1 DEF Reusable, NoEntry
  <2>3. rows'[u] = rows[u] /\ u \in DOMAIN rows /\ version'[u] = version[u]
    BY <2>1, <2>2 DEF TypeOK
  <2>4. cache'[u][c] = cache[u][c]
    BY <1>3, <2>1, <2>2
  <2> QED BY <2>3, <2>4 DEF CacheCoherent, Reusable
<1> QED BY <1>4, <1>5

\* A lookup leaves the entry it answered from, which is current.
LEMMA IndexScanKeepsInvariant ==
    ASSUME TypeOK, CacheCoherent,
           NEW t \in DOMAIN rows, NEW c \in Column, NEW v \in Cell, IndexScan(t, c, v)
    PROVE  TypeOK' /\ CacheCoherent'
<1>1. t \in Table /\ rows[t] \in Seq([schema[t] -> Cell]) /\ version[t] \in Nat
  BY DEF TypeOK
<1>2. rows' = rows /\ schema' = schema /\ version' = version
  BY DEF IndexScan
<1>3. cache' = [cache EXCEPT ![t][c] = Lookup(t, c)]
  BY DEF IndexScan
<1>4. \A u \in Table, d \in Column :
         cache'[u][d] = IF u = t /\ d = c THEN Lookup(t, c) ELSE cache[u][d]
  BY <1>1, <1>3 DEF TypeOK
<1>5. IsEntry(Lookup(t, c))
  BY <1>1, BuiltEntry DEF Lookup, TypeOK
<1>6. TypeOK'
  <2>1. cache' = [u \in Table |-> [d \in Column |-> cache'[u][d]]]
    BY <1>1, <1>3 DEF TypeOK
  <2>2. \A u \in Table, d \in Column : IsEntry(cache'[u][d])
    BY <1>4, <1>5 DEF TypeOK
  <2>3. answer' \in [failed : BOOLEAN, ids : SUBSET Nat]
    <3>1. DOMAIN rows[t] \subseteq Nat
      BY <1>1
    <3> QED BY <3>1 DEF IndexScan, IndexAnswer, Answered
  <2> QED BY <1>2, <2>1, <2>2, <2>3 DEF TypeOK
<1>7. CacheCoherent'
  <2> SUFFICES ASSUME NEW u \in DOMAIN rows, NEW d \in Column,
                      Reusable(cache[u][d], u)'
               PROVE  cache'[u][d].buckets = Buckets(rows[u], d)
    BY <1>2 DEF CacheCoherent
  <2>1. u \in Table
    BY DEF TypeOK
  <2>2. CASE u = t /\ d = c
    BY <1>4, <2>1, <2>2, LookupIsCurrent
  <2>3. CASE ~(u = t /\ d = c)
    <3>1. cache'[u][d] = cache[u][d]
      BY <1>4, <2>1, <2>3
    <3> QED BY <1>2, <3>1 DEF CacheCoherent, Reusable
  <2> QED BY <2>2, <2>3
<1> QED BY <1>6, <1>7

\* A scan touches nothing but its answer.
LEMMA SeqScanKeepsInvariant ==
    ASSUME TypeOK, CacheCoherent,
           NEW t \in DOMAIN rows, NEW c \in Column, NEW v \in Cell, SeqScan(t, c, v)
    PROVE  TypeOK' /\ CacheCoherent'
<1>1. rows' = rows /\ schema' = schema /\ version' = version /\ cache' = cache
  BY DEF SeqScan
<1>2. answer' \in [failed : BOOLEAN, ids : SUBSET Nat]
  <2>1. rows[t] \in Seq([schema[t] -> Cell])
    BY DEF TypeOK
  <2>2. DOMAIN rows[t] \subseteq Nat
    BY <2>1
  <2> QED BY <2>2 DEF SeqScan, ScanAnswer, Answered, Failed
<1>3. TypeOK'
  BY <1>1, <1>2 DEF TypeOK
<1>4. CacheCoherent'
  BY <1>1 DEF CacheCoherent, Reusable
<1> QED BY <1>3, <1>4

----------------------------------------------------------------------------
(* Theorems *)

\* The cache starts empty and typed.
LEMMA InitInvariant == Init => TypeOK /\ CacheCoherent
<1> SUFFICES ASSUME Init PROVE TypeOK /\ CacheCoherent
  OBVIOUS
<1> USE DEF Init
<1>1. DOMAIN rows = {} /\ DOMAIN schema = {}
  OBVIOUS
<1>2. rows = [t \in DOMAIN rows |-> rows[t]] /\ schema \in [DOMAIN rows -> SUBSET Column]
  BY <1>1
<1>3. IsEntry(NoEntry)
  <2>1. DOMAIN << >> = {}
    OBVIOUS
  <2> QED BY <2>1 DEF IsEntry, NoEntry
<1>4. \A t \in Table, c \in Column : cache[t][c] = NoEntry
  OBVIOUS
<1>5. cache = [t \in Table |-> [c \in Column |-> cache[t][c]]]
  OBVIOUS
<1>6. answer \in [failed : BOOLEAN, ids : SUBSET Nat]
  BY DEF Answered
<1>7. TypeOK
  BY <1>1, <1>2, <1>3, <1>4, <1>5, <1>6 DEF TypeOK
<1>8. CacheCoherent
  BY <1>1 DEF CacheCoherent
<1> QED BY <1>7, <1>8

\* Each kind of step keeps the cache typed and coherent.
LEMMA NextInvariant == TypeOK /\ CacheCoherent /\ [Next]_vars => TypeOK' /\ CacheCoherent'
<1> SUFFICES ASSUME TypeOK, CacheCoherent, [Next]_vars PROVE TypeOK' /\ CacheCoherent'
  OBVIOUS
<1>1. CASE Read
  BY <1>1, IndexScanKeepsInvariant, SeqScanKeepsInvariant DEF Read
<1>2. CASE Write
  BY <1>2, WriteStores, StoreKeepsInvariant
<1>3. CASE UNCHANGED vars
  <2>1. TypeOK'
    BY <1>3 DEF TypeOK, vars
  <2>2. CacheCoherent'
    BY <1>3 DEF CacheCoherent, Reusable, vars
  <2> QED BY <2>1, <2>2
<1> QED BY <1>1, <1>2, <1>3 DEF Next

\* The store is well typed, and every index entry that a lookup would reuse is
\* the index of the rows its table has now (Database::markTableMutated and
\* Database::getOrBuildHashIndex).
THEOREM CacheInvariant == Spec => [](TypeOK /\ CacheCoherent)
<1> QED BY InitInvariant, NextInvariant, PTL DEF Spec

\* Tables, versions and index entries keep their types, and no entry speaks of a
\* table that is not there.
THEOREM StoreTypes == Spec => []TypeOK
<1> QED BY CacheInvariant, PTL

\* The index and the scan give the same rows for a literal whose every equal is
\* spelt alike (IndexScanExecutor and SeqScanExecutor).
THEOREM AccessPathsAgree == Spec => []PathsAgree
<1>1. TypeOK /\ CacheCoherent => PathsAgree
  <2> SUFFICES ASSUME TypeOK, CacheCoherent,
                      NEW t \in DOMAIN rows, NEW c \in schema[t], NEW v \in Cell,
                      \A i \in DOMAIN rows[t] :
                         Equal(rows[t][i][c], v) => rows[t][i][c] = v
               PROVE  IndexAnswer(t, c, v) = ScanAnswer(t, c, v)
    BY DEF PathsAgree
  <2>1. \A w : Equal(w, w)
    BY DEF Equal
  <2>2. {i \in DOMAIN rows[t] : Equal(rows[t][i][c], v)}
          = {i \in DOMAIN rows[t] : rows[t][i][c] = v}
    BY <2>1
  <2> QED BY <2>2, IndexAnswerIsSpelt DEF ScanAnswer
<1> QED BY <1>1, CacheInvariant, PTL

\* A query, by either path, is a query of the abstract table.
LEMMA ReadRefines ==
    ASSUME TypeOK, CacheCoherent, Read
    PROVE  \E t \in Table, c \in Column, v \in Cell : Abstract!Query(t, c, v)
<1>1. PICK t \in DOMAIN rows, c \in Column, v \in Cell :
         IndexScan(t, c, v) \/ SeqScan(t, c, v)
  BY DEF Read
<1>2. t \in Table
  BY DEF TypeOK
<1>3. UNCHANGED <<rows, schema>>
  BY <1>1 DEF IndexScan, SeqScan
<1>4. Abstract!Spelt(t, c, v) = {i \in DOMAIN rows[t] : rows[t][i][c] = v}
  BY DEF Abstract!Spelt
<1>5. Abstract!Matching(t, c, v) = {i \in DOMAIN rows[t] : Equal(rows[t][i][c], v)}
  BY DEF Abstract!Matching
<1>6. Abstract!Spelt(t, c, v) \subseteq Abstract!Matching(t, c, v)
  BY <1>4, <1>5 DEF Equal
<1>7. c \in schema[t] =>
         /\ ~answer'.failed
         /\ Abstract!Spelt(t, c, v) \subseteq answer'.ids
         /\ answer'.ids \subseteq Abstract!Matching(t, c, v)
  <2> SUFFICES ASSUME c \in schema[t]
               PROVE  /\ ~answer'.failed
                      /\ Abstract!Spelt(t, c, v) \subseteq answer'.ids
                      /\ answer'.ids \subseteq Abstract!Matching(t, c, v)
    OBVIOUS
  <2>1. CASE IndexScan(t, c, v)
    <3>1. answer' = Answered(Abstract!Spelt(t, c, v))
      BY <1>4, <2>1, IndexAnswerIsSpelt DEF IndexScan
    <3> QED BY <1>6, <3>1 DEF Answered
  <2>2. CASE SeqScan(t, c, v)
    <3>1. answer' = Answered(Abstract!Matching(t, c, v))
      BY <1>5, <2>2 DEF SeqScan, ScanAnswer
    <3> QED BY <1>6, <3>1 DEF Answered
  <2> QED BY <1>1, <2>1, <2>2
<1>8. answer'.ids \subseteq DOMAIN rows[t]
  BY <1>1 DEF IndexScan, IndexAnswer, SeqScan, ScanAnswer, Answered, Failed
<1> QED BY <1>2, <1>3, <1>7, <1>8 DEF Abstract!Query

\* A statement is a write of the abstract table it names.
LEMMA WriteRefines ==
    ASSUME TypeOK, Write
    PROVE  \E t \in Table : Abstract!Write(t)
<1>1. PICK t \in Table, columns \in SUBSET Column :
         \E table \in Seq([columns -> Cell]) : Store(t, columns, table)
  BY WriteStores
<1>2. DOMAIN schema = DOMAIN rows
  BY DEF TypeOK
<1>3. Abstract!Write(t)
  BY <1>1, <1>2 DEF Store, Abstract!Write
<1> QED BY <1>3

\* The store implements IndexedTable: no query can tell that there are
\* versions, a cache and two access paths, but for what IndexedTable leaves open.
THEOREM StoreImplementsIndexedTable == Spec => ImplementsIndexedTable
<1>1. Init => Abstract!Init
  BY DEF Init, Abstract!Init, Answered
<1>2. TypeOK /\ CacheCoherent /\ [Next]_vars => [Abstract!Next]_(Abstract!vars)
  <2> SUFFICES ASSUME TypeOK, CacheCoherent, [Next]_vars
               PROVE  Abstract!Next \/ UNCHANGED Abstract!vars
    OBVIOUS
  <2>1. CASE Read
    BY <2>1, ReadRefines DEF Abstract!Next
  <2>2. CASE Write
    BY <2>2, WriteRefines DEF Abstract!Next
  <2>3. CASE UNCHANGED vars
    BY <2>3 DEF vars, Abstract!vars
  <2> QED BY <2>1, <2>2, <2>3 DEF Next
<1> QED BY <1>1, <1>2, CacheInvariant, PTL DEF Spec, ImplementsIndexedTable, Abstract!Spec
=============================================================================
