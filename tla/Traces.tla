------------------------------- MODULE Traces -------------------------------
(***************************************************************************)
(* What the proofs about sequences, sets of positions and orders need:     *)
(* induction over the length of a sequence; folds, loops and recursive     *)
(* functions by their traces (the value after each turn, from none to all  *)
(* of them); concatenation; enumerations, stable sorting and sums; texts   *)
(* put together from parts, with and without separators, and respelled.    *)
(*                                                                         *)
(* No proof rule here takes an operator: a step is a function of the       *)
(* number of the turn and the value before it.                             *)
(***************************************************************************)
EXTENDS Orders, SequencesExt, FiniteSetTheorems, SequenceTheorems, WellFoundedInduction, TLAPS

----------------------------------------------------------------------------
(* Traces *)

\* A non-empty set of naturals has a least element.
LEMMA LeastNatural ==
    ASSUME NEW T \in SUBSET Nat, T # {}
    PROVE  \E x \in T : \A y \in T : x <= y
<1>1. PICK x \in T : \A y \in T : ~(<<y, x>> \in OpToRel(<, Nat))
  BY NatLessThanWellFounded, WFMin
<1>2. \A y \in T : ~(y < x)
  BY <1>1 DEF OpToRel
<1> QED BY <1>2

\* If any position is bad there is a first one.
LEMMA FirstBad ==
    ASSUME NEW n \in Nat, NEW bad \in SUBSET (0..n), 0 \notin bad,
           \A i \in 1..n : i - 1 \notin bad => i \notin bad
    PROVE  bad = {}
<1> SUFFICES ASSUME bad # {} PROVE FALSE
  OBVIOUS
<1>1. bad \in SUBSET Nat
  OBVIOUS
<1>2. PICK i \in bad : \A j \in bad : i <= j
  BY <1>1, LeastNatural
<1> QED BY <1>2

\* A recursion over 1..n whose turns stay in St, as a trace and as the function
\* a recursive definition chooses.
Turns(n, St, step) == \A i \in 1..n, x \in St : step[<<i, x>>] \in St
IsTrace(h, n, base, step) == h[0] = base /\ \A i \in 1..n : h[i] = step[<<i, h[i - 1]>>]
Recursion(f, n, base, step) == f = [i \in 0..n |-> IF i = 0 THEN base ELSE step[<<i, f[i - 1]>>]]

LEMMA TraceExists ==
    ASSUME NEW n \in Nat, NEW St, NEW base \in St, NEW step, Turns(n, St, step)
    PROVE  \E h \in [0..n -> St] : IsTrace(h, n, base, step)
<1> DEFINE bad == {m \in 0..n : ~\E h \in [0..m -> St] : IsTrace(h, m, base, step)}
<1>1. 0 \notin bad
  <2>1. [i \in 0..0 |-> base] \in [0..0 -> St] /\ IsTrace([i \in 0..0 |-> base], 0, base, step)
    BY DEF IsTrace
  <2> QED BY <2>1
<1>2. ASSUME NEW m \in 1..n, m - 1 \notin bad
      PROVE  m \notin bad
  <2>1. PICK h \in [0..m - 1 -> St] : IsTrace(h, m - 1, base, step)
    BY <1>2
  <2> DEFINE g == [i \in 0..m |-> IF i = m THEN step[<<m, h[m - 1]>>] ELSE h[i]]
  <2>2. g \in [0..m -> St]
    <3>1. step[<<m, h[m - 1]>>] \in St
      BY <2>1 DEF Turns
    <3>2. \A i \in 0..m : i # m => i \in 0..m - 1
      OBVIOUS
    <3> QED BY <2>1, <3>1, <3>2
  <2>3. ASSUME NEW i \in 1..m PROVE g[i] = step[<<i, g[i - 1]>>]
    <3>1. g[i - 1] = h[i - 1]
      OBVIOUS
    <3>2. CASE i = m
      <4>1. m \in 0..m
        OBVIOUS
      <4>2. g[m] = step[<<m, h[m - 1]>>]
        BY <4>1
      <4> HIDE DEF g
      <4> QED BY <3>1, <3>2, <4>2
    <3>3. CASE i # m
      <4>1. i \in 1..m - 1 /\ g[i] = h[i]
        BY <3>3
      <4> QED BY <2>1, <3>1, <4>1 DEF IsTrace
    <3> QED BY <3>2, <3>3
  <2>4. g[0] = base
    BY <2>1 DEF IsTrace
  <2> QED BY <2>2, <2>3, <2>4 DEF IsTrace
<1>3. bad = {}
  <2> HIDE DEF bad
  <2>1. bad \in SUBSET (0..n)
    BY DEF bad
  <2> QED BY <1>1, <1>2, <2>1, FirstBad
<1>4. n \in 0..n
  OBVIOUS
<1> QED BY <1>3, <1>4

LEMMA RecursionIsTrace ==
    ASSUME NEW n \in Nat, NEW St, NEW base \in St, NEW step, Turns(n, St, step)
    PROVE  /\ \E f : Recursion(f, n, base, step)
           /\ \A f : Recursion(f, n, base, step) =>
                  f \in [0..n -> St] /\ IsTrace(f, n, base, step)
<1>1. PICK h \in [0..n -> St] : IsTrace(h, n, base, step)
  BY TraceExists
<1>2. ASSUME NEW i \in 0..n PROVE h[i] = IF i = 0 THEN base ELSE step[<<i, h[i - 1]>>]
  <2>1. CASE i = 0
    BY <1>1, <2>1 DEF IsTrace
  <2>2. CASE i # 0
    <3>1. i \in 1..n
      BY <2>2
    <3> QED BY <1>1, <2>2, <3>1 DEF IsTrace
  <2> QED BY <2>1, <2>2
<1>3. h = [i \in 0..n |-> IF i = 0 THEN base ELSE step[<<i, h[i - 1]>>]]
  BY <1>2
<1>4. ASSUME NEW f, Recursion(f, n, base, step)
      PROVE  f \in [0..n -> St] /\ IsTrace(f, n, base, step)
  <2> DEFINE bad == {i \in 0..n : f[i] \notin St}
  <2>1. DOMAIN f = 0..n /\ f[0] = base /\ \A i \in 1..n : f[i] = step[<<i, f[i - 1]>>]
    BY <1>4 DEF Recursion
  <2>2. f = [i \in 0..n |-> f[i]]
    BY <1>4 DEF Recursion
  <2>3. 0 \notin bad
    BY <2>1
  <2>4. ASSUME NEW i \in 1..n, i - 1 \notin bad PROVE i \notin bad
    <3>1. i - 1 \in 0..n
      OBVIOUS
    <3>2. f[i - 1] \in St
      BY <2>4, <3>1
    <3>3. step[<<i, f[i - 1]>>] \in St
      BY <3>2 DEF Turns
    <3> QED BY <2>1, <3>3
  <2>5. bad = {}
    <3> HIDE DEF bad
    <3>1. bad \in SUBSET (0..n)
      BY DEF bad
    <3> QED BY <2>3, <2>4, <3>1, FirstBad
  <2>6. \A i \in 0..n : f[i] \in St
    BY <2>5
  <2> QED BY <2>1, <2>2, <2>6 DEF IsTrace
<1> QED BY <1>3, <1>4 DEF Recursion

\* FoldLeft goes by the greatest element of what is left to fold.
Folding(g, n, base, step) ==
    g = [s \in SUBSET (1..n) |-> IF s = {} THEN base ELSE step[<<Max(s), g[s \ {Max(s)}]>>]]

LEMMA LastPosition ==
    ASSUME NEW n \in Nat, NEW s \in SUBSET (1..n), s # {}
    PROVE  Max(s) \in s /\ \A i \in s : i <= Max(s)
<1> DEFINE T == {n - i : i \in s}
<1>1. T \in SUBSET Nat /\ T # {}
  <2>1. \A i \in s : n - i \in Nat
    OBVIOUS
  <2> QED BY <2>1
<1>2. PICK x \in T : \A y \in T : x <= y
  <2> HIDE DEF T
  <2> QED BY <1>1, LeastNatural
<1>3. PICK m \in s : x = n - m
  BY <1>2
<1>4. ASSUME NEW i \in s PROVE m >= i
  <2>1. n - i \in T
    OBVIOUS
  <2>2. x <= n - i
    BY <1>2, <2>1
  <2>3. m \in 1..n /\ i \in 1..n
    OBVIOUS
  <2> HIDE DEF T
  <2> QED BY <1>3, <2>2, <2>3
<1>5. Max(s) \in s /\ \A i \in s : Max(s) >= i
  <2>1. Max(s) = CHOOSE z \in s : \A y \in s : z >= y
    BY DEF Max
  <2> QED BY <1>3, <1>4, <2>1
<1> QED BY <1>5

LEMMA FoldsExist ==
    ASSUME NEW n \in Nat, NEW St, NEW base \in St, NEW step, Turns(n, St, step)
    PROVE  \E g \in [SUBSET (1..n) -> St] : Folding(g, n, base, step)
<1> DEFINE bad == {m \in 0..n : ~\E g \in [SUBSET (1..m) -> St] : Folding(g, m, base, step)}
<1>1. 0 \notin bad
  <2> DEFINE g == [s \in SUBSET (1..0) |-> base]
  <2>1. g \in [SUBSET (1..0) -> St]
    OBVIOUS
  <2>2. \A s \in SUBSET (1..0) : s = {}
    OBVIOUS
  <2>3. g = [s \in SUBSET (1..0) |-> IF s = {} THEN base ELSE step[<<Max(s), g[s \ {Max(s)}]>>]]
    BY <2>2
  <2>4. Folding(g, 0, base, step)
    BY <2>3 DEF Folding
  <2> QED BY <2>1, <2>4
<1>2. ASSUME NEW m \in 1..n, m - 1 \notin bad
      PROVE  m \notin bad
  <2>1. PICK f \in [SUBSET (1..(m - 1)) -> St] : Folding(f, m - 1, base, step)
    <3>1. m - 1 \in 0..n
      OBVIOUS
    <3> QED BY <1>2, <3>1
  <2> DEFINE g == [s \in SUBSET (1..m) |-> IF s = {} THEN base ELSE step[<<Max(s), f[s \ {Max(s)}]>>]]
  <2>2. ASSUME NEW s \in SUBSET (1..m), s # {}
        PROVE  /\ s \ {Max(s)} \in SUBSET (1..(m - 1)) /\ s \ {Max(s)} \in SUBSET (1..m)
               /\ Max(s) \in 1..n
    <3>1. m \in Nat
      OBVIOUS
    <3>2. Max(s) \in s /\ \A i \in s : i <= Max(s)
      BY <2>2, <3>1, LastPosition
    <3> DEFINE x == Max(s)
    <3> HIDE DEF x
    <3>3. x \in s /\ \A i \in s : i <= x
      BY <3>2 DEF x
    <3>4. ASSUME NEW i \in s \ {x} PROVE i \in 1..(m - 1)
      <4>1. i \in 1..m /\ x \in 1..m /\ i <= x /\ i # x
        BY <3>3
      <4> QED BY <4>1
    <3>5. s \ {x} \in SUBSET (1..(m - 1)) /\ s \ {x} \in SUBSET (1..m) /\ x \in 1..n
      BY <3>3, <3>4
    <3> QED BY <3>5 DEF x
  <2>3. \A s \in SUBSET (1..(m - 1)) : f[s] = IF s = {} THEN base ELSE step[<<Max(s), f[s \ {Max(s)}]>>]
    BY <2>1 DEF Folding
  <2>4. \A s \in SUBSET (1..(m - 1)) : s \in SUBSET (1..m) /\ g[s] = f[s]
    BY <2>3
  <2>5. g \in [SUBSET (1..m) -> St]
    <3>1. ASSUME NEW s \in SUBSET (1..m), s # {} PROVE step[<<Max(s), f[s \ {Max(s)}]>>] \in St
      <4>1. Max(s) \in 1..n /\ f[s \ {Max(s)}] \in St
        BY <2>1, <2>2, <3>1
      <4> QED BY <4>1 DEF Turns
    <3> QED BY <3>1
  <2>6. ASSUME NEW s \in SUBSET (1..m)
        PROVE  g[s] = IF s = {} THEN base ELSE step[<<Max(s), g[s \ {Max(s)}]>>]
    <3>1. g[s] = IF s = {} THEN base ELSE step[<<Max(s), f[s \ {Max(s)}]>>]
      OBVIOUS
    <3> HIDE DEF g
    <3> QED BY <2>2, <2>4, <3>1
  <2>7. g = [s \in SUBSET (1..m) |-> IF s = {} THEN base ELSE step[<<Max(s), g[s \ {Max(s)}]>>]]
    BY <2>6
  <2> HIDE DEF g
  <2>8. Folding(g, m, base, step)
    BY <2>7 DEF Folding
  <2> QED BY <2>5, <2>8
<1>3. bad = {}
  <2> HIDE DEF bad
  <2>1. bad \in SUBSET (0..n)
    BY DEF bad
  <2> QED BY <1>1, <1>2, <2>1, FirstBad
<1>4. n \in 0..n
  OBVIOUS
<1> QED BY <1>3, <1>4

LEMMA FoldIsTrace ==
    ASSUME NEW n \in Nat, NEW St, NEW base \in St, NEW step, Turns(n, St, step),
           NEW g, Folding(g, n, base, step)
    PROVE  \E h \in [0..n -> St] : IsTrace(h, n, base, step) /\ h[n] = g[1..n]
<1> DEFINE h == [i \in 0..n |-> g[1..i]]
<1>1. \A s \in SUBSET (1..n) : g[s] = IF s = {} THEN base ELSE step[<<Max(s), g[s \ {Max(s)}]>>]
  BY DEF Folding
<1>2. h[0] = base
  <2>1. 1..0 = {} /\ 1..0 \in SUBSET (1..n) /\ h[0] = g[1..0]
    OBVIOUS
  <2> HIDE DEF h
  <2> QED BY <1>1, <2>1
<1>3. ASSUME NEW i \in 1..n PROVE h[i] = step[<<i, h[i - 1]>>]
  <2>1. i \in Nat /\ 1..i \in SUBSET (1..i) /\ 1..i # {} /\ 1..i \in SUBSET (1..n)
    OBVIOUS
  <2>2. Max(1..i) \in 1..i /\ \A k \in 1..i : k <= Max(1..i)
    BY <2>1, LastPosition
  <2>3. Max(1..i) = i
    BY <2>2
  <2>4. (1..i) \ {i} = 1..(i - 1)
    OBVIOUS
  <2>5. h[i] = g[1..i] /\ h[i - 1] = g[1..(i - 1)]
    OBVIOUS
  <2> HIDE DEF h
  <2> QED BY <1>1, <2>1, <2>3, <2>4, <2>5
<1>4. IsTrace(h, n, base, step)
  BY <1>2, <1>3 DEF IsTrace
<1>5. h \in [0..n -> St]
  <2> DEFINE bad == {i \in 0..n : h[i] \notin St}
  <2> HIDE DEF h
  <2>1. 0 \notin bad
    BY <1>2
  <2>2. ASSUME NEW i \in 1..n, i - 1 \notin bad PROVE i \notin bad
    <3>1. i - 1 \in 0..n
      OBVIOUS
    <3>2. h[i - 1] \in St
      BY <2>2, <3>1
    <3>3. step[<<i, h[i - 1]>>] \in St
      BY <3>2 DEF Turns
    <3> QED BY <1>3, <3>3
  <2>3. bad = {}
    <3> HIDE DEF bad
    <3>1. bad \in SUBSET (0..n)
      BY DEF bad
    <3> QED BY <2>1, <2>2, <3>1, FirstBad
  <2>4. \A i \in 0..n : h[i] \in St
    BY <2>3
  <2>5. DOMAIN h = 0..n /\ h = [i \in 0..n |-> h[i]]
    BY DEF h
  <2> QED BY <2>4, <2>5
<1>6. h[n] = g[1..n]
  OBVIOUS
<1> HIDE DEF h
<1> QED BY <1>4, <1>5, <1>6

----------------------------------------------------------------------------
(* Sequences *)

\* A prefix is the one before it and an item.
LEMMA LongerPrefix ==
    ASSUME NEW Item, NEW s \in Seq(Item), NEW i \in 1..Len(s)
    PROVE  /\ SubSeq(s, 1, i) = Append(SubSeq(s, 1, i - 1), s[i])
           /\ s[i] \in Item /\ SubSeq(s, 1, i) \in Seq(Item) /\ SubSeq(s, 1, i - 1) \in Seq(Item)
           /\ Len(SubSeq(s, 1, i)) = i
<1>1. 1 \in 1..Len(s) /\ i \in 1..Len(s) /\ i \in 1..i /\ s[i] \in Item
  OBVIOUS
<1>2. SubSeq(s, 1, i - 1) \in Seq(Item)
  <2>1. 1 \in Int /\ i - 1 \in Int /\ \A j \in 1..i - 1 : s[j] \in Item
    OBVIOUS
  <2> QED BY <2>1, SubSeqProperties
<1>3. SubSeq(s, 1, i) = SubSeq(s, 1, i - 1) \o <<s[i]>>
  <2>1. i \in 1..Len(s) /\ 1 \in 1..Len(s)
    BY <1>1
  <2> QED BY <2>1, SubSeqRecursiveSecond
<1>4. SubSeq(s, 1, i) \in Seq(Item) /\ Len(SubSeq(s, 1, i)) = i
  OBVIOUS
<1> QED BY <1>1, <1>2, <1>3, <1>4, AppendIsConcat

\* A sequence with an item more than another, and with its items.
LEMMA OneMore ==
    ASSUME NEW Item, NEW s \in Seq(Item), NEW t \in Seq(Item), Len(t) = Len(s) + 1,
           \A i \in 1..Len(s) : t[i] = s[i]
    PROVE  t = Append(s, t[Len(s) + 1])
  <1> DEFINE u == Append(s, t[Len(s) + 1])
  <1>1. Len(s) \in Nat /\ t[Len(s) + 1] \in Item
    OBVIOUS
  <1>2. u \in Seq(Item) /\ Len(u) = Len(s) + 1
    BY <1>1
  <1>3. ASSUME NEW i \in 1..Len(s) + 1 PROVE t[i] = u[i]
    <2>1. CASE i \in 1..Len(s)
      BY <1>1, <2>1
    <2>2. CASE i = Len(s) + 1
      BY <1>1, <2>2
    <2>. QED  BY <1>1, <2>1, <2>2
  <1> HIDE DEF u
  <1>4. t = u
    BY <1>2, <1>3, SeqEqual
  <1>. QED  BY <1>4 DEF u

\* What holds for no item, and for one more, holds for every sequence.
LEMMA Appending ==
    ASSUME NEW Item, NEW X \in SUBSET Seq(Item), <<>> \in X,
           \A s \in X, c \in Item : Append(s, c) \in X
    PROVE  X = Seq(Item)
<1> SUFFICES ASSUME NEW s \in Seq(Item) PROVE s \in X
  OBVIOUS
<1> DEFINE n == Len(s)
           bad == {i \in 0..n : SubSeq(s, 1, i) \notin X}
<1>1. n \in Nat /\ SubSeq(s, 1, 0) = <<>> /\ SubSeq(s, 1, n) = s
  OBVIOUS
<1>2. ASSUME NEW i \in 1..n PROVE SubSeq(s, 1, i) = Append(SubSeq(s, 1, i - 1), s[i]) /\ s[i] \in Item
  BY LongerPrefix
<1> HIDE DEF n
<1>3. 0 \notin bad
  BY <1>1
<1>4. ASSUME NEW i \in 1..n, i - 1 \notin bad PROVE i \notin bad
  <2>1. i - 1 \in 0..n
    BY <1>1
  <2>2. SubSeq(s, 1, i - 1) \in X
    BY <1>4, <2>1
  <2> QED BY <1>2, <2>2
<1>5. bad = {}
  <2>1. bad \in SUBSET (0..n)
    OBVIOUS
  <2> HIDE DEF bad
  <2> QED BY <1>1, <1>3, <1>4, <2>1, FirstBad
<1>6. n \in 0..n
  BY <1>1
<1> QED BY <1>1, <1>5, <1>6

\* FlattenSeq, one sequence after the other.
FlatsTo(Item, ss, result) ==
    \E h \in [0..Len(ss) -> Seq(Item)] :
        /\ h[0] = <<>> /\ h[Len(ss)] = result
        /\ \A i \in 1..Len(ss) : h[i] = h[i - 1] \o ss[i]

LEMMA FlatTrace ==
    ASSUME NEW Item, NEW ss \in Seq(Seq(Item))
    PROVE  FlatsTo(Item, ss, FlattenSeq(ss))
<1> DEFINE n == Len(ss)
           Chosen(f) == f = [i \in 1..n |-> IF i = 1 THEN ss[i] ELSE f[i - 1] \o ss[i]]
           F == CHOOSE f : Chosen(f)
<1>1. FlattenSeq(ss) = IF n = 0 THEN ss ELSE F[n]
  BY DEF FlattenSeq
<1>2. n \in Nat /\ \A i \in 1..n : ss[i] \in Seq(Item)
  OBVIOUS
<1>3. <<>> \in Seq(Item)
  OBVIOUS
<1> DEFINE step == [p \in (1..n) \X Seq(Item) |-> p[2] \o ss[p[1]]]
<1>4. ASSUME NEW i \in 1..n, NEW x \in Seq(Item)
      PROVE  step[<<i, x>>] = x \o ss[i] /\ step[<<i, x>>] \in Seq(Item)
  <2>1. <<i, x>> \in (1..n) \X Seq(Item) /\ ss[i] \in Seq(Item)
    BY <1>2
  <2>2. step[<<i, x>>] = x \o ss[i]
    BY <2>1
  <2> QED BY <2>1, <2>2, ConcatProperties
<1>5. ss = <<>> <=> n = 0
  OBVIOUS
<1> HIDE DEF F, n, step
<1>6. PICK h \in [0..n -> Seq(Item)] : h[0] = <<>> /\ \A i \in 1..n : h[i] = h[i - 1] \o ss[i]
  <2>1. Turns(n, Seq(Item), step)
    BY <1>4 DEF Turns
  <2>2. PICK h \in [0..n -> Seq(Item)] : IsTrace(h, n, <<>>, step)
    BY <1>2, <1>3, <2>1, TraceExists
  <2>3. ASSUME NEW i \in 1..n PROVE h[i] = h[i - 1] \o ss[i]
    <3>1. i - 1 \in 0..n
      BY <1>2
    <3>2. h[i - 1] \in Seq(Item)
      BY <3>1
    <3> QED BY <1>4, <2>2, <3>2 DEF IsTrace
  <2> QED BY <2>2, <2>3 DEF IsTrace
<1>7. CASE n = 0
  BY <1>1, <1>5, <1>6, <1>7 DEF FlatsTo, n
<1>8. CASE n # 0
  <2>1. h[1] = ss[1]
    <3>1. 1 \in 1..n
      BY <1>2, <1>8
    <3>2. h[1] = h[1 - 1] \o ss[1] /\ ss[1] \in Seq(Item)
      BY <1>2, <1>6, <3>1
    <3>3. 1 - 1 = 0 /\ h[0] = <<>>
      BY <1>6
    <3> QED BY <3>2, <3>3, ConcatEmptySeq
  <2> DEFINE f == [i \in 1..n |-> h[i]]
  <2>2. \A i \in 1..n : i # 1 => i - 1 \in 1..n
    BY <1>2
  <2>3. f = [i \in 1..n |-> IF i = 1 THEN ss[i] ELSE f[i - 1] \o ss[i]]
    BY <1>6, <2>1, <2>2
  <2>4. Chosen(f)
    BY <2>3
  <2> HIDE DEF f, Chosen
  <2>5. Chosen(F)
    BY <2>4 DEF F
  <2>6. F = [i \in 1..n |-> IF i = 1 THEN ss[i] ELSE F[i - 1] \o ss[i]]
    BY <2>5 DEF Chosen
  <2> DEFINE bad == {i \in 0..n : i # 0 /\ F[i] # h[i]}
  <2>7. bad = {}
    <3>1. 0 \notin bad
      OBVIOUS
    <3>2. ASSUME NEW i \in 1..n, i - 1 \notin bad PROVE i \notin bad
      <4>1. CASE i = 1
        <5>1. F[1] = ss[1]
          BY <2>6, <4>1
        <5> QED BY <2>1, <4>1, <5>1
      <4>2. CASE i # 1
        <5>1. i - 1 \in 0..n /\ i - 1 # 0
          BY <1>2, <4>2
        <5>2. F[i - 1] = h[i - 1]
          BY <3>2, <5>1
        <5>3. F[i] = F[i - 1] \o ss[i]
          BY <2>6, <4>2
        <5> QED BY <1>6, <5>2, <5>3
      <4> QED BY <4>1, <4>2
    <3>3. bad \in SUBSET (0..n)
      OBVIOUS
    <3> HIDE DEF bad
    <3> QED BY <1>2, <3>1, <3>2, <3>3, FirstBad
  <2>8. n \in 0..n
    BY <1>2
  <2>9. F[n] = h[n]
    BY <1>8, <2>7, <2>8
  <2> QED BY <1>1, <1>6, <1>8, <2>9 DEF FlatsTo, n
<1> QED BY <1>7, <1>8

LEMMA FlatNone == FlattenSeq(<<>>) = <<>>
BY DEF FlattenSeq

LEMMA FlatTyped ==
    ASSUME NEW Item, NEW ss \in Seq(Seq(Item))
    PROVE  FlattenSeq(ss) \in Seq(Item)
<1>1. FlatsTo(Item, ss, FlattenSeq(ss))
  BY FlatTrace
<1>2. Len(ss) \in 0..Len(ss)
  OBVIOUS
<1> QED BY <1>1, <1>2 DEF FlatsTo

LEMMA FlatNext ==
    ASSUME NEW Item, NEW ss \in Seq(Seq(Item)), NEW s \in Seq(Item)
    PROVE  FlattenSeq(Append(ss, s)) = FlattenSeq(ss) \o s
<1> DEFINE n == Len(ss)
           more == Append(ss, s)
<1>1. /\ n \in Nat /\ more \in Seq(Seq(Item)) /\ Len(more) = n + 1
      /\ \A i \in 1..n : more[i] = ss[i]
      /\ more[n + 1] = s
  BY AppendProperties
<1>2. PICK f \in [0..n -> Seq(Item)] :
          f[0] = <<>> /\ f[n] = FlattenSeq(ss) /\ \A i \in 1..n : f[i] = f[i - 1] \o ss[i]
  <2>1. FlatsTo(Item, ss, FlattenSeq(ss))
    BY FlatTrace
  <2> QED BY <2>1 DEF FlatsTo
<1> HIDE DEF n, more
<1>3. PICK g \in [0..n + 1 -> Seq(Item)] :
          g[0] = <<>> /\ g[n + 1] = FlattenSeq(more) /\ \A i \in 1..n + 1 : g[i] = g[i - 1] \o more[i]
  <2>1. FlatsTo(Item, more, FlattenSeq(more))
    BY <1>1, FlatTrace
  <2> QED BY <1>1, <2>1 DEF FlatsTo
<1> DEFINE bad == {i \in 0..n : g[i] # f[i]}
<1>4. bad = {}
  <2>1. 0 \notin bad
    BY <1>2, <1>3
  <2>2. ASSUME NEW i \in 1..n, i - 1 \notin bad PROVE i \notin bad
    <3>1. i - 1 \in 0..n /\ i \in 1..n + 1
      BY <1>1
    <3>2. g[i - 1] = f[i - 1]
      BY <2>2, <3>1
    <3> QED BY <1>1, <1>2, <1>3, <3>1, <3>2
  <2>3. bad \in SUBSET (0..n)
    OBVIOUS
  <2> HIDE DEF bad
  <2> QED BY <1>1, <2>1, <2>2, <2>3, FirstBad
<1>5. n + 1 \in 1..n + 1 /\ (n + 1) - 1 = n /\ n \in 0..n
  BY <1>1
<1>6. g[n] = f[n]
  BY <1>4, <1>5
<1> QED BY <1>1, <1>2, <1>3, <1>5, <1>6 DEF n, more

LEMMA FlatConcat ==
    ASSUME NEW Item, NEW ss \in Seq(Seq(Item)), NEW tt \in Seq(Seq(Item))
    PROVE  FlattenSeq(ss \o tt) = FlattenSeq(ss) \o FlattenSeq(tt)
<1> DEFINE All == Seq(Seq(Item))
           X == {x \in All : FlattenSeq(ss \o x) = FlattenSeq(ss) \o FlattenSeq(x)}
<1>1. <<>> \in X
  <2>1. ss \o <<>> = ss /\ FlattenSeq(ss) \o <<>> = FlattenSeq(ss)
    BY FlatTyped, ConcatEmptySeq
  <2>2. <<>> \in All
    OBVIOUS
  <2>3. FlattenSeq(ss \o <<>>) = FlattenSeq(ss) \o FlattenSeq(<<>>)
    BY <2>1, FlatNone
  <2> QED BY <2>2, <2>3
<1>2. ASSUME NEW x \in X, NEW s \in Seq(Item) PROVE Append(x, s) \in X
  <2>1. /\ Append(x, s) \in All /\ ss \o x \in All
        /\ ss \o Append(x, s) = Append(ss \o x, s)
    BY SMTT(30)
  <2>2. FlattenSeq(ss \o Append(x, s)) = (FlattenSeq(ss) \o FlattenSeq(x)) \o s
    BY <2>1, FlatNext
  <2>3. FlattenSeq(Append(x, s)) = FlattenSeq(x) \o s
    BY FlatNext
  <2>4. FlattenSeq(ss) \in Seq(Item) /\ FlattenSeq(x) \in Seq(Item)
    BY FlatTyped
  <2>5. (FlattenSeq(ss) \o FlattenSeq(x)) \o s = FlattenSeq(ss) \o (FlattenSeq(x) \o s)
    <3>1. \A a, b \in Seq(Item) : (a \o b) \o s = a \o (b \o s)
      BY SMTT(30)
    <3> QED BY <2>4, <3>1
  <2>6. FlattenSeq(ss \o Append(x, s)) = FlattenSeq(ss) \o FlattenSeq(Append(x, s))
    BY <2>2, <2>3, <2>5
  <2> QED BY <2>1, <2>6
<1>3. X \in SUBSET All
  OBVIOUS
<1>4. X = All
  <2> HIDE DEF X
  <2> QED BY <1>1, <1>2, <1>3, Appending
<1> QED BY <1>4

\* The second part of a concatenation is a suffix of it, the first a prefix.
LEMMA SuffixOfConcat ==
    ASSUME NEW Item, NEW u \in Seq(Item), NEW b \in Seq(Item)
    PROVE  IsSuffix(b, u \o b)
<1> DEFINE n == Len(b)
           m == Len(u)
           c == u \o b
           x == Reverse(b)
           y == Reverse(c)
<1>1. /\ n \in Nat /\ m \in Nat /\ c \in Seq(Item) /\ Len(c) = m + n
      /\ \A i \in 1..n : c[m + i] = b[i]
  OBVIOUS
<1>2. x \in Seq(Item) /\ Len(x) = n /\ \A i \in 1..n : x[i] = b[n - i + 1]
  <2>1. \A i \in 1..n : n - i + 1 \in 1..n
    BY <1>1
  <2> QED BY <1>1, <2>1 DEF Reverse
<1> HIDE DEF c
<1>3. y \in Seq(Item) /\ Len(y) = m + n /\ \A i \in 1..m + n : y[i] = c[m + n - i + 1]
  <2>1. \A i \in 1..m + n : m + n - i + 1 \in 1..m + n
    BY <1>1
  <2> QED BY <1>1, <2>1 DEF Reverse
<1> HIDE DEF n, m, x, y
<1>4. \A i \in 1..n : x[i] = y[i]
  <2> TAKE i \in 1..n
  <2>1. n - i + 1 \in 1..n /\ m + (n - i + 1) = m + n - i + 1 /\ i \in 1..m + n
    BY <1>1
  <2>2. c[m + (n - i + 1)] = b[n - i + 1]
    BY <1>1, <2>1
  <2> QED BY <1>2, <1>3, <2>1, <2>2
<1>5. SubSeq(x, 1, n) = x
  BY <1>2, SubSeqFull
<1>6. SubSeq(y, 1, n) = x
  <2>1. \A i \in 1..n : y[i] \in Item
    BY <1>1, <1>3
  <2>2. /\ SubSeq(y, 1, n) \in Seq(Item) /\ Len(SubSeq(y, 1, n)) = n
        /\ \A i \in 1..n : SubSeq(y, 1, n)[i] = y[i]
    BY <1>1, <2>1, SubSeqProperties
  <2> QED BY <1>2, <1>4, <2>2, SeqEqual
<1>7. n <= m + n
  BY <1>1
<1> QED BY <1>2, <1>3, <1>5, <1>6, <1>7 DEF IsSuffix, IsPrefix, x, y, c

LEMMA PrefixOfConcat ==
    ASSUME NEW Item, NEW a \in Seq(Item), NEW b \in Seq(Item)
    PROVE  IsPrefix(a, a \o b)
<1> DEFINE n == Len(a)
           c == a \o b
<1>1. /\ n \in Nat /\ c \in Seq(Item) /\ n <= Len(c)
      /\ \A i \in 1..n : c[i] = a[i] /\ a[i] \in Item
  OBVIOUS
<1> HIDE DEF n, c
<1>2. SubSeq(c, 1, n) = a
  <2>1. \A i \in 1..n : c[i] \in Item
    BY <1>1
  <2>2. /\ SubSeq(c, 1, n) \in Seq(Item) /\ Len(SubSeq(c, 1, n)) = IF 1 <= n THEN n - 1 + 1 ELSE 0
        /\ \A i \in 1..n - 1 + 1 : SubSeq(c, 1, n)[i] = c[1 + i - 1]
    BY <1>1, <2>1, SubSeqProperties
  <2>3. Len(SubSeq(c, 1, n)) = n /\ \A i \in 1..n : i \in 1..n - 1 + 1 /\ 1 + i - 1 = i
    BY <1>1, <2>2
  <2>4. \A i \in 1..n : SubSeq(c, 1, n)[i] = a[i]
    BY <1>1, <2>2, <2>3
  <2> QED BY <2>2, <2>3, <2>4, SeqEqual DEF n
<1>3. SubSeq(a, 1, n) = a
  BY SubSeqFull DEF n
<1> QED BY <1>1, <1>2, <1>3 DEF IsPrefix, n, c

----------------------------------------------------------------------------
(* Enumerations *)

\* before orders S strictly: it is irreflexive, transitive and total.
IsStrictOrder(S, before) ==
    /\ before \in [S -> SUBSET S]
    /\ \A a \in S : a \notin before[a]
    /\ \A a, b \in S : a \in before[b] => before[a] \subseteq before[b]
    /\ \A a, b \in S : a # b => a \in before[b] \/ b \in before[a]

\* A sequence that names each element of S once.
Lists(s, S) == s \in Seq(S) /\ Range(s) = S /\ IsInjective(s)

\* Ranked lists a strictly ordered set from its least element on.
LEMMA RankedLists ==
    ASSUME NEW S, IsFiniteSet(S), NEW before, IsStrictOrder(S, before)
    PROVE  LET order == Ranked(S, before) IN
           /\ order \in [1..Cardinality(S) -> S]
           /\ Cardinality(S) \in Nat
           /\ Lists(order, S)
           /\ \A p, q \in 1..Cardinality(S) : p < q => order[p] \in before[order[q]]
           /\ \A a \in S : LET p == Cardinality(before[a]) + 1
                          IN p \in 1..Cardinality(S) /\ order[p] = a
<1> DEFINE n == Cardinality(S)
           rank == [a \in S |-> Cardinality(before[a]) + 1]
           order == Ranked(S, before)
<1>1. n \in Nat
  BY FS_CardinalityType
<1>2. ASSUME NEW a \in S
      PROVE  /\ IsFiniteSet(before[a])
             /\ Cardinality(before[a]) \in Nat /\ Cardinality(before[a]) < n
  <2>1. before[a] \in SUBSET S /\ before[a] # S
    BY DEF IsStrictOrder
  <2>2. IsFiniteSet(before[a]) /\ Cardinality(before[a]) <= n /\ Cardinality(before[a]) # n
    BY <2>1, FS_Subset
  <2>3. Cardinality(before[a]) \in Nat
    BY <2>2, FS_CardinalityType
  <2> QED BY <1>1, <2>2, <2>3
<1>3. ASSUME NEW a \in S, NEW b \in S, a \in before[b]
      PROVE  Cardinality(before[a]) < Cardinality(before[b])
  <2>1. before[a] \in SUBSET before[b] /\ before[a] # before[b]
    BY <1>3 DEF IsStrictOrder
  <2>2. /\ Cardinality(before[a]) <= Cardinality(before[b])
        /\ Cardinality(before[a]) # Cardinality(before[b])
    BY <1>2, <2>1, FS_Subset
  <2> QED BY <1>2, <2>2
<1>4. rank \in Injection(S, 1..n)
  <2>1. rank \in [S -> 1..n]
    BY <1>1, <1>2
  <2>2. \A a, b \in S : rank[a] = rank[b] => a = b
    BY <1>2, <1>3 DEF IsStrictOrder
  <2> QED BY <2>1, <2>2 DEF Injection, IsInjective
<1>5. rank \in Surjection(S, 1..n)
  <2>1. IsFiniteSet(1..n) /\ Cardinality(1..n) = n
    BY <1>1, FS_Interval
  <2> QED BY <1>4, <2>1, FS_Injection
<1>6. ASSUME NEW p \in 1..n
      PROVE  order[p] \in S /\ Cardinality(before[order[p]]) = p - 1
  <2>1. PICK a \in S : rank[a] = p
    BY <1>5 DEF Surjection
  <2>2. Cardinality(before[a]) = p - 1
    BY <1>2, <2>1
  <2>3. order[p] = CHOOSE x \in S : Cardinality(before[x]) = p - 1
    BY DEF Ranked
  <2> QED BY <2>2, <2>3
<1>7. order \in [1..n -> S]
  <2>1. order = [p \in 1..n |-> order[p]]
    BY DEF Ranked
  <2> HIDE DEF order
  <2> QED BY <1>6, <2>1
<1> HIDE DEF order
<1>8. \A a \in S : order[rank[a]] = a
  <2> SUFFICES ASSUME NEW a \in S PROVE order[rank[a]] = a
    OBVIOUS
  <2>1. rank[a] \in 1..n /\ rank[a] = Cardinality(before[a]) + 1
    BY <1>1, <1>2
  <2>2. order[rank[a]] \in S /\ rank[order[rank[a]]] = rank[a]
    BY <1>2, <1>6, <2>1
  <2> QED BY <1>4, <2>2 DEF Injection, IsInjective
<1>9. Lists(order, S)
  <2>1. order \in Seq(S)
    BY <1>1, <1>7
  <2>2. Range(order) = S
    BY <1>1, <1>2, <1>7, <1>8 DEF Range
  <2>3. IsInjective(order)
    BY <1>6, <1>7 DEF IsInjective
  <2> QED BY <2>1, <2>2, <2>3 DEF Lists
<1>10. ASSUME NEW p \in 1..n, NEW q \in 1..n, p < q
       PROVE  order[p] \in before[order[q]]
  <2>1. order[p] \in S /\ order[q] \in S /\ order[p] # order[q]
    BY <1>6, <1>10
  <2>2. order[q] \in before[order[p]] => q - 1 < p - 1
    BY <1>3, <1>6, <2>1
  <2> QED BY <1>10, <2>1, <2>2 DEF IsStrictOrder
<1>11. \A a \in S : rank[a] \in 1..n /\ rank[a] = Cardinality(before[a]) + 1
  BY <1>1, <1>2
<1> QED BY <1>1, <1>7, <1>8, <1>9, <1>10, <1>11 DEF order

\* An irreflexive, transitive and total relation orders strictly.
LEMMA StrictOrder ==
    ASSUME NEW S, NEW before \in [S -> SUBSET S],
           \A a \in S : a \notin before[a],
           \A a, b, c \in S : a \in before[b] /\ b \in before[c] => a \in before[c],
           \A a, b \in S : a # b => a \in before[b] \/ b \in before[a]
    PROVE  IsStrictOrder(S, before)
<1>1. ASSUME NEW a \in S, NEW b \in S, a \in before[b]
      PROVE  before[a] \subseteq before[b]
  BY <1>1
<1> QED BY <1>1 DEF IsStrictOrder

\* Ascending lists a finite set of integers in their order.
LEMMA AscendingLists ==
    ASSUME NEW S \in SUBSET Int, IsFiniteSet(S)
    PROVE  /\ Lists(Ascending(S), S)
           /\ Ascending(S) \in [1..Cardinality(S) -> S]
           /\ \A p, q \in 1..Cardinality(S) : p < q => Ascending(S)[p] < Ascending(S)[q]
           /\ \A k \in S : LET p == Cardinality({m \in S : m < k}) + 1
                          IN p \in 1..Cardinality(S) /\ Ascending(S)[p] = k
<1>1. PICK smaller \in [S -> SUBSET S] : smaller = [a \in S |-> {b \in S : b < a}]
  OBVIOUS
<1>2. \A a, b \in S : a \in smaller[b] <=> a < b
  BY <1>1
<1>3. Ascending(S) = Ranked(S, smaller)
  BY <1>1 DEF Ascending
<1>4. \A a \in S : a \notin smaller[a]
  BY <1>2
<1>5. \A a, b, c \in S : a \in smaller[b] /\ b \in smaller[c] => a \in smaller[c]
  BY <1>2
<1>6. \A a, b \in S : a # b => a \in smaller[b] \/ b \in smaller[a]
  BY <1>2
<1>7. IsStrictOrder(S, smaller)
  BY <1>4, <1>5, <1>6, StrictOrder
<1>8. /\ Lists(Ascending(S), S)
      /\ Ascending(S) \in [1..Cardinality(S) -> S]
      /\ \A p, q \in 1..Cardinality(S) : p < q => Ascending(S)[p] \in smaller[Ascending(S)[q]]
      /\ \A k \in S : LET p == Cardinality(smaller[k]) + 1
                     IN p \in 1..Cardinality(S) /\ Ascending(S)[p] = k
  BY <1>3, <1>7, RankedLists
<1>9. \A k \in S : smaller[k] = {m \in S : m < k}
  BY <1>1
<1> QED BY <1>2, <1>8, <1>9

----------------------------------------------------------------------------
(* Lists: a sequence that names each element of a set once *)

\* Nothing to list.
LEMMA ListsEmpty == Lists(<<>>, {})
<1>1. <<>> \in Seq({}) /\ DOMAIN <<>> = {}
  OBVIOUS
<1> QED BY <1>1 DEF Lists, Range, IsInjective

\* One thing to list.
LEMMA ListsOne ==
    ASSUME NEW x
    PROVE  Lists(<<x>>, {x})
<1>1. <<x>> \in Seq({x}) /\ DOMAIN <<x>> = {1} /\ <<x>>[1] = x
  OBVIOUS
<1> QED BY <1>1 DEF Lists, Range, IsInjective

\* A function over 1..n is a list of its values when it is injective.
LEMMA ListsFunction ==
    ASSUME NEW n \in Nat, NEW T, NEW f, f = [h \in 1..n |-> f[h]],
           \A h \in 1..n : f[h] \in T,
           \A x \in T : \E h \in 1..n : f[h] = x,
           \A h, k \in 1..n : f[h] = f[k] => h = k
    PROVE  Lists(f, T)
<1>1. f \in [1..n -> T] /\ DOMAIN f = 1..n
  OBVIOUS
<1>2. f \in Seq(T)
  BY <1>1
<1> QED BY <1>1, <1>2 DEF Lists, Range, IsInjective

\* What a list is, position by position.
LEMMA ListsAt ==
    ASSUME NEW S, NEW s, Lists(s, S)
    PROVE  /\ Len(s) \in Nat /\ DOMAIN s = 1..Len(s)
           /\ \A h \in 1..Len(s) : s[h] \in S
           /\ \A x \in S : \E h \in 1..Len(s) : s[h] = x
           /\ \A h, k \in 1..Len(s) : s[h] = s[k] => h = k
           /\ S = {} => s = <<>>
<1>1. s \in Seq(S) /\ Range(s) = S /\ IsInjective(s)
  BY DEF Lists
<1>2. Len(s) \in Nat /\ DOMAIN s = 1..Len(s)
  BY <1>1
<1>3. \A h \in 1..Len(s) : s[h] \in S
  BY <1>1
<1>4. S = {} => s = <<>>
  BY <1>1, <1>2, <1>3
<1> QED BY <1>1, <1>2, <1>3, <1>4 DEF Range, IsInjective

\* What a concatenation shows.
LEMMA RangeConcat ==
    ASSUME NEW S, NEW s \in Seq(S), NEW t \in Seq(S)
    PROVE  Range(s \o t) = Range(s) \cup Range(t)
<1>1. /\ s \o t \in Seq(S) /\ Len(s \o t) = Len(s) + Len(t)
      /\ Len(s) \in Nat /\ Len(t) \in Nat
  OBVIOUS
<1>2. /\ DOMAIN s = 1..Len(s) /\ DOMAIN t = 1..Len(t)
      /\ DOMAIN (s \o t) = 1..Len(s) + Len(t)
  BY <1>1
<1>3. \A h \in 1..Len(s) : (s \o t)[h] = s[h]
  OBVIOUS
<1>4. \A h \in 1..Len(t) : (s \o t)[Len(s) + h] = t[h]
  OBVIOUS
<1>5. \A h \in 1..Len(s) + Len(t) : h \in 1..Len(s) \/ h - Len(s) \in 1..Len(t)
  BY <1>1
<1>6. ASSUME NEW x \in Range(s \o t) PROVE x \in Range(s) \cup Range(t)
  <2>1. PICK h \in 1..Len(s) + Len(t) : x = (s \o t)[h]
    BY <1>2 DEF Range
  <2>2. CASE h \in 1..Len(s)
    BY <1>2, <1>3, <2>1, <2>2 DEF Range
  <2>3. CASE h - Len(s) \in 1..Len(t)
    <3>1. h = Len(s) + (h - Len(s))
      BY <1>1
    <3> QED BY <1>2, <1>4, <2>1, <2>3, <3>1 DEF Range
  <2> QED BY <1>5, <2>2, <2>3
<1>7. ASSUME NEW x \in Range(s) PROVE x \in Range(s \o t)
  <2>1. PICK h \in 1..Len(s) : x = s[h]
    BY <1>2 DEF Range
  <2>2. h \in 1..Len(s) + Len(t)
    BY <1>1
  <2> QED BY <1>2, <1>3, <2>1, <2>2 DEF Range
<1>8. ASSUME NEW x \in Range(t) PROVE x \in Range(s \o t)
  <2>1. PICK h \in 1..Len(t) : x = t[h]
    BY <1>2 DEF Range
  <2>2. Len(s) + h \in 1..Len(s) + Len(t)
    BY <1>1
  <2> QED BY <1>2, <1>4, <2>1, <2>2 DEF Range
<1> QED BY <1>6, <1>7, <1>8

\* Lists of disjoint sets make a list of both.
LEMMA ListsConcat ==
    ASSUME NEW S, NEW T, NEW s, NEW t, Lists(s, S), Lists(t, T), S \cap T = {}
    PROVE  Lists(s \o t, S \cup T)
<1>1. /\ s \in Seq(S \cup T) /\ t \in Seq(S \cup T)
      /\ Range(s) = S /\ Range(t) = T /\ IsInjective(s) /\ IsInjective(t)
  <2>1. s \in Seq(S) /\ t \in Seq(T)
    BY DEF Lists
  <2>2. Seq(S) \subseteq Seq(S \cup T) /\ Seq(T) \subseteq Seq(S \cup T)
    OBVIOUS
  <2> QED BY <2>1, <2>2 DEF Lists
<1>2. s \o t \in Seq(S \cup T) /\ Range(s \o t) = S \cup T
  BY <1>1, RangeConcat
<1>3. ASSUME NEW h \in DOMAIN (s \o t), NEW k \in DOMAIN (s \o t), h < k,
             (s \o t)[h] = (s \o t)[k]
      PROVE  FALSE
  <2>1. /\ Len(s) \in Nat /\ Len(t) \in Nat /\ h \in 1..Len(s) + Len(t)
        /\ k \in 1..Len(s) + Len(t)
    BY <1>1
  <2>2. CASE k <= Len(s)
    <3>1. /\ h \in 1..Len(s) /\ k \in 1..Len(s)
          /\ (s \o t)[h] = s[h] /\ (s \o t)[k] = s[k] /\ DOMAIN s = 1..Len(s)
      BY <1>1, <1>3, <2>1, <2>2
    <3>2. \A a, b \in 1..Len(s) : s[a] = s[b] => a = b
      BY ListsAt
    <3>3. s[h] = s[k]
      BY <1>3, <3>1
    <3> QED BY <1>3, <3>1, <3>2, <3>3
  <2>3. CASE h <= Len(s) /\ k > Len(s)
    <3>1. /\ h \in 1..Len(s) /\ k - Len(s) \in 1..Len(t)
          /\ (s \o t)[h] = s[h] /\ (s \o t)[k] = t[k - Len(s)]
          /\ DOMAIN s = 1..Len(s) /\ DOMAIN t = 1..Len(t)
      BY <1>1, <1>3, <2>1, <2>3
    <3> QED BY <1>1, <1>3, <3>1 DEF Range
  <2>4. CASE h > Len(s)
    <3>1. /\ h - Len(s) \in 1..Len(t) /\ k - Len(s) \in 1..Len(t)
          /\ (s \o t)[h] = t[h - Len(s)] /\ (s \o t)[k] = t[k - Len(s)]
          /\ DOMAIN t = 1..Len(t)
      BY <1>1, <1>3, <2>1, <2>4
    <3>2. \A a, b \in 1..Len(t) : t[a] = t[b] => a = b
      BY ListsAt
    <3>3. t[h - Len(s)] = t[k - Len(s)]
      BY <1>3, <3>1
    <3>4. h - Len(s) = k - Len(s)
      BY <3>1, <3>2, <3>3
    <3> QED BY <1>3, <2>1, <3>4
  <2> QED BY <2>1, <2>2, <2>3, <2>4
<1>4. IsInjective(s \o t)
  <2>1. \A h, k \in DOMAIN (s \o t) : h = k \/ h < k \/ k < h
    BY <1>1
  <2> QED BY <1>3, <2>1 DEF IsInjective
<1> QED BY <1>2, <1>4 DEF Lists

----------------------------------------------------------------------------
(* Sorting *)

\* Sign compares integers.
LEMMA SignProperties ==
    ASSUME NEW x \in Int, NEW y \in Int
    PROVE  /\ Sign(x, y) \in {-1, 0, 1}
           /\ Sign(x, y) < 0 <=> x < y
           /\ Sign(x, y) = 0 <=> x = y
           /\ Sign(x, y) > 0 <=> x > y
BY DEF Sign

\* A comparison that puts the things of S before the others, and those of one
\* kind by their places, is a weak order.
KindThenPlace(T, S, place, sign) ==
    /\ place \in [T -> Int]
    /\ \A x, y \in T : sign[<<x, y>>] = IF x \in S /\ y \notin S THEN -1
                                        ELSE IF x \notin S /\ y \in S THEN 1
                                        ELSE Sign(place[x], place[y])

LEMMA TwoKindsAreOrdered ==
    ASSUME NEW T, NEW S, NEW place, NEW sign, KindThenPlace(T, S, place, sign), NEW a \in T, NEW b \in T, NEW c \in T
    PROVE  LET Compare(x, y) == sign[<<x, y>>] IN
           /\ Compare(a, b) \in {-1, 0, 1}
           /\ Compare(a, a) = 0
           /\ Compare(a, b) < 0 <=> Compare(b, a) > 0
           /\ Compare(a, b) = 0 <=> Compare(b, a) = 0
           /\ Compare(a, b) <= 0 /\ Compare(b, c) <= 0 => Compare(a, c) <= 0
           /\ Compare(a, b) < 0 /\ Compare(b, c) <= 0 => Compare(a, c) < 0
           /\ Compare(a, b) <= 0 /\ Compare(b, c) < 0 => Compare(a, c) < 0
           /\ Compare(a, b) = 0 /\ Compare(b, c) = 0 => Compare(a, c) = 0
<1> DEFINE Below(x, y) == \/ x \in S /\ y \notin S
                          \/ (x \in S <=> y \in S) /\ place[x] < place[y]
           Level(x, y) == (x \in S <=> y \in S) /\ place[x] = place[y]
<1>1. \A x \in T : place[x] \in Int
  BY DEF KindThenPlace
<1>2. ASSUME NEW x \in T, NEW y \in T
      PROVE  /\ sign[<<x, y>>] \in {-1, 0, 1}
             /\ sign[<<x, y>>] < 0 <=> Below(x, y)
             /\ sign[<<x, y>>] = 0 <=> Level(x, y)
             /\ sign[<<x, y>>] > 0 <=> Below(y, x)
  BY <1>1, SignProperties DEF KindThenPlace
<1>3. place[a] \in Int /\ place[b] \in Int /\ place[c] \in Int
  BY <1>1
<1>4. /\ Level(a, a)
      /\ Level(a, b) <=> Level(b, a)
      /\ ~(Below(a, b) /\ Below(b, a)) /\ ~(Below(a, b) /\ Level(a, b))
      /\ Level(a, b) /\ Level(b, c) => Level(a, c)
      /\ Below(a, b) /\ Below(b, c) => Below(a, c)
      /\ Level(a, b) /\ Below(b, c) => Below(a, c)
      /\ Below(a, b) /\ Level(b, c) => Below(a, c)
  BY <1>3
<1> HIDE DEF Below, Level
<1>5. ASSUME NEW x \in T, NEW y \in T
      PROVE  sign[<<x, y>>] <= 0 <=> Below(x, y) \/ Level(x, y)
  BY <1>2
<1> QED BY <1>2, <1>4, <1>5

\* A weak order on 1..n, given as the signs of its comparisons.
IsWeakOrder(sign, n) ==
    /\ sign \in [1..n -> [1..n -> {-1, 0, 1}]]
    /\ \A a \in 1..n : sign[a][a] = 0
    /\ \A a, b \in 1..n : /\ sign[a][b] < 0 <=> sign[b][a] > 0
                          /\ sign[a][b] = 0 <=> sign[b][a] = 0
    /\ \A a, b, c \in 1..n :
          /\ sign[a][b] < 0 /\ sign[b][c] <= 0 => sign[a][c] < 0
          /\ sign[a][b] <= 0 /\ sign[b][c] < 0 => sign[a][c] < 0
          /\ sign[a][b] = 0 /\ sign[b][c] = 0 => sign[a][c] = 0

\* Ranking by a weak order, equals by position, sorts: what StableOrder gives.
LEMMA StableSorts ==
    ASSUME NEW n \in Nat, NEW sign, IsWeakOrder(sign, n)
    PROVE  LET order == Ranked(1..n, [a \in 1..n |->
                            {b \in 1..n : sign[b][a] < 0 \/ (sign[b][a] = 0 /\ b < a)}])
           IN  /\ order \in [1..n -> 1..n]
               /\ Lists(order, 1..n)
               /\ \A p, q \in 1..n : p <= q => sign[order[p]][order[q]] <= 0
<1> DEFINE Before(a, b) == sign[a][b] < 0 \/ (sign[a][b] = 0 /\ a < b)
<1>1. PICK before \in [1..n -> SUBSET (1..n)] :
          before = [a \in 1..n |-> {b \in 1..n : Before(b, a)}]
  OBVIOUS
<1>2. \A a, b \in 1..n : sign[a][b] \in {-1, 0, 1}
  BY DEF IsWeakOrder
<1>3. \A a \in 1..n : ~Before(a, a)
  BY DEF IsWeakOrder
<1>4. ASSUME NEW a \in 1..n, NEW b \in 1..n, NEW c \in 1..n, Before(a, b), Before(b, c)
      PROVE  Before(a, c)
  <2>1. /\ sign[a][b] < 0 /\ sign[b][c] <= 0 => sign[a][c] < 0
        /\ sign[a][b] <= 0 /\ sign[b][c] < 0 => sign[a][c] < 0
        /\ sign[a][b] = 0 /\ sign[b][c] = 0 => sign[a][c] = 0
    BY DEF IsWeakOrder
  <2>2. sign[a][b] \in {-1, 0, 1} /\ sign[b][c] \in {-1, 0, 1}
    BY <1>2
  <2> QED BY <1>4, <2>1, <2>2
<1>5. ASSUME NEW a \in 1..n, NEW b \in 1..n, a # b
      PROVE  Before(a, b) \/ Before(b, a)
  <2>1. /\ sign[b][a] < 0 <=> sign[a][b] > 0
        /\ sign[a][b] = 0 <=> sign[b][a] = 0
    BY DEF IsWeakOrder
  <2>2. sign[a][b] \in {-1, 0, 1} /\ sign[b][a] \in {-1, 0, 1}
    BY <1>2
  <2>3. a < b \/ b < a
    BY <1>5
  <2> QED BY <2>1, <2>2, <2>3
<1> HIDE DEF Before
<1>6. IsStrictOrder(1..n, before)
  <2>1. \A a, b \in 1..n : a \in before[b] <=> Before(a, b)
    BY <1>1
  <2>2. \A a \in 1..n : a \notin before[a]
    BY <1>3, <2>1
  <2>3. \A a, b, c \in 1..n : a \in before[b] /\ b \in before[c] => a \in before[c]
    BY <1>4, <2>1
  <2>4. \A a, b \in 1..n : a # b => a \in before[b] \/ b \in before[a]
    BY <1>5, <2>1
  <2> QED BY <2>2, <2>3, <2>4, StrictOrder
<1> DEFINE order == Ranked(1..n, before)
<1>7. IsFiniteSet(1..n) /\ Cardinality(1..n) = n
  BY FS_Interval
<1>8. /\ order \in [1..n -> 1..n] /\ Lists(order, 1..n)
      /\ \A p, q \in 1..n : p < q => order[p] \in before[order[q]]
  BY <1>6, <1>7, RankedLists
<1> HIDE DEF order
<1>9. ASSUME NEW p \in 1..n, NEW q \in 1..n, p <= q
      PROVE  sign[order[p]][order[q]] <= 0
  <2>1. order[p] \in 1..n /\ order[q] \in 1..n
    BY <1>8
  <2>2. CASE p = q
    <3>1. sign[order[p]][order[p]] = 0
      BY <2>1 DEF IsWeakOrder
    <3> QED BY <2>2, <3>1
  <2>3. CASE p < q
    <3>1. Before(order[p], order[q])
      BY <1>1, <1>8, <2>1, <2>3
    <3>2. sign[order[p]][order[q]] \in {-1, 0, 1}
      BY <1>2, <2>1
    <3> QED BY <3>1, <3>2 DEF Before
  <2> QED BY <1>9, <2>2, <2>3
<1>10. order = Ranked(1..n, [a \in 1..n |->
                   {b \in 1..n : sign[b][a] < 0 \/ (sign[b][a] = 0 /\ b < a)}])
  BY <1>1, Zenon DEF order, Before
<1> QED BY <1>8, <1>9, <1>10

----------------------------------------------------------------------------
(* Sums: SumFunctionOnSet adds up in an unspecified order *)

Some(s) == CHOOSE x \in s : TRUE

\* g holds the sums of f over the subsets of S.
Summing(f, S, g) ==
    g = [s \in SUBSET S |-> IF s = {} THEN 0 ELSE f[Some(s)] + g[s \ {Some(s)}]]

\* The sum of no numbers, and of some, as CHOOSE defines it.
LEMMA SumIsChosen ==
    ASSUME NEW f, NEW S
    PROVE  SumFunctionOnSet(f, S) = (CHOOSE g : Summing(f, S, g))[S]
BY DEF SumFunctionOnSet, FoldFunctionOnSet, MapThenFoldSet, Summing, Some

\* What is left of a finite set without one of its elements.
LEMMA OneLess ==
    ASSUME NEW S, IsFiniteSet(S), NEW s \in SUBSET S
    PROVE  /\ Cardinality(s) \in Nat
           /\ s = {} <=> Cardinality(s) = 0
           /\ \A x \in s : Cardinality(s \ {x}) = Cardinality(s) - 1
           /\ s # {} => Some(s) \in s
           /\ Cardinality(s) <= Cardinality(S)
<1>1. IsFiniteSet(s) /\ Cardinality(s) <= Cardinality(S)
  BY FS_Subset
<1> QED BY <1>1, FS_CardinalityType, FS_EmptySet, FS_RemoveElement DEF Some

\* The sums over the subsets of a finite set exist.
LEMMA SumsExist ==
    ASSUME NEW D, NEW f \in [D -> Int], NEW S \in SUBSET D, IsFiniteSet(S)
    PROVE  \E g \in [SUBSET S -> Int] : Summing(f, S, g)
<1> DEFINE Small(k) == {s \in SUBSET S : Cardinality(s) <= k}
           Sums(k, g) == \A s \in Small(k) :
                             g[s] = IF s = {} THEN 0 ELSE f[Some(s)] + g[s \ {Some(s)}]
           bad == {k \in Nat : ~\E g \in [Small(k) -> Int] : Sums(k, g)}
<1>1. bad = {}
  <2> SUFFICES ASSUME bad # {} PROVE FALSE
    OBVIOUS
  <2>1. PICK k \in bad : \A m \in bad : k <= m
    BY LeastNatural
  <2>2. CASE k = 0
    <3>1. \A s \in Small(0) : s = {}
      BY OneLess
    <3>2. [s \in Small(0) |-> 0] \in [Small(0) -> Int] /\ Sums(0, [s \in Small(0) |-> 0])
      BY <3>1
    <3> QED BY <2>1, <2>2, <3>2
  <2>3. CASE k # 0
    <3>1. k - 1 \in Nat /\ ~(k - 1 \in bad)
      <4> HIDE DEF bad
      <4>1. k \in Nat
        BY <2>1 DEF bad
      <4> QED BY <2>1, <2>3, <4>1
    <3>2. PICK h \in [Small(k - 1) -> Int] : Sums(k - 1, h)
      BY <3>1
    <3> DEFINE g == [s \in Small(k) |-> IF s = {} THEN 0 ELSE f[Some(s)] + h[s \ {Some(s)}]]
    <3>3. \A s \in Small(k) : s # {} => Some(s) \in s /\ s \ {Some(s)} \in Small(k - 1)
      BY <2>1, <2>3, OneLess
    <3>4. g \in [Small(k) -> Int]
      BY <3>3
    <3>5. \A s \in Small(k - 1) : g[s] = h[s] /\ s \in Small(k)
      BY <2>1, <3>2, OneLess
    <3>6. Sums(k, g)
      <4> SUFFICES ASSUME NEW s \in Small(k)
                   PROVE  g[s] = IF s = {} THEN 0 ELSE f[Some(s)] + g[s \ {Some(s)}]
        OBVIOUS
      <4>1. g[s] = IF s = {} THEN 0 ELSE f[Some(s)] + h[s \ {Some(s)}]
        OBVIOUS
      <4> HIDE DEF g, Small
      <4> QED BY <3>3, <3>5, <4>1
    <3> HIDE DEF Sums, Small, g
    <3> QED BY <2>1, <3>4, <3>6
  <2> QED BY <2>2, <2>3
<1>2. Cardinality(S) \in Nat /\ Small(Cardinality(S)) = SUBSET S
  BY OneLess
<1>3. PICK g \in [SUBSET S -> Int] : Sums(Cardinality(S), g)
  <2> HIDE DEF Sums, Small
  <2> QED BY <1>1, <1>2
<1>4. g = [s \in SUBSET S |-> g[s]]
  OBVIOUS
<1>5. \A s \in SUBSET S : g[s] = IF s = {} THEN 0 ELSE f[Some(s)] + g[s \ {Some(s)}]
  BY <1>2, <1>3
<1> QED BY <1>4, <1>5 DEF Summing

\* They do not depend on the set whose subsets are summed over.
LEMMA SumsAgree ==
    ASSUME NEW f, NEW S, NEW U, IsFiniteSet(S), NEW g, NEW h, Summing(f, S, g), Summing(f, U, h),
           NEW t \in SUBSET S, t \subseteq U
    PROVE  g[t] = h[t]
<1> DEFINE bad == {n \in Nat : \E s \in SUBSET S : s \subseteq U /\ g[s] # h[s] /\ Cardinality(s) = n}
<1>1. /\ \A s \in SUBSET S : g[s] = IF s = {} THEN 0 ELSE f[Some(s)] + g[s \ {Some(s)}]
      /\ \A s \in SUBSET U : h[s] = IF s = {} THEN 0 ELSE f[Some(s)] + h[s \ {Some(s)}]
  BY DEF Summing
<1>2. bad = {}
  <2> SUFFICES ASSUME bad # {} PROVE FALSE
    OBVIOUS
  <2>1. PICK n \in bad : \A m \in bad : n <= m
    BY LeastNatural
  <2>2. PICK s \in SUBSET S : s \subseteq U /\ g[s] # h[s] /\ Cardinality(s) = n
    BY <2>1
  <2>3. s # {}
    BY <1>1, <2>2
  <2>4. /\ Some(s) \in s /\ s \ {Some(s)} \in SUBSET S
        /\ Cardinality(s \ {Some(s)}) = n - 1 /\ n - 1 \in Nat
    BY <2>2, <2>3, OneLess
  <2>5. g[s \ {Some(s)}] = h[s \ {Some(s)}]
    BY <2>1, <2>2, <2>4
  <2> QED BY <1>1, <2>2, <2>3, <2>5
<1>3. Cardinality(t) \in Nat
  BY OneLess
<1> QED BY <1>2, <1>3

\* The first addition.
LEMMA SumUnfolds ==
    ASSUME NEW D, NEW f \in [D -> Int], NEW S \in SUBSET D, IsFiniteSet(S)
    PROVE  /\ SumFunctionOnSet(f, S) \in Int
           /\ SumFunctionOnSet(f, {}) = 0
           /\ S # {} => SumFunctionOnSet(f, S)
                            = f[Some(S)] + SumFunctionOnSet(f, S \ {Some(S)})
<1>1. ASSUME NEW T \in SUBSET S
      PROVE  /\ \E g \in [SUBSET T -> Int] : Summing(f, T, g)
             /\ Summing(f, T, CHOOSE g : Summing(f, T, g))
  BY FS_Subset, SumsExist
<1> DEFINE g == CHOOSE g : Summing(f, S, g)
<1>2. Summing(f, S, g)
  BY <1>1
<1>3. PICK h \in [SUBSET S -> Int] : Summing(f, S, h)
  BY <1>1
<1>4. ASSUME NEW T \in SUBSET S
      PROVE  SumFunctionOnSet(f, T) = h[T]
  <2>1. Summing(f, T, CHOOSE k : Summing(f, T, k))
    BY <1>1
  <2>2. IsFiniteSet(T)
    BY FS_Subset
  <2>3. (CHOOSE k : Summing(f, T, k))[T] = h[T]
    BY <1>3, <2>1, <2>2, SumsAgree
  <2> QED BY <2>3, SumIsChosen
<1>5. \A s \in SUBSET S : h[s] = IF s = {} THEN 0 ELSE f[Some(s)] + h[s \ {Some(s)}]
  BY <1>3 DEF Summing
<1>6. SumFunctionOnSet(f, S) = h[S] /\ SumFunctionOnSet(f, {}) = h[{}]
      /\ SumFunctionOnSet(f, S \ {Some(S)}) = h[S \ {Some(S)}]
  BY <1>4
<1> QED BY <1>3, <1>5, <1>6

\* Any element can be added last.
LEMMA SumRemoves ==
    ASSUME NEW D, NEW f \in [D -> Int], NEW S \in SUBSET D, IsFiniteSet(S), NEW x \in S
    PROVE  SumFunctionOnSet(f, S) = f[x] + SumFunctionOnSet(f, S \ {x})
<1> DEFINE Sum(s) == SumFunctionOnSet(f, s)
           bad == {n \in Nat : \E s \in SUBSET S : /\ Cardinality(s) = n
                                                   /\ \E y \in s : Sum(s) # f[y] + Sum(s \ {y})}
<1>1. ASSUME NEW s \in SUBSET S
      PROVE  /\ Sum(s) \in Int
             /\ s # {} => Some(s) \in s /\ Sum(s) = f[Some(s)] + Sum(s \ {Some(s)})
  BY FS_Subset, SumUnfolds, OneLess, SMTT(30)
<1> HIDE DEF Sum
<1>2. bad = {}
  <2> SUFFICES ASSUME bad # {} PROVE FALSE
    OBVIOUS
  <2>1. PICK n \in bad : \A m \in bad : n <= m
    BY LeastNatural
  <2>2. PICK s \in SUBSET S : Cardinality(s) = n /\ \E y \in s : Sum(s) # f[y] + Sum(s \ {y})
    BY <2>1
  <2>3. PICK y \in s : Sum(s) # f[y] + Sum(s \ {y})
    BY <2>2
  <2> DEFINE c == Some(s)
  <2>4. c \in s /\ Sum(s) = f[c] + Sum(s \ {c})
    BY <1>1, <2>3
  <2> HIDE DEF c
  <2>5. c # y
    BY <2>3, <2>4
  <2>6. /\ Cardinality(s \ {c}) = n - 1 /\ Cardinality(s \ {y}) = n - 1 /\ n - 1 \in Nat
        /\ s \ {c} \in SUBSET S /\ s \ {y} \in SUBSET S
    BY <2>2, <2>4, OneLess
  <2>7. ~(n - 1 \in bad)
    BY <2>1, <2>6
  <2>8. Sum(s \ {c}) = f[y] + Sum((s \ {c}) \ {y}) /\ Sum(s \ {y}) = f[c] + Sum((s \ {y}) \ {c})
    BY <2>4, <2>5, <2>6, <2>7
  <2>9. (s \ {c}) \ {y} = (s \ {y}) \ {c} /\ (s \ {c}) \ {y} \in SUBSET S
    OBVIOUS
  <2>10. f[c] \in Int /\ f[y] \in Int /\ Sum((s \ {c}) \ {y}) \in Int
    BY <1>1, <2>4, <2>9
  <2>11. Sum(s) = f[c] + (f[y] + Sum((s \ {c}) \ {y}))
    BY <2>4, <2>8
  <2>12. f[y] + Sum(s \ {y}) = f[y] + (f[c] + Sum((s \ {c}) \ {y}))
    BY <2>8, <2>9
  <2> QED BY <2>3, <2>10, <2>11, <2>12
<1>3. Cardinality(S) \in Nat
  BY OneLess
<1>4. Sum(S) = f[x] + Sum(S \ {x})
  BY <1>2, <1>3
<1> QED BY <1>4 DEF Sum

\* Summing over one element more.
LEMMA SumAdds ==
    ASSUME NEW D, NEW f \in [D -> Int], NEW S \in SUBSET D, IsFiniteSet(S), NEW x \in D \ S
    PROVE  SumFunctionOnSet(f, S \cup {x}) = SumFunctionOnSet(f, S) + f[x]
<1>1. IsFiniteSet(S \cup {x}) /\ S \cup {x} \in SUBSET D /\ (S \cup {x}) \ {x} = S
  BY FS_AddElement
<1>2. SumFunctionOnSet(f, S \cup {x}) = f[x] + SumFunctionOnSet(f, (S \cup {x}) \ {x})
  BY <1>1, SumRemoves
<1>3. f[x] \in Int /\ SumFunctionOnSet(f, S) \in Int
  BY SumUnfolds
<1>4. SumFunctionOnSet(f, S \cup {x}) = f[x] + SumFunctionOnSet(f, S)
  BY <1>1, <1>2
<1> QED BY <1>3, <1>4

----------------------------------------------------------------------------
(* Picked: some elements of a sequence, in order *)

\* Finitely many positions.
LEMMA Positions ==
    ASSUME NEW n \in Nat, NEW S \in SUBSET (1..n)
    PROVE  /\ IsFiniteSet(S) /\ Cardinality(S) \in Nat /\ Cardinality(S) <= n
           /\ S \in SUBSET Int /\ S \in SUBSET Nat
<1>1. IsFiniteSet(1..n) /\ Cardinality(1..n) = n
  BY FS_Interval
<1>2. IsFiniteSet(S) /\ Cardinality(S) <= n
  BY <1>1, FS_Subset
<1>3. Cardinality(S) \in Nat
  BY <1>2, FS_CardinalityType
<1>4. S \subseteq Nat /\ Nat \subseteq Int
  OBVIOUS
<1> QED BY <1>2, <1>3, <1>4

\* What is picked, and where it ends up.
LEMMA PickedElements ==
    ASSUME NEW s, NEW n \in Nat, NEW S \in SUBSET (1..n)
    PROVE  /\ Picked(s, S) = [p \in 1..Cardinality(S) |-> s[Ascending(S)[p]]]
           /\ DOMAIN Picked(s, S) = 1..Cardinality(S)
           /\ Len(Picked(s, S)) = Cardinality(S)
           /\ \A T : (\A k \in S : s[k] \in T) => Picked(s, S) \in Seq(T)
           /\ \A p \in 1..Cardinality(S) : Ascending(S)[p] \in S
           /\ \A k \in S : LET p == Cardinality({m \in S : m < k}) + 1
                           IN p \in 1..Cardinality(S) /\ Picked(s, S)[p] = s[k]
<1>1. IsFiniteSet(S) /\ S \in SUBSET Int /\ Cardinality(S) \in Nat
  BY Positions
<1>2. /\ Ascending(S) \in [1..Cardinality(S) -> S]
      /\ \A k \in S : LET p == Cardinality({m \in S : m < k}) + 1
                      IN p \in 1..Cardinality(S) /\ Ascending(S)[p] = k
  BY <1>1, AscendingLists
<1>3. Picked(s, S) = [p \in 1..Cardinality(S) |-> s[Ascending(S)[p]]]
  BY <1>2 DEF Picked
<1>4. \A p \in 1..Cardinality(S) : Ascending(S)[p] \in S
  BY <1>2
<1>5. ASSUME NEW T, \A k \in S : s[k] \in T
      PROVE  Picked(s, S) \in Seq(T)
  <2>1. Picked(s, S) \in [1..Cardinality(S) -> T]
    BY <1>3, <1>4, <1>5
  <2> QED BY <1>1, <2>1
<1>6. Len(Picked(s, S)) = Cardinality(S)
  <2>1. Picked(s, S) \in Seq({s[k] : k \in S})
    BY <1>5
  <2>2. DOMAIN Picked(s, S) = 1..Cardinality(S)
    BY <1>3
  <2> QED BY <1>1, <2>1, <2>2, LenProperties
<1> QED BY <1>2, <1>3, <1>4, <1>5, <1>6

\* Sequences that agree where it matters.
LEMMA PickedAlike ==
    ASSUME NEW s, NEW t, NEW n \in Nat, NEW S \in SUBSET (1..n), \A k \in S : s[k] = t[k]
    PROVE  Picked(s, S) = Picked(t, S)
<1>1. /\ Picked(s, S) = [p \in 1..Cardinality(S) |-> s[Ascending(S)[p]]]
      /\ Picked(t, S) = [p \in 1..Cardinality(S) |-> t[Ascending(S)[p]]]
      /\ \A p \in 1..Cardinality(S) : Ascending(S)[p] \in S
  BY PickedElements, ZenonT(60)
<1> QED BY <1>1

\* Nothing picked.
LEMMA PickedNone ==
    ASSUME NEW s
    PROVE  Picked(s, {}) = <<>>
<1>1. {} \in SUBSET (1..0) /\ Cardinality({}) = 0
  BY FS_EmptySet
<1>2. DOMAIN Picked(s, {}) = 1..0 /\ Picked(s, {}) \in Seq({})
  BY <1>1, PickedElements
<1> QED BY <1>2

\* One position more, beyond the others.
LEMMA PickedNext ==
    ASSUME NEW s, NEW n \in Nat, NEW S \in SUBSET (1..n)
    PROVE  /\ Picked(s, S \cup {n + 1}) = Append(Picked(s, S), s[n + 1])
           /\ Cardinality(S \cup {n + 1}) = Cardinality(S) + 1
<1> DEFINE T == S \cup {n + 1}
           c == Cardinality(S)
<1>1. /\ c \in Nat /\ IsFiniteSet(S) /\ n + 1 \in Nat /\ T \in SUBSET (1..n + 1)
      /\ n + 1 \notin S /\ \A m \in S : m \in Nat /\ m < n + 1
  BY Positions
<1>2. Cardinality(T) = c + 1
  BY <1>1, FS_AddElement
<1>3. /\ Picked(s, S) = [p \in 1..c |-> s[Ascending(S)[p]]]
      /\ Picked(s, S) \in Seq({s[k] : k \in S}) /\ Len(Picked(s, S)) = c
      /\ \A p \in 1..c : Ascending(S)[p] \in S
  BY PickedElements
<1>4. Picked(s, T) = [p \in 1..c + 1 |-> s[Ascending(T)[p]]]
  <2>1. Picked(s, T) = [p \in 1..Cardinality(T) |-> s[Ascending(T)[p]]]
    <3> HIDE DEF T
    <3> QED BY <1>1, PickedElements, ZenonT(60)
  <2> QED BY <1>2, <2>1
<1>5. /\ \A k \in S : LET p == Cardinality({m \in S : m < k}) + 1
                      IN p \in 1..c /\ Ascending(S)[p] = k
      /\ \A p, q \in 1..c : p < q => Ascending(S)[p] < Ascending(S)[q]
      /\ \A k \in T : LET p == Cardinality({m \in T : m < k}) + 1
                      IN Ascending(T)[p] = k
  <2>1. S \in SUBSET Int /\ T \in SUBSET Int /\ IsFiniteSet(T)
    BY <1>1, FS_AddElement
  <2> QED BY <1>1, <2>1, AscendingLists
<1>6. ASSUME NEW p \in 1..c
      PROVE  Ascending(T)[p] = Ascending(S)[p]
  <2> DEFINE k == Ascending(S)[p]
             q == Cardinality({m \in S : m < k}) + 1
  <2>1. k \in S
    BY <1>3
  <2>2. q \in 1..c /\ Ascending(S)[q] = k
    BY <1>5, <2>1
  <2>3. q = p
    <3> HIDE DEF q
    <3>1. \A a, b \in 1..c : a < b => Ascending(S)[a] # Ascending(S)[b]
      <4>1. \A a \in 1..c : Ascending(S)[a] \in Int
        <5>1. \A m \in S : m \in Int
          BY <1>1
        <5> QED BY <1>3, <5>1
      <4> QED BY <1>5, <4>1
    <3> HIDE DEF c
    <3> QED BY <2>2, <3>1
  <2> HIDE DEF k
  <2>4. {m \in T : m < k} = {m \in S : m < k}
    <3>1. ~(n + 1 < k)
      BY <1>1, <2>1
    <3> QED BY <3>1
  <2>5. Ascending(T)[Cardinality({m \in T : m < k}) + 1] = k
    BY <1>5, <2>1
  <2>6. Cardinality({m \in T : m < k}) + 1 = p
    BY <2>3, <2>4
  <2> QED BY <2>5, <2>6 DEF k
<1>7. Ascending(T)[c + 1] = n + 1
  <2>1. {m \in T : m < n + 1} = S
    <3>1. ~(n + 1 < n + 1) /\ \A m \in S : m < n + 1
      BY <1>1
    <3> QED BY <3>1
  <2> QED BY <1>5, <2>1
<1> HIDE DEF c, T
<1>8. Picked(s, T) = Append(Picked(s, S), s[n + 1])
  <2>1. \A p \in 1..c + 1 : p \in 1..c \/ p = c + 1
    BY <1>1
  <2> DEFINE X == {s[k] : k \in S} \cup {s[n + 1]}
             a == Append(Picked(s, S), s[n + 1])
  <2>2. Picked(s, S) \in Seq(X) /\ s[n + 1] \in X
    <3>1. \A k \in S : s[k] \in X
      OBVIOUS
    <3> QED BY <3>1, PickedElements
  <2> HIDE DEF X
  <2>3. /\ a \in Seq(X) /\ Len(a) = c + 1
        /\ \A p \in 1..c : a[p] = Picked(s, S)[p]
        /\ a[c + 1] = s[n + 1]
    <3> DEFINE q == Picked(s, S)
    <3>1. q \in Seq(X) /\ Len(q) = c
      BY <1>3, <2>2
    <3> HIDE DEF q
    <3>2. /\ Append(q, s[n + 1]) \in Seq(X) /\ Len(Append(q, s[n + 1])) = c + 1
          /\ \A p \in 1..c : Append(q, s[n + 1])[p] = q[p]
          /\ Append(q, s[n + 1])[c + 1] = s[n + 1]
      BY <2>2, <3>1, AppendProperties
    <3> QED BY <3>2 DEF q
  <2>4. a = [p \in 1..c + 1 |-> a[p]]
    BY <2>3
  <2> HIDE DEF a
  <2>5. \A p \in 1..c + 1 : a[p] = s[Ascending(T)[p]]
    BY <1>3, <1>6, <1>7, <2>1, <2>3
  <2> QED BY <1>4, <2>4, <2>5 DEF a
<1> QED BY <1>2, <1>8 DEF c, T

----------------------------------------------------------------------------
(* Loops: while x is not in stop, x becomes next[x], and rank[x] goes down *)

EndsBy(S, stop, next, n, rank) ==
    /\ n \in Nat /\ stop \in SUBSET S /\ next \in [S -> S] /\ rank \in [S -> 0..n]
    /\ \A x \in S \ stop : rank[next[x]] < rank[x]

\* What holds where a loop stops, and before a turn if after it, holds always.
LEMMA LoopInduction ==
    ASSUME NEW S, NEW stop, NEW next, NEW n, NEW rank, EndsBy(S, stop, next, n, rank),
           NEW good \in SUBSET S, stop \subseteq good,
           \A x \in S \ stop : next[x] \in good => x \in good
    PROVE  good = S
<1> DEFINE bad == {i \in 0..n : \E x \in S : x \notin good /\ rank[x] <= i}
<1>1. /\ n \in Nat /\ \A x \in S : rank[x] \in 0..n /\ next[x] \in S
      /\ \A x \in S \ stop : rank[next[x]] < rank[x]
  BY DEF EndsBy
<1>2. 0 \notin bad
  <2> SUFFICES ASSUME NEW x \in S, x \notin good, rank[x] <= 0 PROVE FALSE
    OBVIOUS
  <2>1. x \in S \ stop /\ next[x] \in S
    BY <1>1
  <2>2. rank[next[x]] < rank[x] /\ rank[next[x]] \in 0..n /\ rank[x] \in 0..n
    BY <1>1, <2>1
  <2> QED BY <1>1, <2>2
<1>3. ASSUME NEW i \in 1..n, i - 1 \notin bad PROVE i \notin bad
  <2> SUFFICES ASSUME NEW x \in S, x \notin good, rank[x] <= i PROVE FALSE
    OBVIOUS
  <2>1. x \in S \ stop /\ next[x] \in S /\ next[x] \notin good
    BY <1>1
  <2>2. rank[next[x]] < rank[x] /\ rank[next[x]] \in 0..n /\ rank[x] \in 0..n
    BY <1>1, <2>1
  <2>3. rank[next[x]] <= i - 1 /\ i - 1 \in 0..n
    BY <1>1, <2>2
  <2> QED BY <1>3, <2>1, <2>3
<1>4. bad = {}
  <2>1. bad \in SUBSET (0..n)
    OBVIOUS
  <2> HIDE DEF bad
  <2> QED BY <1>1, <1>2, <1>3, <2>1, FirstBad
<1> QED BY <1>1, <1>4

\* A loop as a recursive function is one.
LEMMA LoopExists ==
    ASSUME NEW S, NEW stop, NEW next, NEW n, NEW rank, EndsBy(S, stop, next, n, rank)
    PROVE  \E f \in [S -> S] : f = [x \in S |-> IF x \in stop THEN x ELSE f[next[x]]]
<1> DEFINE step == [p \in (1..n + 1) \X [S -> S] |->
                      [x \in S |-> IF x \in stop THEN x ELSE p[2][next[x]]]]
           start == [x \in S |-> x]
<1>1. /\ n \in Nat /\ \A x \in S : rank[x] \in 0..n /\ next[x] \in S
      /\ \A x \in S \ stop : rank[next[x]] < rank[x]
  BY DEF EndsBy
<1>2. n + 1 \in Nat /\ start \in [S -> S]
  BY <1>1
<1>3. ASSUME NEW i \in 1..n + 1, NEW g \in [S -> S]
      PROVE  /\ step[<<i, g>>] = [x \in S |-> IF x \in stop THEN x ELSE g[next[x]]]
             /\ step[<<i, g>>] \in [S -> S]
  BY <1>1
<1> HIDE DEF step, start
<1>4. PICK h \in [0..n + 1 -> [S -> S]] : IsTrace(h, n + 1, start, step)
  BY <1>2, <1>3, TraceExists DEF Turns
<1>5. ASSUME NEW i \in 1..n + 1, NEW x \in S
      PROVE  h[i][x] = IF x \in stop THEN x ELSE h[i - 1][next[x]]
  <2>1. h[i] = step[<<i, h[i - 1]>>] /\ h[i - 1] \in [S -> S]
    BY <1>1, <1>4 DEF IsTrace
  <2>2. h[i] = [y \in S |-> IF y \in stop THEN y ELSE h[i - 1][next[y]]]
    BY <1>3, <2>1
  <2> QED BY <2>2
<1> DEFINE bad == {i \in 0..n : \E x \in S : rank[x] <= i /\ h[i][x] # h[i + 1][x]}
<1>6. bad = {}
  <2>1. 0 \notin bad
    <3> SUFFICES ASSUME NEW x \in S, rank[x] <= 0 PROVE h[0][x] = h[1][x]
      BY DEF bad
    <3>1. x \in stop
      <4> SUFFICES ASSUME x \notin stop PROVE FALSE
        OBVIOUS
      <4>1. rank[next[x]] < rank[x] /\ rank[next[x]] \in 0..n /\ rank[x] \in 0..n
        BY <1>1
      <4> QED BY <1>1, <4>1
    <3>2. h[0][x] = x
      BY <1>4 DEF IsTrace, start
    <3>3. h[1][x] = x
      BY <1>1, <1>5, <3>1
    <3> QED BY <3>2, <3>3
  <2>2. ASSUME NEW i \in 1..n, i - 1 \notin bad PROVE i \notin bad
    <3> SUFFICES ASSUME NEW x \in S, rank[x] <= i PROVE h[i][x] = h[i + 1][x]
      BY DEF bad
    <3>1. i \in 1..n + 1 /\ i + 1 \in 1..n + 1 /\ (i + 1) - 1 = i /\ i - 1 \in 0..n
      BY <1>1
    <3>2. CASE x \in stop
      BY <1>5, <3>1, <3>2
    <3>3. CASE x \notin stop
      <4>1. next[x] \in S /\ rank[next[x]] <= i - 1
        <5>1. rank[next[x]] < rank[x] /\ rank[next[x]] \in 0..n /\ rank[x] \in 0..n /\ next[x] \in S
          BY <1>1, <3>3
        <5> QED BY <5>1
      <4>2. h[i - 1][next[x]] = h[i][next[x]]
        <5>1. (i - 1) + 1 = i
          BY <3>1
        <5>2. h[i - 1][next[x]] = h[(i - 1) + 1][next[x]]
          BY <2>2, <3>1, <4>1 DEF bad
        <5> QED BY <5>1, <5>2
      <4>3. h[i][x] = h[i - 1][next[x]]
        BY <1>5, <3>1, <3>3
      <4>4. h[i + 1][x] = h[i][next[x]]
        BY <1>5, <3>1, <3>3
      <4> QED BY <4>2, <4>3, <4>4
    <3> QED BY <3>2, <3>3
  <2>3. bad \in SUBSET (0..n)
    OBVIOUS
  <2> HIDE DEF bad
  <2> QED BY <1>1, <2>1, <2>2, <2>3, FirstBad
<1> DEFINE f == h[n]
<1>7. f \in [S -> S]
  BY <1>1, <1>4
<1>8. ASSUME NEW x \in S PROVE f[x] = IF x \in stop THEN x ELSE f[next[x]]
  <2>1. rank[x] <= n /\ n \in 0..n /\ n + 1 \in 1..n + 1 /\ (n + 1) - 1 = n
    BY <1>1
  <2>2. h[n][x] = h[n + 1][x]
    BY <1>6, <2>1
  <2>3. h[n + 1][x] = IF x \in stop THEN x ELSE h[n][next[x]]
    BY <1>5, <2>1
  <2> QED BY <2>2, <2>3
<1>9. f = [x \in S |-> IF x \in stop THEN x ELSE f[next[x]]]
  <2> HIDE DEF f
  <2> QED BY <1>7, <1>8
<1> QED BY <1>7, <1>9

----------------------------------------------------------------------------
(* Texts: sequences put together, with separators, and respelled *)

\* What a concatenation holds.
LEMMA TwoJoined ==
    ASSUME NEW S, NEW s \in Seq(S), NEW t \in Seq(S)
    PROVE  /\ s \o t \in Seq(S) /\ Len(s \o t) = Len(s) + Len(t)
           /\ \A j \in 1..Len(s) : (s \o t)[j] = s[j]
           /\ \A j \in 1..Len(t) : (s \o t)[Len(s) + j] = t[j]
OBVIOUS

\* It begins as its first part does.
LEMMA Joined ==
    ASSUME NEW S, NEW a \in Seq(S) \ {<<>>}, NEW b \in Seq(S)
    PROVE  a \o b \in Seq(S) \ {<<>>} /\ (a \o b)[1] = a[1]
<1>1. 1 \in 1..Len(a) /\ Len(a) \in Nat \ {0} /\ Len(b) \in Nat
  OBVIOUS
<1>2. a \o b \in Seq(S) /\ Len(a \o b) = Len(a) + Len(b) /\ (a \o b)[1] = a[1]
  BY <1>1, TwoJoined
<1>3. Len(a \o b) # 0
  BY <1>1, <1>2
<1>4. Len(<<>>) = 0
  OBVIOUS
<1> QED BY <1>2, <1>3, <1>4

\* One place of a sequence.
LEMMA OneOf ==
    ASSUME NEW S, NEW s \in Seq(S), NEW i \in 1..Len(s)
    PROVE  SubSeq(s, i, i) = <<s[i]>>
<1> DEFINE u == SubSeq(s, i, i)
           v == <<s[i]>>
<1>1. s[i] \in S /\ Len(s) \in Nat
  OBVIOUS
<1>2. u \in Seq(S) /\ Len(u) = 1 /\ u[1] = s[i]
  <2>1. /\ u \in Seq(S) /\ Len(u) = IF i <= i THEN i - i + 1 ELSE 0
        /\ \A j \in 1..i - i + 1 : u[j] = s[i + j - 1]
    <3>1. \A j \in i..i : s[j] \in S
      OBVIOUS
    <3>2. i \in Int
      OBVIOUS
    <3> QED BY <3>1, <3>2, SubSeqProperties
  <2>2. i <= i /\ i - i + 1 = 1 /\ 1 \in 1..i - i + 1 /\ i + 1 - 1 = i
    OBVIOUS
  <2> HIDE DEF u
  <2> QED BY <2>1, <2>2
<1>3. v \in Seq(S) /\ Len(v) = 1 /\ v[1] = s[i]
  BY <1>1
<1>4. \A j \in 1..1 : u[j] = v[j]
  BY <1>2, <1>3
<1> HIDE DEF u, v
<1>5. u = v
  BY <1>2, <1>3, <1>4, SeqEqual
<1> QED BY <1>5 DEF u, v

\* A text of one token.
LEMMA OneToken == \A x : Len(<<x>>) = 1 /\ <<x>>[1] = x
OBVIOUS

\* A text between an opening and a token that closes it.
LEMMA Bracketed ==
    ASSUME NEW S, NEW a \in Seq(S), NEW s \in Seq(S), NEW z \in S
    PROVE  LET t == a \o s \o <<z>> IN
           /\ t \in Seq(S) /\ Len(t) = Len(a) + Len(s) + 1 /\ t[Len(a) + Len(s) + 1] = z
           /\ \A j \in 1..Len(a) : t[j] = a[j]
           /\ \A j \in 1..Len(s) : t[Len(a) + j] = s[j]
<1> DEFINE b == a \o s
           c == <<z>>
           t == b \o c
<1>1. /\ b \in Seq(S) /\ Len(b) = Len(a) + Len(s) /\ Len(a) \in Nat /\ Len(s) \in Nat
      /\ \A j \in 1..Len(a) : b[j] = a[j]
      /\ \A j \in 1..Len(s) : b[Len(a) + j] = s[j]
  OBVIOUS
<1>5. c \in Seq(S) /\ Len(c) = 1 /\ c[1] = z
  OBVIOUS
<1> HIDE DEF b, c
<1>2. /\ t \in Seq(S) /\ Len(t) = Len(b) + 1 /\ t[Len(b) + 1] = z
      /\ \A j \in 1..Len(b) : t[j] = b[j]
  <2>1. /\ t \in Seq(S) /\ Len(t) = Len(b) + Len(c)
        /\ \A j \in 1..Len(b) : t[j] = b[j]
        /\ \A j \in 1..Len(c) : t[Len(b) + j] = c[j]
    <3>1. b \in Seq(S) /\ c \in Seq(S)
      BY <1>1, <1>5
    <3> QED BY <3>1, TwoJoined
  <2> HIDE DEF t
  <2> QED BY <1>5, <2>1
<1> HIDE DEF t
<1>3. \A j \in 1..Len(a) : t[j] = a[j]
  BY <1>1, <1>2
<1>4. \A j \in 1..Len(s) : t[Len(a) + j] = s[j]
  <2> SUFFICES ASSUME NEW j \in 1..Len(s) PROVE t[Len(a) + j] = s[j]
    OBVIOUS
  <2>1. Len(a) + j \in 1..Len(b)
    BY <1>1
  <2> QED BY <1>1, <1>2, <2>1
<1> QED BY <1>1, <1>2, <1>3, <1>4 DEF t, b, c

\* A list that grows by what it is so far.
Grows(f, n, V, g) ==
    /\ f = [i \in 0..n |-> IF i = 0 THEN <<>> ELSE Append(f[i - 1], g[i])]
    /\ \A i \in 1..n : f[i - 1] \in Seq(V) /\ Len(f[i - 1]) = i - 1 => g[i] \in V

\* Such a list holds what was appended.
LEMMA ListGrows ==
    ASSUME NEW n \in Nat, NEW V, NEW f, NEW g, Grows(f, n, V, g)
    PROVE  \A i \in 0..n : f[i] \in Seq(V) /\ Len(f[i]) = i /\ \A j \in 1..i : f[i][j] = g[j]
<1> DEFINE Good(i) == f[i] \in Seq(V) /\ Len(f[i]) = i /\ \A j \in 1..i : f[i][j] = g[j]
           bad == {i \in 0..n : ~Good(i)}
<1>1. f[0] = <<>> /\ \A i \in 1..n : f[i] = Append(f[i - 1], g[i])
  <2>1. 0 \in 0..n /\ \A i \in 1..n : i \in 0..n /\ i # 0
    OBVIOUS
  <2> QED BY <2>1 DEF Grows
<1>2. Good(0)
  BY <1>1
<1>3. ASSUME NEW i \in 1..n, i - 1 \notin bad PROVE i \notin bad
  <2>1. i - 1 \in 0..n
    OBVIOUS
  <2>2. Good(i - 1)
    BY <1>3, <2>1
  <2> DEFINE s == f[i - 1]
  <2>3. s \in Seq(V) /\ Len(s) = i - 1 /\ (\A j \in 1..i - 1 : s[j] = g[j]) /\ g[i] \in V
    BY <2>2 DEF Grows
  <2>4. f[i] = Append(s, g[i])
    BY <1>1
  <2> HIDE DEF s
  <2>5. f[i] \in Seq(V) /\ Len(f[i]) = i /\ f[i][i] = g[i] /\ \A j \in 1..i - 1 : f[i][j] = s[j]
    <3>1. /\ Append(s, g[i]) \in Seq(V) /\ Len(Append(s, g[i])) = Len(s) + 1
          /\ \A j \in 1..Len(s) : Append(s, g[i])[j] = s[j]
          /\ Append(s, g[i])[Len(s) + 1] = g[i]
      BY <2>3, AppendProperties
    <3>2. (i - 1) + 1 = i
      OBVIOUS
    <3> QED BY <2>3, <2>4, <3>1, <3>2
  <2>6. \A j \in 1..i : f[i][j] = g[j]
    <3>1. \A j \in 1..i : j = i \/ j \in 1..i - 1
      OBVIOUS
    <3> QED BY <2>3, <2>5, <3>1
  <2> QED BY <2>5, <2>6
<1>4. bad \in SUBSET (0..n) /\ 0 \notin bad
  BY <1>2
<1> HIDE DEF Good
<1>5. bad = {}
  <2> HIDE DEF bad
  <2> QED BY <1>3, <1>4, FirstBad
<1>6. \A i \in 0..n : Good(i)
  BY <1>5
<1> QED BY <1>6 DEF Good

\* What is listed in ascending order is the ascending list.
LEMMA AscendingIs ==
    ASSUME NEW S \in SUBSET Int, IsFiniteSet(S), NEW m \in Nat \ {0}, NEW f \in [1..m -> S],
           \A p, q \in 1..m : p < q => f[p] < f[q], \A x \in S : \E p \in 1..m : f[p] = x
    PROVE  Cardinality(S) = m /\ Len(Ascending(S)) = m /\ \A p \in 1..m : Ascending(S)[p] = f[p]
<1> DEFINE n == Cardinality(S)
           a == Ascending(S)
<1>1. /\ n \in Nat /\ a \in [1..n -> S] /\ Len(a) = n
      /\ \A p, q \in 1..n : p < q => a[p] < a[q]
      /\ \A x \in S : \E p \in 1..n : a[p] = x
  <2>1. n \in Nat
    BY FS_CardinalityType
  <2>2. /\ a \in [1..n -> S] /\ \A p, q \in 1..n : p < q => a[p] < a[q]
        /\ \A k \in S : LET p == Cardinality({x \in S : x < k}) + 1 IN p \in 1..n /\ a[p] = k
    BY AscendingLists
  <2> HIDE DEF n, a
  <2>3. a \in Seq(S) /\ Len(a) = n
    BY <2>1, <2>2
  <2> QED BY <2>1, <2>2, <2>3
<1> HIDE DEF n, a
<1>2. (\A p \in 1..m : f[p] \in Int) /\ (\A p \in 1..n : a[p] \in Int)
  BY <1>1
<1> DEFINE bad == {p \in 0..m : p # 0 /\ ~(p \in 1..n /\ a[p] = f[p])}
<1>3. ASSUME NEW p \in 1..m, p - 1 \notin bad PROVE p \notin bad
  <2>1. p - 1 = 0 \/ (p - 1 \in 1..n /\ p - 1 \in 1..m /\ a[p - 1] = f[p - 1])
    <3>1. p - 1 \in 0..m
      OBVIOUS
    <3> QED BY <1>3, <3>1
  <2>2. PICK q \in 1..n : a[q] = f[p]
    BY <1>1
  <2>3. q >= p
    <3> SUFFICES ASSUME q <= p - 1 PROVE FALSE
      BY <1>1
    <3>1. p - 1 \in 1..n /\ p - 1 \in 1..m /\ a[p - 1] = f[p - 1]
      BY <2>1
    <3>2. a[q] <= a[p - 1]
      <4>1. CASE q = p - 1
        BY <1>2, <2>2, <4>1
      <4>2. CASE q # p - 1
        <5>1. q < p - 1
          BY <1>1, <4>2
        <5>2. a[q] < a[p - 1] /\ a[q] \in Int /\ a[p - 1] \in Int
          BY <1>1, <1>2, <3>1, <5>1
        <5> QED BY <5>2
      <4> QED BY <4>1, <4>2
    <3>3. f[p - 1] < f[p]
      BY <3>1
    <3> QED BY <1>2, <2>2, <3>1, <3>2, <3>3
  <2>4. p \in 1..n
    BY <1>1, <2>3
  <2>5. ASSUME q # p PROVE FALSE
    <3>1. a[p] < a[q]
      BY <1>1, <2>3, <2>4, <2>5
    <3>2. PICK r \in 1..m : f[r] = a[p]
      BY <1>1, <2>4
    <3>3. r < p
      <4> SUFFICES ASSUME r >= p PROVE FALSE
        OBVIOUS
      <4>1. f[p] <= f[r]
        BY <1>2
      <4> QED BY <1>2, <2>2, <2>4, <3>1, <3>2, <4>1
    <3>4. p - 1 \in 1..n /\ p - 1 \in 1..m /\ a[p - 1] = f[p - 1]
      BY <2>1, <3>3
    <3>5. f[r] <= f[p - 1]
      BY <1>2, <3>3, <3>4
    <3>6. a[p - 1] < a[p]
      BY <1>1, <2>4, <3>4
    <3> QED BY <1>2, <2>4, <3>2, <3>4, <3>5, <3>6
  <2> QED BY <2>2, <2>4, <2>5
<1>4. bad = {}
  <2>1. bad \in SUBSET (0..m) /\ 0 \notin bad
    OBVIOUS
  <2> HIDE DEF bad
  <2> QED BY <1>3, <2>1, FirstBad
<1>5. ASSUME NEW p \in 1..m PROVE p \in 1..n /\ a[p] = f[p]
  <2>1. p \in 0..m /\ p # 0
    OBVIOUS
  <2> QED BY <1>4, <2>1
<1>6. n = m
  <2>1. m \in 1..n /\ a[m] = f[m]
    BY <1>5
  <2>2. ASSUME m < n PROVE FALSE
    <3>1. m + 1 \in 1..n /\ a[m] < a[m + 1]
      BY <1>1, <2>1, <2>2
    <3>2. PICK r \in 1..m : f[r] = a[m + 1]
      BY <1>1, <3>1
    <3>3. f[r] <= f[m]
      BY <1>2
    <3> QED BY <1>2, <2>1, <3>1, <3>2, <3>3
  <2> QED BY <1>1, <2>1, <2>2
<1> QED BY <1>1, <1>5, <1>6 DEF n, a

\* Where the tokens of a text begin: s is in t, from p on.
Spells(t, p, s) ==
    /\ p \in Nat \ {0} /\ p + Len(s) <= Len(t) + 1
    /\ \A j \in 1..Len(s) : t[p + j - 1] = s[j]

\* What is spelled within what is spelled is spelled.
LEMMA SpelledWithin ==
    ASSUME NEW S, NEW text \in Seq(S), NEW s \in Seq(S), NEW u \in Seq(S), NEW p, NEW q,
           Spells(text, p, s), Spells(s, q, u)
    PROVE  Spells(text, p + q - 1, u)
<1> DEFINE l == Len(text)
           n == Len(s)
           m == Len(u)
<1>1. l \in Nat /\ n \in Nat /\ m \in Nat
  OBVIOUS
<1>2. p \in Nat \ {0} /\ p + n <= l + 1 /\ \A j \in 1..n : text[p + j - 1] = s[j]
  BY DEF Spells
<1>3. q \in Nat \ {0} /\ q + m <= n + 1 /\ \A j \in 1..m : s[q + j - 1] = u[j]
  BY DEF Spells
<1> HIDE DEF l, n, m
<1>4. p + q - 1 \in Nat \ {0} /\ (p + q - 1) + m <= l + 1
  BY <1>1, <1>2, <1>3
<1>5. ASSUME NEW j \in 1..m PROVE text[(p + q - 1) + j - 1] = u[j]
  <2>1. q + j - 1 \in 1..n /\ p + (q + j - 1) - 1 = (p + q - 1) + j - 1
    BY <1>1, <1>2, <1>3
  <2>2. text[p + (q + j - 1) - 1] = s[q + j - 1]
    BY <1>2, <2>1
  <2> QED BY <1>3, <2>1, <2>2
<1> QED BY <1>4, <1>5 DEF Spells, l, n, m

\* Where the sequences stand that FlattenSeq puts together.
LEMMA FlatPlaces ==
    ASSUME NEW S, NEW ss \in Seq(Seq(S))
    PROVE  /\ FlattenSeq(ss) \in Seq(S)
           /\ \E at \in [1..Len(ss) + 1 -> Nat \ {0}] :
                /\ at[1] = 1 /\ Len(FlattenSeq(ss)) = at[Len(ss) + 1] - 1
                /\ \A k \in 1..Len(ss) :
                     /\ at[k + 1] = at[k] + Len(ss[k])
                     /\ Spells(FlattenSeq(ss), at[k], ss[k])
<1> DEFINE n == Len(ss)
           flat == FlattenSeq(ss)
<1>1. PICK h \in [0..n -> Seq(S)] :
         h[0] = <<>> /\ h[n] = flat /\ \A i \in 1..n : h[i] = h[i - 1] \o ss[i]
  <2>1. FlatsTo(S, ss, FlattenSeq(ss))
    BY FlatTrace
  <2> QED BY <2>1 DEF FlatsTo
<1>2. n \in Nat /\ \A i \in 1..n : ss[i] \in Seq(S)
  OBVIOUS
<1> HIDE DEF n, flat
<1>3. ASSUME NEW i \in 1..n
      PROVE  /\ i - 1 \in 0..n /\ i \in 0..n /\ h[i] \in Seq(S) /\ h[i - 1] \in Seq(S)
             /\ Len(h[i]) \in Nat /\ Len(h[i - 1]) \in Nat /\ Len(ss[i]) \in Nat
             /\ Len(h[i]) = Len(h[i - 1]) + Len(ss[i])
             /\ \A x \in 1..Len(h[i - 1]) : h[i][x] = h[i - 1][x]
             /\ \A j \in 1..Len(ss[i]) : h[i][Len(h[i - 1]) + j] = ss[i][j]
  <2>1. i - 1 \in 0..n /\ i \in 0..n /\ h[i] = h[i - 1] \o ss[i]
    <3>1. i - 1 \in 0..n /\ i \in 0..n
      BY <1>2
    <3> QED BY <1>1, <3>1
  <2>2. h[i] \in Seq(S) /\ h[i - 1] \in Seq(S) /\ ss[i] \in Seq(S)
    BY <1>1, <1>2, <2>1
  <2> DEFINE a == h[i - 1]
             b == ss[i]
  <2>3. a \in Seq(S) /\ b \in Seq(S) /\ h[i] = a \o b
    BY <2>1, <2>2
  <2> HIDE DEF a, b
  <2>4. /\ Len(h[i]) = Len(a) + Len(b) /\ \A x \in 1..Len(a) : h[i][x] = a[x]
        /\ \A j \in 1..Len(b) : h[i][Len(a) + j] = b[j]
    BY <2>3
  <2>5. /\ Len(h[i]) = Len(h[i - 1]) + Len(ss[i])
        /\ \A x \in 1..Len(h[i - 1]) : h[i][x] = h[i - 1][x]
        /\ \A j \in 1..Len(ss[i]) : h[i][Len(h[i - 1]) + j] = ss[i][j]
    BY <2>4 DEF a, b
  <2>6. Len(h[i]) \in Nat /\ Len(h[i - 1]) \in Nat /\ Len(ss[i]) \in Nat
    BY <2>2
  <2> QED BY <2>1, <2>2, <2>5, <2>6
<1>4. ASSUME NEW k \in 0..n
      PROVE  \A i \in 0..n : k <= i => /\ Len(h[k]) <= Len(h[i])
                                       /\ \A x \in 1..Len(h[k]) : h[i][x] = h[k][x]
  <2> DEFINE bad == {i \in 0..n : k <= i /\ ~(/\ Len(h[k]) <= Len(h[i])
                                              /\ \A x \in 1..Len(h[k]) : h[i][x] = h[k][x])}
  <2>1. h[k] \in Seq(S) /\ Len(h[k]) \in Nat
    BY <1>1
  <2>2. 0 \notin bad
    <3>1. 0 \in 0..n /\ (k <= 0 => k = 0)
      BY <1>2
    <3> QED BY <2>1, <3>1
  <2>3. ASSUME NEW i \in 1..n, i - 1 \notin bad PROVE i \notin bad
    <3>1. CASE i <= k
      <4>1. k <= i => i = k
        BY <3>1, <1>2
      <4> QED BY <1>2, <2>1, <4>1
    <3>2. CASE k < i
      <4>1. k <= i - 1 /\ i - 1 \in 0..n
        BY <1>2, <3>2
      <4>2. Len(h[k]) <= Len(h[i - 1]) /\ \A x \in 1..Len(h[k]) : h[i - 1][x] = h[k][x]
        BY <2>3, <4>1
      <4>3. /\ Len(h[i]) = Len(h[i - 1]) + Len(ss[i])
            /\ \A x \in 1..Len(h[i - 1]) : h[i][x] = h[i - 1][x]
            /\ Len(h[i - 1]) \in Nat /\ Len(ss[i]) \in Nat /\ Len(h[i]) \in Nat
        BY <1>3
      <4>4. Len(h[k]) <= Len(h[i])
        <5>1. Len(h[k]) <= Len(h[i - 1])
          BY <4>2
        <5>2. Len(h[i]) = Len(h[i - 1]) + Len(ss[i])
          BY <4>3
        <5> DEFINE x == Len(h[k])
                   y == Len(h[i - 1])
                   z == Len(ss[i])
        <5>3. x \in Nat /\ y \in Nat /\ z \in Nat /\ x <= y /\ Len(h[i]) = y + z
          BY <2>1, <4>3, <5>1, <5>2
        <5> HIDE DEF x, y, z
        <5>4. x <= Len(h[i])
          BY <5>3
        <5> QED BY <5>4 DEF x
      <4>5. \A x \in 1..Len(h[k]) : h[i][x] = h[k][x]
        BY <2>1, <4>2, <4>3
      <4> QED BY <4>4, <4>5
    <3> QED BY <1>2, <3>1, <3>2
  <2>4. bad \in SUBSET (0..n)
    OBVIOUS
  <2> HIDE DEF bad
  <2>5. bad = {}
    BY <1>2, <2>2, <2>3, <2>4, FirstBad
  <2> QED BY <2>5 DEF bad
<1> DEFINE at == [k \in 1..n + 1 |-> Len(h[k - 1]) + 1]
<1>5. n \in 0..n /\ flat \in Seq(S) /\ h[n] = flat
  BY <1>1, <1>2
<1>6. at \in [1..n + 1 -> Nat \ {0}]
  <2> SUFFICES ASSUME NEW k \in 1..n + 1 PROVE Len(h[k - 1]) + 1 \in Nat \ {0}
    OBVIOUS
  <2>1. k - 1 \in 0..n
    BY <1>2
  <2> QED BY <1>1, <2>1
<1>7. at[1] = 1 /\ Len(flat) = at[n + 1] - 1
  <2>1. at[1] = Len(h[1 - 1]) + 1 /\ at[n + 1] = Len(h[(n + 1) - 1]) + 1
    BY <1>2
  <2>2. 1 - 1 = 0 /\ (n + 1) - 1 = n
    BY <1>2
  <2>3. Len(flat) \in Nat /\ Len(<<>>) = 0
    BY <1>5
  <2> HIDE DEF at
  <2> QED BY <1>1, <1>5, <2>1, <2>2, <2>3
<1>8. ASSUME NEW k \in 1..n
      PROVE  at[k + 1] = at[k] + Len(ss[k]) /\ Spells(flat, at[k], ss[k])
  <2>1. at[k] = Len(h[k - 1]) + 1 /\ at[k + 1] = Len(h[k]) + 1
    <3>1. k \in 1..n + 1 /\ k + 1 \in 1..n + 1 /\ (k + 1) - 1 = k
      BY <1>2
    <3> QED BY <3>1
  <2> HIDE DEF at
  <2>2. /\ k - 1 \in 0..n /\ k \in 0..n /\ Len(h[k]) = Len(h[k - 1]) + Len(ss[k])
        /\ \A j \in 1..Len(ss[k]) : h[k][Len(h[k - 1]) + j] = ss[k][j]
        /\ Len(h[k - 1]) \in Nat /\ Len(ss[k]) \in Nat /\ Len(h[k]) \in Nat
    BY <1>3
  <2>3. Len(h[k]) <= Len(flat) /\ \A x \in 1..Len(h[k]) : flat[x] = h[k][x]
    <3>1. k <= n
      BY <1>2
    <3> QED BY <1>4, <1>5, <2>2, <3>1
  <2>4. Len(flat) \in Nat
    BY <1>5
  <2> DEFINE x == Len(h[k - 1])
             y == Len(ss[k])
             z == Len(flat)
  <2>7. /\ x \in Nat /\ y \in Nat /\ z \in Nat /\ Len(h[k]) = x + y /\ x + y <= z
        /\ at[k] = x + 1 /\ at[k + 1] = (x + y) + 1
    BY <2>1, <2>2, <2>3, <2>4
  <2>5. at[k] \in Nat \ {0} /\ at[k] + y <= z + 1 /\ at[k + 1] = at[k] + y
    <3> HIDE DEF x, y, z
    <3> QED BY <2>7
  <2>6. ASSUME NEW j \in 1..Len(ss[k]) PROVE flat[at[k] + j - 1] = ss[k][j]
    <3>1. at[k] + j - 1 = x + j /\ x + j \in 1..Len(h[k])
      <4>1. j \in 1..y
        OBVIOUS
      <4> HIDE DEF x, y, z
      <4> QED BY <2>7, <4>1
    <3>2. h[k][Len(h[k - 1]) + j] = ss[k][j]
      BY <2>2
    <3>3. flat[Len(h[k - 1]) + j] = h[k][Len(h[k - 1]) + j]
      BY <2>3, <3>1
    <3> QED BY <3>1, <3>2, <3>3
  <2> QED BY <2>5, <2>6 DEF Spells
<1> HIDE DEF at
<1>9. \E a \in [1..n + 1 -> Nat \ {0}] :
         /\ a[1] = 1 /\ Len(flat) = a[n + 1] - 1
         /\ \A k \in 1..n : a[k + 1] = a[k] + Len(ss[k]) /\ Spells(flat, a[k], ss[k])
  BY <1>6, <1>7, <1>8
<1> QED BY <1>5, <1>9 DEF n, flat

\* Texts of one token put together.
LEMMA OnesJoined ==
    ASSUME NEW S, NEW ss \in Seq(Seq(S)), \A k \in 1..Len(ss) : Len(ss[k]) = 1
    PROVE  FlattenSeq(ss) = [k \in 1..Len(ss) |-> ss[k][1]]
<1> DEFINE r == FlattenSeq(ss)
           n == Len(ss)
<1>1. n \in Nat
  OBVIOUS
<1>2. r \in Seq(S)
  BY FlatPlaces
<1>3. PICK at \in [1..n + 1 -> Nat \ {0}] :
        /\ at[1] = 1 /\ Len(r) = at[n + 1] - 1
        /\ \A k \in 1..n : at[k + 1] = at[k] + Len(ss[k]) /\ Spells(r, at[k], ss[k])
  BY FlatPlaces
<1>4. \A k \in 1..n : Len(ss[k]) = 1
  OBVIOUS
<1> HIDE DEF r, n
<1> DEFINE bad == {k \in 0..n : at[k + 1] # k + 1}
<1>5. bad = {}
  <2>1. 0 \notin bad
    BY <1>3
  <2>2. ASSUME NEW k \in 1..n, k - 1 \notin bad PROVE k \notin bad
    <3>1. k - 1 \in 0..n /\ (k - 1) + 1 = k
      BY <1>1
    <3>2. at[k] = k
      BY <2>2, <3>1
    <3>3. at[k + 1] = at[k] + 1
      BY <1>3, <1>4
    <3> QED BY <3>2, <3>3
  <2>3. bad \in SUBSET (0..n)
    OBVIOUS
  <2> HIDE DEF bad
  <2> QED BY <1>1, <2>1, <2>2, <2>3, FirstBad
<1>6. \A k \in 1..n : at[k] = k
  <2> TAKE k \in 1..n
  <2>1. k - 1 \in 0..n /\ (k - 1) + 1 = k
    BY <1>1
  <2> QED BY <1>5, <2>1
<1>7. Len(r) = n
  <2>1. n \in 0..n
    BY <1>1
  <2>2. at[n + 1] = n + 1
    BY <1>5, <2>1
  <2> QED BY <1>1, <1>3, <2>2
<1>8. \A k \in 1..n : r[k] = ss[k][1]
  <2> TAKE k \in 1..n
  <2>1. Spells(r, k, ss[k]) /\ Len(ss[k]) = 1
    BY <1>3, <1>4, <1>6
  <2>2. 1 \in 1..1 /\ k + 1 - 1 = k
    BY <1>1
  <2> QED BY <2>1, <2>2 DEF Spells
<1>9. r = [k \in 1..n |-> ss[k][1]]
  <2>1. r = [k \in 1..Len(r) |-> r[k]]
    BY <1>2
  <2> QED BY <1>7, <1>8, <2>1
<1> QED BY <1>9 DEF r, n

\* Where the parts of a text stand that separators are put between: at[k], and
\* the next after them at at[k + 1] - 1.
PartsAt(at, parts, separator, text) ==
    /\ at \in [1..Len(parts) + 1 -> Nat \ {0}] /\ at[1] = 1 /\ Len(text) = at[Len(parts) + 1] - 2
    /\ \A k \in 1..Len(parts) :
         at[k + 1] = at[k] + Len(parts[k]) + 1 /\ Spells(text, at[k], parts[k])
    /\ \A k \in 1..Len(parts) - 1 : text[at[k + 1] - 1] = separator

\* The parts of a text, all but the first after a separator.
WithSeparators(parts, separator) ==
    [k \in DOMAIN parts |-> IF k = 1 THEN parts[k] ELSE <<separator>> \o parts[k]]

\* Where the parts stand when separators are put between them.
LEMMA SeparatedAre ==
    ASSUME NEW S, NEW parts \in Seq(Seq(S)) \ {<<>>}, NEW separator \in S
    PROVE  /\ FlattenSeq(WithSeparators(parts, separator)) \in Seq(S)
           /\ \E at : PartsAt(at, parts, separator, FlattenSeq(WithSeparators(parts, separator)))
<1> DEFINE ss == [k \in DOMAIN parts |-> IF k = 1 THEN parts[k] ELSE <<separator>> \o parts[k]]
           n == Len(parts)
           text == FlattenSeq(WithSeparators(parts, separator))
<1>1. n \in Nat \ {0} /\ DOMAIN parts = 1..n /\ \A k \in 1..n : parts[k] \in Seq(S)
  OBVIOUS
<1>2. text = FlattenSeq(ss)
  BY DEF WithSeparators
<1>3. ASSUME NEW k \in 1..n
      PROVE  ss[k] = (IF k = 1 THEN parts[k] ELSE <<separator>> \o parts[k]) /\ ss[k] \in Seq(S)
  BY <1>1
<1>4. ss \in Seq(Seq(S)) /\ Len(ss) = n
  <2>1. DOMAIN ss = 1..n
    BY <1>1
  <2>2. ss = [k \in 1..n |-> ss[k]]
    BY <1>1
  <2> HIDE DEF ss
  <2> QED BY <1>1, <1>3, <2>1, <2>2
<1> HIDE DEF ss, n, text
<1>5. PICK a \in [1..n + 1 -> Nat \ {0}] :
         /\ a[1] = 1 /\ Len(text) = a[n + 1] - 1
         /\ \A k \in 1..n : a[k + 1] = a[k] + Len(ss[k]) /\ Spells(text, a[k], ss[k])
  BY <1>2, <1>4, FlatPlaces
<1>6. text \in Seq(S)
  BY <1>2, <1>4, FlatPlaces
<1> DEFINE at == [k \in 1..n + 1 |-> IF k = 1 THEN 1 ELSE a[k] + 1]
<1>7. /\ at \in [1..n + 1 -> Nat \ {0}] /\ at[1] = 1 /\ \A k \in 2..n + 1 : at[k] = a[k] + 1
  <2>1. \A k \in 1..n + 1 : a[k] \in Nat \ {0}
    BY <1>5
  <2>2. \A k \in 1..n + 1 : at[k] = (IF k = 1 THEN 1 ELSE a[k] + 1) /\ at[k] \in Nat \ {0}
    BY <2>1
  <2>3. at \in [1..n + 1 -> Nat \ {0}]
    BY <2>2
  <2>4. 1 \in 1..n + 1 /\ \A k \in 2..n + 1 : k \in 1..n + 1 /\ k # 1
    BY <1>1
  <2> HIDE DEF at
  <2> QED BY <2>2, <2>3, <2>4
<1> HIDE DEF at
<1>8. Len(text) = at[n + 1] - 2
  <2>1. n + 1 \in 1..n + 1 /\ n + 1 \in 2..n + 1
    BY <1>1
  <2>2. a[n + 1] \in Nat /\ at[n + 1] = a[n + 1] + 1
    BY <1>5, <1>7, <2>1
  <2> QED BY <1>5, <2>2
<1>9. ASSUME NEW k \in 1..n
      PROVE  /\ at[k + 1] = at[k] + Len(parts[k]) + 1 /\ Spells(text, at[k], parts[k])
             /\ k # 1 => text[at[k] - 1] = separator
  <2>1. k + 1 \in 2..n + 1 /\ k \in 1..n + 1 /\ a[k] \in Nat \ {0} /\ a[k + 1] \in Nat \ {0}
    BY <1>1, <1>5
  <2>2. at[k + 1] = a[k + 1] + 1 /\ a[k + 1] = a[k] + Len(ss[k])
    BY <1>5, <1>7, <2>1
  <2>3. Len(parts[k]) \in Nat /\ parts[k] \in Seq(S)
    BY <1>1
  <2>4. Spells(text, a[k], ss[k])
    BY <1>5
  <2>5. CASE k = 1
    BY <1>3, <1>5, <1>7, <2>1, <2>2, <2>3, <2>4, <2>5
  <2>6. CASE k # 1
    <3>1. k \in 2..n + 1 /\ at[k] = a[k] + 1
      BY <1>1, <1>7, <2>6
    <3> DEFINE part == parts[k]
               longer == ss[k]
    <3>2. longer = <<separator>> \o part /\ part \in Seq(S)
      BY <1>3, <2>3, <2>6
    <3> HIDE DEF part, longer
    <3>3. /\ Len(longer) = Len(part) + 1 /\ longer[1] = separator
          /\ \A j \in 1..Len(part) : longer[j + 1] = part[j]
      BY <3>2
    <3>4. /\ a[k] \in Nat \ {0} /\ a[k] + Len(longer) <= Len(text) + 1
          /\ \A j \in 1..Len(longer) : text[a[k] + j - 1] = longer[j]
      BY <2>4 DEF Spells, longer
    <3>5. Len(part) \in Nat /\ Len(text) \in Nat
      BY <1>6, <3>2
    <3>6. at[k + 1] = at[k] + Len(part) + 1
      BY <2>1, <2>2, <3>1, <3>3, <3>5 DEF longer
    <3>7. at[k] \in Nat \ {0} /\ at[k] + Len(part) <= Len(text) + 1
      BY <3>1, <3>3, <3>4, <3>5
    <3>8. ASSUME NEW j \in 1..Len(part) PROVE text[at[k] + j - 1] = part[j]
      <4>1. j + 1 \in 1..Len(longer) /\ a[k] + (j + 1) - 1 = at[k] + j - 1
        BY <2>1, <3>1, <3>3, <3>5
      <4> QED BY <3>3, <3>4, <4>1
    <3>9. text[at[k] - 1] = separator
      <4>1. 1 \in 1..Len(longer)
        BY <3>3, <3>5
      <4>2. a[k] + 1 - 1 = at[k] - 1
        BY <2>1, <3>1
      <4>3. text[a[k] + 1 - 1] = longer[1]
        BY <3>4, <4>1
      <4> QED BY <3>3, <4>2, <4>3
    <3>10. Spells(text, at[k], part)
      BY <3>7, <3>8 DEF Spells
    <3> QED BY <3>6, <3>9, <3>10 DEF part
  <2> QED BY <2>5, <2>6
<1>10. ASSUME NEW k \in 1..n - 1 PROVE text[at[k + 1] - 1] = separator
  <2>1. k + 1 \in 1..n /\ k + 1 # 1
    BY <1>1
  <2> QED BY <1>9, <2>1
<1>11. PartsAt(at, parts, separator, text)
  BY <1>7, <1>8, <1>9, <1>10 DEF PartsAt, n
<1> QED BY <1>6, <1>11 DEF text

\* The same where every part is one token.
OnesBetween(text, items, separator, S) ==
    /\ text \in Seq(S \cup {separator}) /\ Len(text) = 2 * Len(items) - 1
    /\ \A k \in 1..Len(items) : text[2 * k - 1] = items[k]
    /\ \A k \in 1..Len(items) - 1 : text[2 * k] = separator

LEMMA OnesSeparated ==
    ASSUME NEW S, NEW items \in Seq(S) \ {<<>>}, NEW separator, NEW text,
           text = FlattenSeq(WithSeparators([k \in DOMAIN items |-> <<items[k]>>], separator))
    PROVE  OnesBetween(text, items, separator, S)
<1> DEFINE n == Len(items)
           parts == [k \in DOMAIN items |-> <<items[k]>>]
<1>1. n \in Nat \ {0} /\ DOMAIN items = 1..n /\ \A k \in 1..n : items[k] \in S OBVIOUS
<1>2. text = FlattenSeq(WithSeparators(parts, separator)) OBVIOUS
<1>3. \A k \in 1..n : parts[k] = <<items[k]>> /\ parts[k] \in Seq(S \cup {separator}) BY <1>1
<1>4. parts \in Seq(Seq(S \cup {separator})) \ {<<>>} /\ Len(parts) = n
  <2>1. parts = [k \in 1..n |-> parts[k]] BY <1>1
  <2> HIDE DEF parts, n
  <2>2. parts \in Seq(Seq(S \cup {separator})) /\ Len(parts) = n BY <1>1, <1>3, <2>1
  <2> QED BY <1>1, <2>2
<1> HIDE DEF n, parts
<1>5. text \in Seq(S \cup {separator}) /\ \E at : PartsAt(at, parts, separator, text)
  <2> DEFINE U == S \cup {separator}
  <2>1. parts \in Seq(Seq(U)) \ {<<>>} /\ separator \in U
    BY <1>4
  <2> HIDE DEF U
  <2> QED BY <1>2, <2>1, SeparatedAre DEF U
<1>6. PICK at : PartsAt(at, parts, separator, text)
  BY <1>5
<1>7. /\ at \in [1..n + 1 -> Nat \ {0}] /\ at[1] = 1 /\ Len(text) = at[n + 1] - 2
      /\ \A k \in 1..n : at[k + 1] = at[k] + Len(parts[k]) + 1 /\ Spells(text, at[k], parts[k])
      /\ \A k \in 1..n - 1 : text[at[k + 1] - 1] = separator
  BY <1>4, <1>6 DEF PartsAt
<1>8. ASSUME NEW k \in 1..n PROVE at[k + 1] = at[k] + 2 /\ text[at[k]] = items[k]
  <2>0. parts[k] = <<items[k]>> BY <1>3
  <2>1. Len(parts[k]) = 1 /\ parts[k][1] = items[k] BY <2>0, Zenon, OneToken
  <2>2. at[k] \in Nat /\ at[k] + 1 - 1 = at[k] BY <1>1, <1>7
  <2>3. 1 \in 1..Len(parts[k]) /\ at[k + 1] = at[k] + Len(parts[k]) + 1
    <3>1. 1 \in 1..1 OBVIOUS
    <3> QED BY <1>7, <2>1, <3>1, Zenon
  <2>4. text[at[k] + 1 - 1] = parts[k][1] BY <1>7, <2>3 DEF Spells
  <2> QED BY <2>1, <2>2, <2>3, <2>4
<1> DEFINE bad == {k \in 0..n : at[k + 1] # 2 * k + 1}
<1>9. bad = {}
  <2>1. 0 \notin bad BY <1>7
  <2>2. ASSUME NEW k \in 1..n, k - 1 \notin bad PROVE k \notin bad
    <3>1. k - 1 \in 0..n /\ (k - 1) + 1 = k /\ at[k] \in Nat BY <1>1, <1>7
    <3>2. at[k] = 2 * (k - 1) + 1 BY <2>2, <3>1
    <3> QED BY <1>8, <3>1, <3>2
  <2>3. bad \in SUBSET (0..n) OBVIOUS
  <2> HIDE DEF bad
  <2> QED BY <1>1, <2>1, <2>2, <2>3, FirstBad
<1>10. \A k \in 0..n : at[k + 1] = 2 * k + 1 BY <1>9
<1> HIDE DEF bad
<1>11. Len(text) = 2 * n - 1
  <2>1. n \in 0..n /\ at[n + 1] = 2 * n + 1 BY <1>1, <1>10
  <2> QED BY <1>1, <1>7, <2>1
<1>12. ASSUME NEW k \in 1..n PROVE text[2 * k - 1] = items[k]
  <2>1. k - 1 \in 0..n /\ (k - 1) + 1 = k /\ 2 * (k - 1) + 1 = 2 * k - 1 BY <1>1
  <2>2. at[k] = 2 * k - 1 BY <1>10, <2>1
  <2> QED BY <1>8, <2>2
<1>13. ASSUME NEW k \in 1..n - 1 PROVE text[2 * k] = separator
  <2>1. k \in 0..n /\ (2 * k + 1) - 1 = 2 * k BY <1>1
  <2>2. at[k + 1] = 2 * k + 1 BY <1>10, <2>1
  <2> QED BY <1>7, <2>1, <2>2
<1> QED BY <1>5, <1>11, <1>12, <1>13 DEF n, OnesBetween

\* The operands of a connective that stands at p in a text.
Starts(at, p, k) == p + at[k] - 1

\* Parts that are texts.
Phrases(parts, n, S) == parts = [k \in 1..n |-> parts[k]] /\ \A k \in 1..n : parts[k] \in Seq(S)

\* A connective of one operand is its text, one of several is longer.
LEMMA FirstOperand ==
    ASSUME NEW S, NEW text \in Seq(S), NEW parts, NEW n \in Nat \ {0}, Phrases(parts, n, S),
           \A k \in 1..n : parts[k] # <<>>, NEW word, NEW at, PartsAt(at, parts, word, text)
    PROVE  /\ n = 1 => text = parts[1]
           /\ n # 1 => Len(text) >= Len(parts[1]) + 2
<1> DEFINE a == parts[1]
<1>1. Len(parts) = n /\ 1 \in 1..n /\ \A k \in 1..n : parts[k] \in Seq(S)
  BY DEF Phrases
<1>2. /\ at[1] = 1 /\ Len(text) = at[n + 1] - 2
      /\ \A k \in 1..n : at[k + 1] = at[k] + Len(parts[k]) + 1 /\ Spells(text, at[k], parts[k])
  BY <1>1 DEF PartsAt
<1>3. a \in Seq(S) /\ Len(a) \in Nat /\ at[2] = 1 + Len(a) + 1 /\ Spells(text, 1, a)
  BY <1>1, <1>2
<1>4. CASE n = 1
  <2>1. Len(text) = Len(a)
    <3> HIDE DEF a
    <3> QED BY <1>2, <1>3, <1>4
  <2>2. \A j \in 1..Len(a) : text[j] = a[j]
    <3> HIDE DEF a
    <3> QED BY <1>3 DEF Spells
  <2> HIDE DEF a
  <2>3. text = a
    BY <1>3, <2>1, <2>2
  <2> QED BY <1>4, <2>3 DEF a
<1>5. CASE n # 1
  <2> DEFINE b == parts[2]
  <2>1. 2 \in 1..n
    BY <1>5
  <2>2. Spells(text, at[2], b) /\ b \in Seq(S) /\ b # <<>>
    BY <1>1, <1>2, <2>1
  <2> HIDE DEF b, a
  <2>3. Len(b) \in Nat \ {0}
    BY <2>2
  <2>4. at[2] + Len(b) <= Len(text) + 1
    BY <2>2 DEF Spells
  <2>5. Len(text) >= Len(a) + 2
    BY <1>3, <2>3, <2>4
  <2> QED BY <1>5, <2>5 DEF a
<1> QED BY <1>4, <1>5

\* Every number is even or odd.
EvenOr(j) == (\E k \in Nat : j = 2 * k) \/ \E k \in Nat : j = 2 * k + 1

LEMMA EvenOrOdd == \A j \in Nat : EvenOr(j)
<1>1. EvenOr(0)
  BY DEF EvenOr
<1>2. ASSUME NEW j \in Nat, EvenOr(j) PROVE EvenOr(j + 1)
  <2>1. CASE \E k \in Nat : j = 2 * k
    BY <2>1 DEF EvenOr
  <2>2. CASE \E k \in Nat : j = 2 * k + 1
    <3>1. PICK k \in Nat : j = 2 * k + 1
      BY <2>2
    <3>2. j + 1 = 2 * (k + 1) /\ k + 1 \in Nat
      BY <3>1
    <3> QED BY <3>2 DEF EvenOr
  <2> QED BY <1>2, <2>1, <2>2 DEF EvenOr
<1>3. ASSUME NEW b \in Nat, ~EvenOr(b) PROVE FALSE
  <2> DEFINE bad == {j \in Nat : ~EvenOr(j)}
  <2>1. PICK j \in bad : \A i \in bad : j <= i
    BY <1>3, LeastNatural
  <2>2. j \in Nat /\ j # 0
    BY <1>1, <2>1
  <2>3. j - 1 \in Nat /\ j - 1 \notin bad
    BY <2>1, <2>2
  <2>4. EvenOr((j - 1) + 1)
    BY <1>2, <2>3
  <2> QED BY <2>1, <2>2, <2>4
<1> QED BY <1>3

\* A text with each token replaced by f of it.
Spelling(f, S, T) == f \in [S -> T]

\* A text with each token replaced.
Respelled(t, f) == [p \in DOMAIN t |-> f[t[p]]]

EachRespelled(ss, f) == [k \in DOMAIN ss |-> Respelled(ss[k], f)]

\* It keeps its length, and joins and separators go through it.
LEMMA RespelledIs ==
    ASSUME NEW S, NEW T, NEW f, Spelling(f, S, T), NEW t \in Seq(S)
    PROVE  /\ Respelled(t, f) \in Seq(T) /\ Len(Respelled(t, f)) = Len(t)
           /\ \A p \in 1..Len(t) : Respelled(t, f)[p] = f[t[p]]
<1>1. DOMAIN t = 1..Len(t) /\ \A p \in 1..Len(t) : t[p] \in S
  OBVIOUS
<1> QED BY <1>1 DEF Respelled, Spelling

\* A concatenation, the parts of a text and a text with separators are respelled part by part.
LEMMA RespelledJoins ==
    ASSUME NEW S, NEW T, NEW f, Spelling(f, S, T), NEW s \in Seq(S), NEW t \in Seq(S)
    PROVE  Respelled(s \o t, f) = Respelled(s, f) \o Respelled(t, f)
<1> DEFINE a == Respelled(s, f)
           b == Respelled(t, f)
           c == Respelled(s \o t, f)
<1>1. /\ s \o t \in Seq(S) /\ Len(s \o t) = Len(s) + Len(t)
      /\ \A j \in 1..Len(s) : (s \o t)[j] = s[j]
      /\ \A j \in 1..Len(t) : (s \o t)[Len(s) + j] = t[j]
  BY TwoJoined
<1>2. /\ a \in Seq(T) /\ Len(a) = Len(s) /\ \A p \in 1..Len(s) : a[p] = f[s[p]]
      /\ b \in Seq(T) /\ Len(b) = Len(t) /\ \A p \in 1..Len(t) : b[p] = f[t[p]]
  <2>1. s \in Seq(S) /\ t \in Seq(S)
    OBVIOUS
  <2> QED BY <2>1, RespelledIs
<1> DEFINE st == s \o t
<1> HIDE DEF st
<1>3. c \in Seq(T) /\ Len(c) = Len(st) /\ \A p \in 1..Len(st) : c[p] = f[st[p]]
  <2>1. Respelled(st, f) \in Seq(T) /\ Len(Respelled(st, f)) = Len(st)
        /\ \A p \in 1..Len(st) : Respelled(st, f)[p] = f[st[p]]
    <3>1. st \in Seq(S)
      BY <1>1 DEF st
    <3> QED BY <3>1, RespelledIs
  <2> QED BY <2>1 DEF st
<1> HIDE DEF a, b, c
<1>4. /\ a \o b \in Seq(T) /\ Len(a \o b) = Len(s) + Len(t)
      /\ \A j \in 1..Len(s) : (a \o b)[j] = a[j]
      /\ \A j \in 1..Len(t) : (a \o b)[Len(s) + j] = b[j]
  <2>1. a \in Seq(T) /\ b \in Seq(T) /\ Len(a) = Len(s) /\ Len(b) = Len(t)
    BY <1>2
  <2>2. /\ a \o b \in Seq(T) /\ Len(a \o b) = Len(a) + Len(b)
        /\ \A j \in 1..Len(a) : (a \o b)[j] = a[j]
        /\ \A j \in 1..Len(b) : (a \o b)[Len(a) + j] = b[j]
    <3>1. ASSUME NEW x \in Seq(T), NEW y \in Seq(T)
          PROVE  /\ x \o y \in Seq(T) /\ Len(x \o y) = Len(x) + Len(y)
                 /\ \A j \in 1..Len(x) : (x \o y)[j] = x[j]
                 /\ \A j \in 1..Len(y) : (x \o y)[Len(x) + j] = y[j]
      OBVIOUS
    <3> QED BY <2>1, <3>1, Zenon
  <2> QED BY <2>1, <2>2
<1> DEFINE m == Len(s)
           n == Len(t)
<1>5. m \in Nat /\ n \in Nat
  OBVIOUS
<1>6. Len(st) = m + n
  BY <1>1 DEF st
<1>7. ASSUME NEW p \in 1..m PROVE c[p] = (a \o b)[p]
  <2>1. p \in 1..Len(st) /\ st[p] = s[p]
    <3>1. st[p] = s[p]
      BY <1>1 DEF st
    <3> HIDE DEF m, n
    <3> QED BY <1>5, <1>6, <3>1
  <2>2. c[p] = f[s[p]]
    BY <1>3, <2>1
  <2>3. a[p] = f[s[p]] /\ (a \o b)[p] = a[p]
    BY <1>2, <1>4
  <2> QED BY <2>2, <2>3
<1>8. ASSUME NEW j \in 1..n PROVE c[m + j] = (a \o b)[m + j]
  <2>1. st[m + j] = t[j]
    BY <1>1 DEF st
  <2>2. m + j \in 1..Len(st)
    <3> HIDE DEF m, n
    <3> QED BY <1>5, <1>6
  <2>3. c[m + j] = f[t[j]]
    BY <1>3, <2>1, <2>2
  <2>4. b[j] = f[t[j]] /\ (a \o b)[m + j] = b[j]
    BY <1>2, <1>4
  <2> QED BY <2>3, <2>4
<1>9. Len(c) = m + n /\ Len(a \o b) = m + n
  BY <1>3, <1>4, <1>6
<1> HIDE DEF m, n
<1>10. \A p \in 1..m + n : p \in 1..m \/ p - m \in 1..n
  BY <1>5
<1>11. \A p \in 1..m + n : c[p] = (a \o b)[p]
  <2> TAKE p \in 1..m + n
  <2>1. CASE p \in 1..m
    BY <1>7, <2>1
  <2>2. CASE p - m \in 1..n
    <3>1. m + (p - m) = p
      BY <1>5
    <3> QED BY <1>8, <2>2, <3>1
  <2> QED BY <1>10, <2>1, <2>2
<1> DEFINE ab == a \o b
<1>12. c \in Seq(T) /\ ab \in Seq(T) /\ Len(c) = m + n /\ Len(ab) = m + n /\ \A p \in 1..m + n : c[p] = ab[p]
  BY <1>3, <1>4, <1>9, <1>11
<1> HIDE DEF ab
<1>13. c = ab
  BY <1>12
<1> QED BY <1>13 DEF a, b, c, ab, st

LEMMA EachRespelledIs ==
    ASSUME NEW S, NEW T, NEW f, Spelling(f, S, T), NEW ss \in Seq(Seq(S))
    PROVE  /\ EachRespelled(ss, f) \in Seq(Seq(T)) /\ Len(EachRespelled(ss, f)) = Len(ss)
           /\ \A k \in 1..Len(ss) : EachRespelled(ss, f)[k] = Respelled(ss[k], f)
<1>1. DOMAIN ss = 1..Len(ss) /\ \A k \in 1..Len(ss) : ss[k] \in Seq(S)
  OBVIOUS
<1>2. \A k \in 1..Len(ss) : Respelled(ss[k], f) \in Seq(T)
  BY <1>1, RespelledIs
<1> QED BY <1>1, <1>2 DEF EachRespelled

\* What is respelled and then put together is what is put together and respelled.
LEMMA FlatRespelled ==
    ASSUME NEW S, NEW T, NEW f, Spelling(f, S, T), NEW ss \in Seq(Seq(S))
    PROVE  FlattenSeq(EachRespelled(ss, f)) = Respelled(FlattenSeq(ss), f)
<1> DEFINE n == Len(ss)
           tt == EachRespelled(ss, f)
<1>1. /\ n \in Nat /\ \A i \in 1..n : ss[i] \in Seq(S)
      /\ tt \in Seq(Seq(T)) /\ Len(tt) = n /\ \A i \in 1..n : tt[i] = Respelled(ss[i], f)
  BY EachRespelledIs
<1>2. PICK g \in [0..n -> Seq(S)] :
          g[0] = <<>> /\ g[n] = FlattenSeq(ss) /\ \A i \in 1..n : g[i] = g[i - 1] \o ss[i]
  <2>1. FlatsTo(S, ss, FlattenSeq(ss))
    BY FlatTrace
  <2> QED BY <2>1 DEF FlatsTo
<1> HIDE DEF n, tt
<1>3. PICK h \in [0..n -> Seq(T)] :
          h[0] = <<>> /\ h[n] = FlattenSeq(tt) /\ \A i \in 1..n : h[i] = h[i - 1] \o tt[i]
  <2>1. FlatsTo(T, tt, FlattenSeq(tt))
    BY <1>1, FlatTrace
  <2> QED BY <1>1, <2>1 DEF FlatsTo
<1> DEFINE bad == {i \in 0..n : h[i] # Respelled(g[i], f)}
<1>4. bad = {}
  <2>1. 0 \notin bad
    <3>1. Respelled(<<>>, f) = <<>>
      BY DEF Respelled
    <3> QED BY <1>2, <1>3, <3>1
  <2>2. ASSUME NEW i \in 1..n, i - 1 \notin bad PROVE i \notin bad
    <3>1. i - 1 \in 0..n
      BY <1>1
    <3>2. h[i - 1] = Respelled(g[i - 1], f)
      BY <2>2, <3>1
    <3>3. g[i - 1] \in Seq(S) /\ ss[i] \in Seq(S)
      BY <1>1, <1>2, <3>1
    <3>4. Respelled(g[i - 1] \o ss[i], f) = Respelled(g[i - 1], f) \o Respelled(ss[i], f)
      <4> DEFINE x == g[i - 1]
                 y == ss[i]
      <4>1. x \in Seq(S) /\ y \in Seq(S)
        BY <3>3
      <4> HIDE DEF x, y
      <4>2. Respelled(x \o y, f) = Respelled(x, f) \o Respelled(y, f)
        BY <4>1, RespelledJoins
      <4> QED BY <4>2 DEF x, y
    <3> QED BY <1>1, <1>2, <1>3, <3>2, <3>4
  <2>3. bad \in SUBSET (0..n)
    OBVIOUS
  <2> HIDE DEF bad
  <2> QED BY <1>1, <2>1, <2>2, <2>3, FirstBad
<1>5. n \in 0..n
  BY <1>1
<1> QED BY <1>2, <1>3, <1>4, <1>5 DEF tt

LEMMA SeparatedRespell ==
    ASSUME NEW S, NEW T, NEW f, Spelling(f, S, T), NEW parts \in Seq(Seq(S)), NEW separator \in S
    PROVE  FlattenSeq(WithSeparators(EachRespelled(parts, f), f[separator])) = Respelled(FlattenSeq(WithSeparators(parts, separator)), f)
<1> DEFINE ss == [k \in DOMAIN parts |-> IF k = 1 THEN parts[k] ELSE <<separator>> \o parts[k]]
           qq == EachRespelled(parts, f)
           tt == [k \in DOMAIN qq |-> IF k = 1 THEN qq[k] ELSE <<f[separator]>> \o qq[k]]
           n == Len(parts)
<1>1. n \in Nat /\ DOMAIN parts = 1..n /\ \A k \in 1..n : parts[k] \in Seq(S)
  OBVIOUS
<1>2. FlattenSeq(WithSeparators(parts, separator)) = FlattenSeq(ss) /\ FlattenSeq(WithSeparators(qq, f[separator])) = FlattenSeq(tt)
  BY DEF WithSeparators
<1>3. /\ qq \in Seq(Seq(T)) /\ DOMAIN qq = 1..n
      /\ \A k \in 1..n : qq[k] = Respelled(parts[k], f)
  <2>1. qq \in Seq(Seq(T)) /\ Len(qq) = n /\ \A k \in 1..n : qq[k] = Respelled(parts[k], f)
    BY EachRespelledIs
  <2> HIDE DEF qq
  <2> QED BY <2>1
<1>4. ASSUME NEW k \in 1..n
      PROVE  ss[k] \in Seq(S) /\ tt[k] = Respelled(ss[k], f)
  <2>1. ss[k] = (IF k = 1 THEN parts[k] ELSE <<separator>> \o parts[k])
    BY <1>1
  <2>2. tt[k] = (IF k = 1 THEN qq[k] ELSE <<f[separator]>> \o qq[k])
    BY <1>3
  <2>3. parts[k] \in Seq(S) /\ qq[k] = Respelled(parts[k], f)
    BY <1>1, <1>3
  <2> HIDE DEF ss, tt, qq
  <2>4. <<separator>> \in Seq(S)
    OBVIOUS
  <2>5. Respelled(<<separator>>, f) = <<f[separator]>>
    BY DEF Respelled
  <2>6. Respelled(<<separator>> \o parts[k], f) = <<f[separator]>> \o qq[k]
    <3> DEFINE x == <<separator>>
               y == parts[k]
    <3>1. Respelled(x \o y, f) = Respelled(x, f) \o Respelled(y, f)
      <4>1. x \in Seq(S) /\ y \in Seq(S)
        BY <2>3, <2>4
      <4> HIDE DEF x, y
      <4> QED BY <4>1, RespelledJoins
    <3> QED BY <2>3, <2>5, <3>1
  <2>7. <<separator>> \o parts[k] \in Seq(S)
    BY <2>3, <2>4
  <2> QED BY <2>1, <2>2, <2>3, <2>6, <2>7
<1>5. ss \in Seq(Seq(S)) /\ DOMAIN ss = 1..n
  <2>1. DOMAIN ss = 1..n
    BY <1>1
  <2>2. ss = [k \in 1..n |-> ss[k]]
    BY <1>1
  <2>3. \A k \in 1..n : ss[k] \in Seq(S)
    BY <1>4
  <2> DEFINE V == Seq(S)
  <2>4. \A k \in 1..n : ss[k] \in V
    BY <2>3
  <2> HIDE DEF ss, n, V
  <2>5. ss \in Seq(V)
    <3>1. n \in Nat
      BY <1>1
    <3> QED BY <3>1, <2>1, <2>2, <2>4
  <2> QED BY <2>1, <2>5 DEF V
<1>6. tt = EachRespelled(ss, f)
  <2>1. DOMAIN tt = 1..n /\ tt = [k \in 1..n |-> tt[k]]
    BY <1>3
  <2> HIDE DEF tt, ss
  <2> QED BY <1>4, <1>5, <2>1 DEF EachRespelled
<1> HIDE DEF ss, tt
<1>7. FlattenSeq(EachRespelled(ss, f)) = Respelled(FlattenSeq(ss), f)
  BY <1>5, FlatRespelled
<1> QED BY <1>2, <1>6, <1>7

\* Short texts.
LEMMA FewRespelled ==
    ASSUME NEW f, NEW a, NEW b
    PROVE  /\ Respelled(<<a>>, f) = <<f[a]>> /\ Respelled(<<a, b>>, f) = <<f[a], f[b]>>
           /\ Respelled(<<>>, f) = <<>>
BY DEF Respelled

LEMMA ThreeRespelled ==
    ASSUME NEW f, NEW a, NEW b, NEW c
    PROVE  Respelled(<<a, b, c>>, f) = <<f[a], f[b], f[c]>>
BY DEF Respelled

LEMMA FiveRespelled ==
    ASSUME NEW f, NEW a, NEW b, NEW c, NEW d, NEW g
    PROVE  Respelled(<<a, b, c, d, g>>, f) = <<f[a], f[b], f[c], f[d], f[g]>>
BY DEF Respelled

=============================================================================
