--------------------------- MODULE SessionProofs ---------------------------
(***************************************************************************)
(* Theorems about Session: both scanners agree with Cut on every text, and *)
(* what follows for the statements that run, the exit status and the       *)
(* history.                                                                *)
(*                                                                         *)
(* A fold or a recursive function over a text is reasoned about by its     *)
(* trace (Traces): its value after each token, from none to all of them.   *)
(***************************************************************************)
EXTENDS Session, Traces

----------------------------------------------------------------------------
(* Texts and scanners *)

Statement == Text \ {<<>>}
Places == {Outside, "string", "line comment", "block comment"}
Scanned == Places \cup {"found"}
ScanState == [in : Places, text : Text, done : Seq(Statement)]
ScanStart == [in |-> Outside, text |-> <<>>, done |-> <<>>]
ReplState == [quoted : BOOLEAN, out : Line]
FileLine == [marked : BOOLEAN, text : Line]
LoadState == [entries : Seq(Line), joined : Line]
LinesState == Seq(Line) \ {<<>>}
Arguments(F) == [flag : F, text : Text]
Option == [is : {"fine", "help", "usage error"}, mode : {"default", "repl", "query", "script"},
           wants : BOOLEAN, text : Text]

\* The folds of Session: what each adds to its result x for the next item c.
Adds(fold, x, c) ==
    CASE fold = "Scan" -> SplitToken(x, c)
      [] fold = "Terminator" -> TerminatorToken(x, c)
      [] fold = "Repl" -> IF c = "'" THEN [quoted |-> ~x.quoted, out |-> Append(x.out, c)]
                          ELSE IF c \in DOMAIN Broken /\ ~x.quoted
                               THEN [x EXCEPT !.out = @ \o Broken[c]]
                          ELSE [x EXCEPT !.out = Append(@, c)]
      [] fold = "History" -> IF c \notin {NL, Blank} THEN Append(x, c)
                             ELSE IF x # <<>> /\ Last(x) = Blank THEN x ELSE Append(x, Blank)
      [] fold = "Loaded" -> IF c.marked \/ Head(c.text) \in {".quit", ".run", ".tables", ".unknown"}
                            THEN [x EXCEPT !.entries = Append(@, c.text)]
                            ELSE IF Contains(c.text, ";")
                                 THEN [entries |-> Append(x.entries, x.joined \o c.text), joined |-> <<>>]
                                 ELSE [x EXCEPT !.joined = @ \o c.text]
      [] fold = "Options" -> TakeArgument(x, c)
      [] fold = "Lines" -> IF c = NL THEN Append(x, <<>>)
                           ELSE [x EXCEPT ![Len(x)] = Append(@, c)]

Folded(fold, seq, base, g) ==
    g = [s \in SUBSET DOMAIN seq |->
            IF s = {} THEN base ELSE Adds(fold, g[s \ {Max(s)}], seq[Max(s)])]

Stays(fold, Item, St) == \A x \in St, c \in Item : Adds(fold, x, c) \in St
GoesTo(fold, seq, St, base, result) ==
    \E h \in [0..Len(seq) -> St] :
        /\ h[0] = base
        /\ \A i \in 1..Len(seq) : h[i] = Adds(fold, h[i - 1], seq[i])
        /\ h[Len(seq)] = result

\* A fold exists and goes through its items one by one.
LEMMA FoldTrace ==
    ASSUME NEW fold, NEW Item, NEW St, NEW seq \in Seq(Item), NEW base \in St,
           Stays(fold, Item, St)
    PROVE  /\ \E g : Folded(fold, seq, base, g)
           /\ \A g : Folded(fold, seq, base, g) => GoesTo(fold, seq, St, base, g[DOMAIN seq])
<1> DEFINE n == Len(seq)
           Wide(T) == [p \in (1..n) \X T |-> Adds(fold, p[2], seq[p[1]])]
<1>1. n \in Nat /\ DOMAIN seq = 1..n /\ \A i \in 1..n : seq[i] \in Item
  OBVIOUS
<1>2. ASSUME NEW T, NEW i \in 1..n, NEW x \in T
      PROVE  Wide(T)[<<i, x>>] = Adds(fold, x, seq[i])
  <2>1. <<i, x>> \in (1..n) \X T
    OBVIOUS
  <2> QED BY <2>1
<1> HIDE DEF Wide, n
<1>3. ASSUME NEW T, St \subseteq T PROVE Turns(n, St, Wide(T))
  <2> SUFFICES ASSUME NEW i \in 1..n, NEW x \in St PROVE Wide(T)[<<i, x>>] \in St
    BY DEF Turns
  <2>1. Wide(T)[<<i, x>>] = Adds(fold, x, seq[i]) /\ seq[i] \in Item
    BY <1>1, <1>2, <1>3
  <2> QED BY <2>1 DEF Stays
<1>4. ASSUME NEW T, NEW g, \A s \in SUBSET (1..n) : g[s] \in T
      PROVE  Folding(g, n, base, Wide(T)) <=> Folded(fold, seq, base, g)
  <2>1. ASSUME NEW s \in SUBSET (1..n), s # {}
        PROVE  Wide(T)[<<Max(s), g[s \ {Max(s)}]>>] = Adds(fold, g[s \ {Max(s)}], seq[Max(s)])
    <3>1. Max(s) \in s
      BY <1>1, <2>1, LastPosition
    <3> DEFINE m == Max(s)
    <3> HIDE DEF m
    <3>2. m \in 1..n /\ g[s \ {m}] \in T
      BY <1>4, <3>1 DEF m
    <3>3. Wide(T)[<<m, g[s \ {m}]>>] = Adds(fold, g[s \ {m}], seq[m])
      BY <1>2, <3>2
    <3> QED BY <3>3 DEF m
  <2>2. [s \in SUBSET (1..n) |-> IF s = {} THEN base ELSE Wide(T)[<<Max(s), g[s \ {Max(s)}]>>]]
         = [s \in SUBSET (1..n) |-> IF s = {} THEN base ELSE Adds(fold, g[s \ {Max(s)}], seq[Max(s)])]
    BY <2>1
  <2> QED BY <1>1, <2>2 DEF Folding, Folded
<1>5. \E g : Folded(fold, seq, base, g)
  <2>1. Turns(n, St, Wide(St))
    BY <1>3
  <2>2. PICK g \in [SUBSET (1..n) -> St] : Folding(g, n, base, Wide(St))
    BY <1>1, <2>1, FoldsExist
  <2>3. Folded(fold, seq, base, g)
    BY <1>4, <2>2
  <2> QED BY <2>3
<1>6. ASSUME NEW g, Folded(fold, seq, base, g)
      PROVE  \E h \in [0..n -> St] :
                      /\ h[0] = base
                      /\ \A i \in 1..n : h[i] = Adds(fold, h[i - 1], seq[i])
                      /\ h[n] = g[1..n]
  <2> DEFINE T == St \cup {g[s] : s \in SUBSET (1..n)}
  <2>1. St \subseteq T /\ \A s \in SUBSET (1..n) : g[s] \in T
    OBVIOUS
  <2> HIDE DEF T
  <2>2. Turns(n, St, Wide(T)) /\ Folding(g, n, base, Wide(T))
    BY <1>3, <1>4, <1>6, <2>1
  <2>3. PICK h \in [0..n -> St] : IsTrace(h, n, base, Wide(T)) /\ h[n] = g[1..n]
    BY <1>1, <2>2, FoldIsTrace
  <2>4. ASSUME NEW i \in 1..n PROVE h[i] = Adds(fold, h[i - 1], seq[i])
    <3>1. i - 1 \in 0..n
      BY <1>1
    <3>2. h[i - 1] \in T
      BY <2>1, <2>3, <3>1
    <3>3. h[i] = Wide(T)[<<i, h[i - 1]>>]
      BY <2>3 DEF IsTrace
    <3> QED BY <1>2, <3>2, <3>3
  <2> QED BY <2>3, <2>4 DEF IsTrace
<1> QED BY <1>1, <1>5, <1>6 DEF n, GoesTo

\* Where a fold goes is one place, and the next item takes it from there.
LEMMA GoesNowhere ==
    ASSUME NEW fold, NEW St, NEW base, NEW r, GoesTo(fold, <<>>, St, base, r)
    PROVE  r = base
BY DEF GoesTo

LEMMA GoesSomewhere ==
    ASSUME NEW fold, NEW Item, NEW seq \in Seq(Item), NEW St, NEW base, NEW r,
           GoesTo(fold, seq, St, base, r)
    PROVE  r \in St
<1>1. Len(seq) \in 0..Len(seq)
  BY LenProperties
<1> QED BY <1>1 DEF GoesTo

LEMMA GoesOn ==
    ASSUME NEW fold, NEW Item, NEW seq \in Seq(Item), NEW c \in Item, NEW St, NEW base,
           NEW r0, GoesTo(fold, seq, St, base, r0),
           NEW r1, GoesTo(fold, Append(seq, c), St, base, r1)
    PROVE  r1 = Adds(fold, r0, c)
<1> DEFINE n == Len(seq)
<1>1. /\ n \in Nat /\ Len(Append(seq, c)) = n + 1 /\ Append(seq, c)[n + 1] = c
      /\ \A i \in 1..n : Append(seq, c)[i] = seq[i]
  OBVIOUS
<1> HIDE DEF n
<1>2. PICK g \in [0..n -> St] :
          /\ g[0] = base /\ g[n] = r0
          /\ \A i \in 1..n : g[i] = Adds(fold, g[i - 1], seq[i])
  BY DEF GoesTo, n
<1>3. PICK h \in [0..n + 1 -> St] :
          /\ h[0] = base /\ h[n + 1] = r1
          /\ \A i \in 1..n + 1 : h[i] = Adds(fold, h[i - 1], Append(seq, c)[i])
  BY <1>1 DEF GoesTo
<1> DEFINE bad == {i \in 0..n : h[i] # g[i]}
<1>4. bad = {}
  <2>1. 0 \notin bad
    BY <1>2, <1>3
  <2>2. ASSUME NEW i \in 1..n, i - 1 \notin bad PROVE i \notin bad
    <3>1. i - 1 \in 0..n /\ i \in 1..n + 1
      BY <1>1
    <3>2. h[i - 1] = g[i - 1]
      BY <2>2, <3>1
    <3> QED BY <1>1, <1>2, <1>3, <3>1, <3>2
  <2>3. bad \in SUBSET (0..n)
    OBVIOUS
  <2> HIDE DEF bad
  <2> QED BY <1>1, <2>1, <2>2, <2>3, FirstBad
<1>5. h[n] = r0
  BY <1>1, <1>2, <1>4
<1>6. n + 1 \in 1..n + 1 /\ (n + 1) - 1 = n
  BY <1>1
<1> QED BY <1>1, <1>3, <1>5, <1>6

\* The folds of Session that its operators take apart.
TerminatorOf(text) == FoldLeft(LAMBDA s, c : TerminatorToken(s, c), Outside, text)
ReplOf(text) ==
    FoldLeft(LAMBDA s, c :
                IF c = "'" THEN [quoted |-> ~s.quoted, out |-> Append(s.out, c)]
                ELSE IF c \in DOMAIN Broken /\ ~s.quoted THEN [s EXCEPT !.out = @ \o Broken[c]]
                ELSE [s EXCEPT !.out = Append(@, c)],
             [quoted |-> FALSE, out |-> <<>>], text)
HistoryOf(text) ==
    FoldLeft(LAMBDA out, c : IF c \notin {NL, Blank} THEN Append(out, c)
                             ELSE IF out # <<>> /\ Last(out) = Blank THEN out ELSE Append(out, Blank),
             <<>>, text)
LoadedOf(lines) ==
    FoldLeft(LAMBDA s, l :
                IF l.marked \/ Head(l.text) \in {".quit", ".run", ".tables", ".unknown"}
                THEN [s EXCEPT !.entries = Append(@, l.text)]
                ELSE IF Contains(l.text, ";")
                     THEN [entries |-> Append(s.entries, s.joined \o l.text), joined |-> <<>>]
                     ELSE [s EXCEPT !.joined = @ \o l.text],
             [entries |-> <<>>, joined |-> <<>>], lines)
OptionOf(arguments) ==
    FoldLeft(TakeArgument, [is |-> "fine", mode |-> "default", wants |-> FALSE, text |-> <<>>],
             arguments)

\* The blank is a token, and no other marker.
LEMMA BlankIsNone == Blank \in Token /\ Blank \notin {"'", ";", "--", "/*", "*/", NL}
<1>1. Blank \in Markers
  BY DEF Markers
<1>2. Blank \in Token
  BY <1>1, TextAssumption
<1>3. Blank \notin {"'", ";", "--", "/*", "*/", NL}
  BY Zenon DEF Blank, NL
<1> QED BY <1>2, <1>3

\* A token moves the splitter from state to state.
LEMMA SplitTokenState ==
    ASSUME NEW s \in ScanState, NEW c \in Token
    PROVE  SplitToken(s, c) \in ScanState
<1>1. /\ s.in \in Places /\ s.text \in Text /\ s.done \in Seq(Statement)
      /\ Append(s.text, c) \in Text /\ <<>> \in Text
      /\ s.text # <<>> => Append(s.done, s.text) \in Seq(Statement)
      /\ s = [in |-> s.in, text |-> s.text, done |-> s.done]
  BY DEF ScanState, Text, Statement
<1> HIDE DEF Text, Statement
<1>2. CASE s.in = "line comment"
  BY <1>1, <1>2 DEF SplitToken, ScanState, Places, Outside
<1>3. CASE s.in = "block comment"
  BY <1>1, <1>3 DEF SplitToken, ScanState, Places, Outside
<1>4. CASE s.in = "string"
  BY <1>1, <1>4 DEF SplitToken, ScanState, Places, Outside
<1>5. CASE s.in = Outside
  BY <1>1, <1>5 DEF SplitToken, ScanState, Places, Outside, BeginComment
<1> QED BY <1>1, <1>2, <1>3, <1>4, <1>5 DEF Places

\* The splitter, token by token.
LEMMA ScanGoes ==
    ASSUME NEW text \in Seq(Token)
    PROVE  GoesTo("Scan", text, ScanState, ScanStart, Scan(text))
<1> DEFINE Next1(x, c) == SplitToken(x, c)
           Chosen(g) == g = [s \in SUBSET DOMAIN text |-> IF s = {} THEN ScanStart
                                ELSE Next1(g[s \ {Max(s)}], text[Max(s)])]
           G == CHOOSE g : Chosen(g)
<1>1. Scan(text) = G[DOMAIN text]
  BY DEF Scan, ScanStart, FoldLeft, MapThenFoldSet
<1>2. \A x, c : Adds("Scan", x, c) = Next1(x, c)
  BY DEF Adds
<1>3. ScanStart \in ScanState
  BY DEF ScanStart, ScanState, Text, Places
<1>4. Stays("Scan", Token, ScanState)
  BY SplitTokenState DEF Adds, Stays
<1> HIDE DEF G, Next1
<1>5. ASSUME NEW g PROVE Chosen(g) <=> Folded("Scan", text, ScanStart, g)
  BY <1>2 DEF Folded
<1> HIDE DEF Chosen
<1>6. Folded("Scan", text, ScanStart, G)
  <2>1. \E g : Chosen(g)
    BY <1>3, <1>4, <1>5, FoldTrace
  <2>2. Chosen(G)
    BY <2>1 DEF G
  <2> QED BY <1>5, <2>2
<1>7. GoesTo("Scan", text, ScanState, ScanStart, G[DOMAIN text])
  BY <1>3, <1>4, <1>6, FoldTrace
<1> QED BY <1>1, <1>7

LEMMA ScanNext ==
    /\ Scan(<<>>) = ScanStart
    /\ \A x \in Seq(Token) : Scan(x) \in ScanState
    /\ \A x \in Seq(Token), c \in Token : Scan(Append(x, c)) = Adds("Scan", Scan(x), c)
<1>1. Scan(<<>>) = ScanStart
  BY <<>> \in Seq(Token), ScanGoes, GoesNowhere
<1>2. ASSUME NEW x \in Seq(Token) PROVE Scan(x) \in ScanState
  BY ScanGoes, GoesSomewhere
<1>3. ASSUME NEW x \in Seq(Token), NEW c \in Token
      PROVE  Scan(Append(x, c)) = Adds("Scan", Scan(x), c)
  <2>1. Append(x, c) \in Seq(Token)
    OBVIOUS
  <2>2. /\ GoesTo("Scan", x, ScanState, ScanStart, Scan(x))
        /\ GoesTo("Scan", Append(x, c), ScanState, ScanStart, Scan(Append(x, c)))
    BY <2>1, ScanGoes
  <2> HIDE DEF GoesTo
  <2> QED BY <2>2, GoesOn
<1> QED BY <1>1, <1>2, <1>3

\* A token moves the terminator scanner from place to place.
LEMMA TerminatorTokenPlace ==
    ASSUME NEW s \in Scanned, NEW c \in Token
    PROVE  TerminatorToken(s, c) \in Scanned
<1>1. CASE s = "line comment"
  BY <1>1 DEF TerminatorToken, Scanned, Places, Outside
<1>2. CASE s = "block comment"
  BY <1>2 DEF TerminatorToken, Scanned, Places, Outside
<1>3. CASE s = "string"
  BY <1>3 DEF TerminatorToken, Scanned, Places, Outside
<1>4. CASE s = Outside
  BY <1>4 DEF TerminatorToken, Scanned, Places, Outside
<1>5. CASE s = "found"
  BY <1>5 DEF TerminatorToken, Scanned, Places, Outside
<1> QED BY <1>1, <1>2, <1>3, <1>4, <1>5 DEF Scanned, Places

\* The scanner for the end of a statement, token by token.
LEMMA TerminatorGoes ==
    ASSUME NEW text \in Seq(Token)
    PROVE  GoesTo("Terminator", text, Scanned, Outside, TerminatorOf(text))
<1> DEFINE Next1(x, c) == TerminatorToken(x, c)
           Chosen(g) == g = [s \in SUBSET DOMAIN text |-> IF s = {} THEN Outside
                                ELSE Next1(g[s \ {Max(s)}], text[Max(s)])]
           G == CHOOSE g : Chosen(g)
<1>1. TerminatorOf(text) = G[DOMAIN text]
  BY DEF TerminatorOf, FoldLeft, MapThenFoldSet
<1>2. \A x, c : Adds("Terminator", x, c) = Next1(x, c)
  BY DEF Adds
<1>3. Outside \in Scanned
  BY DEF Places, Scanned
<1>4. Stays("Terminator", Token, Scanned)
  BY TerminatorTokenPlace DEF Adds, Stays
<1> HIDE DEF G, Next1
<1>5. ASSUME NEW g PROVE Chosen(g) <=> Folded("Terminator", text, Outside, g)
  BY <1>2 DEF Folded
<1> HIDE DEF Chosen
<1>6. Folded("Terminator", text, Outside, G)
  <2>1. \E g : Chosen(g)
    BY <1>3, <1>4, <1>5, FoldTrace
  <2>2. Chosen(G)
    BY <2>1 DEF G
  <2> QED BY <1>5, <2>2
<1>7. GoesTo("Terminator", text, Scanned, Outside, G[DOMAIN text])
  BY <1>3, <1>4, <1>6, FoldTrace
<1> QED BY <1>1, <1>7

LEMMA TerminatorNext ==
    /\ TerminatorOf(<<>>) = Outside
    /\ \A x \in Seq(Token) : TerminatorOf(x) \in Scanned
    /\ \A x \in Seq(Token), c \in Token : TerminatorOf(Append(x, c)) = Adds("Terminator", TerminatorOf(x), c)
<1>1. TerminatorOf(<<>>) = Outside
  BY <<>> \in Seq(Token), TerminatorGoes, GoesNowhere
<1>2. ASSUME NEW x \in Seq(Token) PROVE TerminatorOf(x) \in Scanned
  BY TerminatorGoes, GoesSomewhere
<1>3. ASSUME NEW x \in Seq(Token), NEW c \in Token
      PROVE  TerminatorOf(Append(x, c)) = Adds("Terminator", TerminatorOf(x), c)
  <2>1. Append(x, c) \in Seq(Token)
    OBVIOUS
  <2>2. /\ GoesTo("Terminator", x, Scanned, Outside, TerminatorOf(x))
        /\ GoesTo("Terminator", Append(x, c), Scanned, Outside, TerminatorOf(Append(x, c)))
    BY <2>1, TerminatorGoes
  <2> HIDE DEF GoesTo
  <2> QED BY <2>2, GoesOn
<1> QED BY <1>1, <1>2, <1>3

\* Broken words are mended into words.
LEMMA ReplState1 ==
    ASSUME NEW x \in ReplState, NEW c \in Token \ {NL}
    PROVE  Adds("Repl", x, c) \in ReplState
<1>1. /\ x.quoted \in BOOLEAN /\ x.out \in Line /\ x = [quoted |-> x.quoted, out |-> x.out]
      /\ Append(x.out, c) \in Line
  BY DEF ReplState, Line
<1>2. ASSUME c \in DOMAIN Broken PROVE x.out \o Broken[c] \in Line
  <2>1. Broken[c] \in Seq(Word) /\ Word \subseteq Token \ {NL}
    BY <1>2, TextAssumption DEF Word, Markers
  <2>2. Broken[c] \in Line
    BY <2>1, SeqMonotonic DEF Line
  <2> QED BY <1>1, <2>2 DEF Line
<1> HIDE DEF Line
<1>3. Adds("Repl", x, c) =
          IF c = "'" THEN [quoted |-> ~x.quoted, out |-> Append(x.out, c)]
          ELSE IF c \in DOMAIN Broken /\ ~x.quoted
               THEN [x EXCEPT !.out = x.out \o Broken[c]]
          ELSE [x EXCEPT !.out = Append(x.out, c)]
  BY DEF Adds
<1>4. CASE c = "'"
  <2>1. PICK q \in BOOLEAN : q = ~x.quoted
    BY <1>1
  <2>2. Adds("Repl", x, c) = [quoted |-> q, out |-> Append(x.out, c)]
    BY <1>3, <1>4, <2>1
  <2>3. PICK o \in Line : o = Append(x.out, c)
    BY <1>1
  <2>4. [quoted |-> q, out |-> o] \in ReplState
    BY DEF ReplState
  <2> QED BY <2>2, <2>3, <2>4
<1>5. CASE c # "'" /\ c \in DOMAIN Broken /\ ~x.quoted
  <2>1. Adds("Repl", x, c) = [x EXCEPT !.out = x.out \o Broken[c]]
    BY <1>3, <1>5
  <2> QED BY <1>1, <1>2, <1>5, <2>1 DEF ReplState
<1>6. CASE c # "'" /\ ~(c \in DOMAIN Broken /\ ~x.quoted)
  <2>1. Adds("Repl", x, c) = [x EXCEPT !.out = Append(x.out, c)]
    BY <1>3, <1>6
  <2> QED BY <1>1, <2>1 DEF ReplState
<1> QED BY <1>4, <1>5, <1>6

\* A line is normalized token by token.
LEMMA ReplGoes ==
    ASSUME NEW text \in Seq(Token \ {NL})
    PROVE  GoesTo("Repl", text, ReplState, [quoted |-> FALSE, out |-> <<>>], ReplOf(text))
<1> DEFINE Next1(x, c) == IF c = "'" THEN [quoted |-> ~x.quoted, out |-> Append(x.out, c)]
                          ELSE IF c \in DOMAIN Broken /\ ~x.quoted THEN [x EXCEPT !.out = @ \o Broken[c]]
                          ELSE [x EXCEPT !.out = Append(@, c)]
           Chosen(g) == g = [s \in SUBSET DOMAIN text |-> IF s = {} THEN [quoted |-> FALSE, out |-> <<>>]
                                ELSE Next1(g[s \ {Max(s)}], text[Max(s)])]
           G == CHOOSE g : Chosen(g)
<1>1. ReplOf(text) = G[DOMAIN text]
  BY DEF ReplOf, FoldLeft, MapThenFoldSet
<1>2. \A x, c : Adds("Repl", x, c) = Next1(x, c)
  BY DEF Adds
<1>3. [quoted |-> FALSE, out |-> <<>>] \in ReplState
  BY DEF ReplState, Line
<1>4. Stays("Repl", Token \ {NL}, ReplState)
  BY ReplState1 DEF Stays
<1> HIDE DEF G, Next1
<1>5. ASSUME NEW g PROVE Chosen(g) <=> Folded("Repl", text, [quoted |-> FALSE, out |-> <<>>], g)
  BY <1>2 DEF Folded
<1> HIDE DEF Chosen
<1>6. Folded("Repl", text, [quoted |-> FALSE, out |-> <<>>], G)
  <2>1. \E g : Chosen(g)
    BY <1>3, <1>4, <1>5, FoldTrace
  <2>2. Chosen(G)
    BY <2>1 DEF G
  <2> QED BY <1>5, <2>2
<1>7. GoesTo("Repl", text, ReplState, [quoted |-> FALSE, out |-> <<>>], G[DOMAIN text])
  BY <1>3, <1>4, <1>6, FoldTrace
<1> QED BY <1>1, <1>7

LEMMA ReplNext ==
    /\ ReplOf(<<>>) = [quoted |-> FALSE, out |-> <<>>]
    /\ \A x \in Seq(Token \ {NL}) : ReplOf(x) \in ReplState
    /\ \A x \in Seq(Token \ {NL}), c \in (Token \ {NL}) : ReplOf(Append(x, c)) = Adds("Repl", ReplOf(x), c)
<1>1. ReplOf(<<>>) = [quoted |-> FALSE, out |-> <<>>]
  BY <<>> \in Seq(Token \ {NL}), ReplGoes, GoesNowhere
<1>2. ASSUME NEW x \in Seq(Token \ {NL}) PROVE ReplOf(x) \in ReplState
  BY ReplGoes, GoesSomewhere
<1>3. ASSUME NEW x \in Seq(Token \ {NL}), NEW c \in Token \ {NL}
      PROVE  ReplOf(Append(x, c)) = Adds("Repl", ReplOf(x), c)
  <2>1. Append(x, c) \in Seq(Token \ {NL})
    OBVIOUS
  <2>2. /\ GoesTo("Repl", x, ReplState, [quoted |-> FALSE, out |-> <<>>], ReplOf(x))
        /\ GoesTo("Repl", Append(x, c), ReplState, [quoted |-> FALSE, out |-> <<>>], ReplOf(Append(x, c)))
    BY <2>1, ReplGoes
  <2> HIDE DEF GoesTo
  <2> QED BY <2>2, GoesOn
<1> QED BY <1>1, <1>2, <1>3

\* An entry is a line.
LEMMA HistoryState1 ==
    ASSUME NEW x \in Line, NEW c \in Token
    PROVE  Adds("History", x, c) \in Line
<1>1. Append(x, Blank) \in Line /\ (c # NL => Append(x, c) \in Line)
  <2> DEFINE T == Token \ {NL}
  <2>1. Blank \in T /\ (c # NL => c \in T)
    BY BlankIsNone
  <2>2. x \in Seq(T)
    BY DEF Line
  <2> HIDE DEF T
  <2>3. ASSUME NEW t \in T PROVE Append(x, t) \in Seq(T)
    BY <2>2
  <2> QED BY <2>1, <2>3 DEF Line, T
<1> HIDE DEF Line, NL
<1>2. Adds("History", x, c) \in {x, Append(x, Blank), Append(x, c)}
      /\ (c = NL => Adds("History", x, c) \in {x, Append(x, Blank)})
  BY DEF Adds
<1> QED BY <1>1, <1>2

\* A statement becomes a history entry token by token.
LEMMA HistoryGoes ==
    ASSUME NEW text \in Seq(Token)
    PROVE  GoesTo("History", text, Line, <<>>, HistoryOf(text))
<1> DEFINE Next1(x, c) == IF c \notin {NL, Blank} THEN Append(x, c)
                          ELSE IF x # <<>> /\ Last(x) = Blank THEN x ELSE Append(x, Blank)
           Chosen(g) == g = [s \in SUBSET DOMAIN text |-> IF s = {} THEN <<>>
                                ELSE Next1(g[s \ {Max(s)}], text[Max(s)])]
           G == CHOOSE g : Chosen(g)
<1>1. HistoryOf(text) = G[DOMAIN text]
  BY DEF HistoryOf, FoldLeft, MapThenFoldSet
<1>2. \A x, c : Adds("History", x, c) = Next1(x, c)
  BY DEF Adds
<1>3. <<>> \in Line
  BY DEF Line
<1>4. Stays("History", Token, Line)
  BY HistoryState1 DEF Stays
<1> HIDE DEF G, Next1
<1>5. ASSUME NEW g PROVE Chosen(g) <=> Folded("History", text, <<>>, g)
  BY <1>2 DEF Folded
<1> HIDE DEF Chosen
<1>6. Folded("History", text, <<>>, G)
  <2>1. \E g : Chosen(g)
    BY <1>3, <1>4, <1>5, FoldTrace
  <2>2. Chosen(G)
    BY <2>1 DEF G
  <2> QED BY <1>5, <2>2
<1>7. GoesTo("History", text, Line, <<>>, G[DOMAIN text])
  BY <1>3, <1>4, <1>6, FoldTrace
<1> QED BY <1>1, <1>7

LEMMA HistoryNext ==
    /\ HistoryOf(<<>>) = <<>>
    /\ \A x \in Seq(Token) : HistoryOf(x) \in Line
    /\ \A x \in Seq(Token), c \in Token : HistoryOf(Append(x, c)) = Adds("History", HistoryOf(x), c)
<1>1. HistoryOf(<<>>) = <<>>
  BY <<>> \in Seq(Token), HistoryGoes, GoesNowhere
<1>2. ASSUME NEW x \in Seq(Token) PROVE HistoryOf(x) \in Line
  BY HistoryGoes, GoesSomewhere
<1>3. ASSUME NEW x \in Seq(Token), NEW c \in Token
      PROVE  HistoryOf(Append(x, c)) = Adds("History", HistoryOf(x), c)
  <2>1. Append(x, c) \in Seq(Token)
    OBVIOUS
  <2>2. /\ GoesTo("History", x, Line, <<>>, HistoryOf(x))
        /\ GoesTo("History", Append(x, c), Line, <<>>, HistoryOf(Append(x, c)))
    BY <2>1, HistoryGoes
  <2> HIDE DEF GoesTo
  <2> QED BY <2>2, GoesOn
<1> QED BY <1>1, <1>2, <1>3

\* Entries are lines.
LEMMA LoadState1 ==
    ASSUME NEW x \in LoadState, NEW c \in FileLine
    PROVE  Adds("Loaded", x, c) \in LoadState
<1>1. /\ x.entries \in Seq(Line) /\ x.joined \in Line /\ c.text \in Line /\ <<>> \in Line
      /\ x = [entries |-> x.entries, joined |-> x.joined]
  BY DEF LoadState, FileLine, Line
<1>2. x.joined \o c.text \in Line
  BY <1>1 DEF Line
<1> HIDE DEF Line
<1>3. Append(x.entries, c.text) \in Seq(Line) /\ Append(x.entries, x.joined \o c.text) \in Seq(Line)
  BY <1>1, <1>2
<1>4. Adds("Loaded", x, c) \in {[x EXCEPT !.entries = Append(x.entries, c.text)],
                                [entries |-> Append(x.entries, x.joined \o c.text), joined |-> <<>>],
                                [x EXCEPT !.joined = x.joined \o c.text]}
  BY DEF Adds
<1>5. [x EXCEPT !.entries = Append(x.entries, c.text)] \in LoadState
  BY <1>1, <1>3 DEF LoadState
<1>6. [entries |-> Append(x.entries, x.joined \o c.text), joined |-> <<>>] \in LoadState
  BY <1>1, <1>3 DEF LoadState
<1>7. [x EXCEPT !.joined = x.joined \o c.text] \in LoadState
  BY <1>1, <1>2 DEF LoadState
<1> QED BY <1>4, <1>5, <1>6, <1>7

\* The history file is loaded line by line.
LEMMA LoadedGoes ==
    ASSUME NEW lines \in Seq(FileLine)
    PROVE  GoesTo("Loaded", lines, LoadState, [entries |-> <<>>, joined |-> <<>>], LoadedOf(lines))
<1> DEFINE Next1(x, c) == IF c.marked \/ Head(c.text) \in {".quit", ".run", ".tables", ".unknown"}
                          THEN [x EXCEPT !.entries = Append(@, c.text)]
                          ELSE IF Contains(c.text, ";")
                               THEN [entries |-> Append(x.entries, x.joined \o c.text), joined |-> <<>>]
                               ELSE [x EXCEPT !.joined = @ \o c.text]
           Chosen(g) == g = [s \in SUBSET DOMAIN lines |-> IF s = {} THEN [entries |-> <<>>, joined |-> <<>>]
                                ELSE Next1(g[s \ {Max(s)}], lines[Max(s)])]
           G == CHOOSE g : Chosen(g)
<1>1. LoadedOf(lines) = G[DOMAIN lines]
  BY DEF LoadedOf, FoldLeft, MapThenFoldSet
<1>2. \A x, c : Adds("Loaded", x, c) = Next1(x, c)
  BY DEF Adds
<1>3. [entries |-> <<>>, joined |-> <<>>] \in LoadState
  BY DEF LoadState, Line
<1>4. Stays("Loaded", FileLine, LoadState)
  BY LoadState1 DEF Stays
<1> HIDE DEF G, Next1
<1>5. ASSUME NEW g PROVE Chosen(g) <=> Folded("Loaded", lines, [entries |-> <<>>, joined |-> <<>>], g)
  BY <1>2 DEF Folded
<1> HIDE DEF Chosen
<1>6. Folded("Loaded", lines, [entries |-> <<>>, joined |-> <<>>], G)
  <2>1. \E g : Chosen(g)
    BY <1>3, <1>4, <1>5, FoldTrace
  <2>2. Chosen(G)
    BY <2>1 DEF G
  <2> QED BY <1>5, <2>2
<1>7. GoesTo("Loaded", lines, LoadState, [entries |-> <<>>, joined |-> <<>>], G[DOMAIN lines])
  BY <1>3, <1>4, <1>6, FoldTrace
<1> QED BY <1>1, <1>7

LEMMA LoadedNext ==
    /\ LoadedOf(<<>>) = [entries |-> <<>>, joined |-> <<>>]
    /\ \A x \in Seq(FileLine) : LoadedOf(x) \in LoadState
    /\ \A x \in Seq(FileLine), c \in FileLine : LoadedOf(Append(x, c)) = Adds("Loaded", LoadedOf(x), c)
<1>1. LoadedOf(<<>>) = [entries |-> <<>>, joined |-> <<>>]
  BY <<>> \in Seq(FileLine), LoadedGoes, GoesNowhere
<1>2. ASSUME NEW x \in Seq(FileLine) PROVE LoadedOf(x) \in LoadState
  BY LoadedGoes, GoesSomewhere
<1>3. ASSUME NEW x \in Seq(FileLine), NEW c \in FileLine
      PROVE  LoadedOf(Append(x, c)) = Adds("Loaded", LoadedOf(x), c)
  <2>1. Append(x, c) \in Seq(FileLine)
    OBVIOUS
  <2>2. /\ GoesTo("Loaded", x, LoadState, [entries |-> <<>>, joined |-> <<>>], LoadedOf(x))
        /\ GoesTo("Loaded", Append(x, c), LoadState, [entries |-> <<>>, joined |-> <<>>], LoadedOf(Append(x, c)))
    BY <2>1, LoadedGoes
  <2> HIDE DEF GoesTo
  <2> QED BY <2>2, GoesOn
<1> QED BY <1>1, <1>2, <1>3

\* What is loaded are lines.
LEMMA LoadedLines ==
    ASSUME NEW lines \in Seq(FileLine)
    PROVE  Loaded(lines) \in Seq(Line)
<1> DEFINE s == LoadedOf(lines)
<1>1. Loaded(lines) = IF s.joined = <<>> THEN s.entries ELSE Append(s.entries, s.joined)
  BY DEF Loaded, LoadedOf
<1>2. s \in LoadState
  BY LoadedNext
<1> HIDE DEF s, Line
<1>3. s.entries \in Seq(Line) /\ s.joined \in Line
  BY <1>2 DEF LoadState
<1> QED BY <1>1, <1>3

\* Arguments change the options.
LEMMA OptionState ==
    ASSUME NEW F, NEW x \in Option, NEW c \in Arguments(F)
    PROVE  TakeArgument(x, c) \in Option
<1>1. c.text \in Text /\ x.text \in Text
  BY DEF Arguments, Option
<1> HIDE DEF Text
<1>2. x.wants \in BOOLEAN
  BY DEF Option
<1>3. CASE x.is # "fine"
  BY <1>3 DEF TakeArgument
<1>4. CASE x.is = "fine" /\ x.wants
  BY <1>1, <1>4 DEF TakeArgument, Option
<1>5. CASE x.is = "fine" /\ ~x.wants
  <2>1. CASE c.flag = "-h"
    BY <1>5, <2>1 DEF TakeArgument, Option
  <2>2. CASE c.flag \notin {"-h", "-r", "-q", "-f", "--query=", "--file="}
    BY <1>5, <2>2 DEF TakeArgument, Option
  <2>3. CASE c.flag \in {"-r", "-q", "-f", "--query=", "--file="}
    <3>1. CASE x.mode # "default"
      BY <1>5, <2>3, <3>1 DEF TakeArgument, Option
    <3>2. CASE x.mode = "default"
      <4>1. PICK q \in BOOLEAN : q = (c.flag \in {"-q", "-f"})
        <5>1. (c.flag \in {"-q", "-f"}) \in BOOLEAN
          OBVIOUS
        <5> QED BY <5>1, Zenon
      <4>2. PICK t \in Text : t = IF c.flag \in {"--query=", "--file="} THEN c.text ELSE x.text
        BY <1>1
      <4> DEFINE m == CASE c.flag = "-r" -> "repl"
                        [] c.flag \in {"-q", "--query="} -> "query"
                        [] OTHER -> "script"
      <4>3. m \in {"repl", "query", "script"}
        <5>1. CASE c.flag = "-r"
          BY <5>1
        <5>2. CASE c.flag \in {"-q", "--query="}
          BY <5>2
        <5>3. CASE c.flag # "-r" /\ c.flag \notin {"-q", "--query="}
          BY <5>3
        <5> QED BY <5>1, <5>2, <5>3
      <4>4. TakeArgument(x, c) = [x EXCEPT !.mode = m, !.wants = q, !.text = t]
        BY <1>5, <2>3, <3>2, <4>1, <4>2, <4>3 DEF TakeArgument
      <4> HIDE DEF m
      <4> QED BY <4>3, <4>4 DEF Option
    <3> QED BY <3>1, <3>2
  <2> QED BY <2>1, <2>2, <2>3
<1> QED BY <1>2, <1>3, <1>4, <1>5

\* The command line is taken argument by argument.
LEMMA OptionGoes ==
    ASSUME NEW F, NEW arguments \in Seq(Arguments(F))
    PROVE  GoesTo("Options", arguments, Option, [is |-> "fine", mode |-> "default", wants |-> FALSE, text |-> <<>>], OptionOf(arguments))
<1> DEFINE Next1(x, c) == TakeArgument(x, c)
           Chosen(g) == g = [s \in SUBSET DOMAIN arguments |-> IF s = {} THEN [is |-> "fine", mode |-> "default", wants |-> FALSE, text |-> <<>>]
                                ELSE Next1(g[s \ {Max(s)}], arguments[Max(s)])]
           G == CHOOSE g : Chosen(g)
<1>1. OptionOf(arguments) = G[DOMAIN arguments]
  BY DEF OptionOf, FoldLeft, MapThenFoldSet
<1>2. \A x, c : Adds("Options", x, c) = Next1(x, c)
  BY DEF Adds
<1>3. [is |-> "fine", mode |-> "default", wants |-> FALSE, text |-> <<>>] \in Option
  BY DEF Option, Text
<1>4. Stays("Options", Arguments(F), Option)
  BY OptionState DEF Stays, Adds
<1> HIDE DEF G, Next1
<1>5. ASSUME NEW g PROVE Chosen(g) <=> Folded("Options", arguments, [is |-> "fine", mode |-> "default", wants |-> FALSE, text |-> <<>>], g)
  BY <1>2, ZenonT(60) DEF Folded
<1> HIDE DEF Chosen
<1>6. Folded("Options", arguments, [is |-> "fine", mode |-> "default", wants |-> FALSE, text |-> <<>>], G)
  <2>1. \E g : Chosen(g)
    BY <1>3, <1>4, <1>5, FoldTrace
  <2>2. Chosen(G)
    BY <2>1 DEF G
  <2> QED BY <1>5, <2>2
<1>7. GoesTo("Options", arguments, Option, [is |-> "fine", mode |-> "default", wants |-> FALSE, text |-> <<>>], G[DOMAIN arguments])
  BY <1>3, <1>4, <1>6, FoldTrace
<1> QED BY <1>1, <1>7

LEMMA OptionNext ==
    ASSUME NEW F
    PROVE
    /\ OptionOf(<<>>) = [is |-> "fine", mode |-> "default", wants |-> FALSE, text |-> <<>>]
    /\ \A x \in Seq(Arguments(F)) : OptionOf(x) \in Option
    /\ \A x \in Seq(Arguments(F)), c \in Arguments(F) : OptionOf(Append(x, c)) = Adds("Options", OptionOf(x), c)
<1>1. OptionOf(<<>>) = [is |-> "fine", mode |-> "default", wants |-> FALSE, text |-> <<>>]
  BY <<>> \in Seq(Arguments(F)), OptionGoes, GoesNowhere
<1>2. ASSUME NEW x \in Seq(Arguments(F)) PROVE OptionOf(x) \in Option
  BY OptionGoes, GoesSomewhere
<1>3. ASSUME NEW x \in Seq(Arguments(F)), NEW c \in Arguments(F)
      PROVE  OptionOf(Append(x, c)) = Adds("Options", OptionOf(x), c)
  <2>1. Append(x, c) \in Seq(Arguments(F))
    OBVIOUS
  <2>2. /\ GoesTo("Options", x, Option, [is |-> "fine", mode |-> "default", wants |-> FALSE, text |-> <<>>], OptionOf(x))
        /\ GoesTo("Options", Append(x, c), Option, [is |-> "fine", mode |-> "default", wants |-> FALSE, text |-> <<>>], OptionOf(Append(x, c)))
    BY <2>1, OptionGoes
  <2> HIDE DEF GoesTo
  <2> QED BY <2>2, GoesOn
<1> QED BY <1>1, <1>2, <1>3

\* The text of an option is a text.
LEMMA OptionsTyped ==
    ASSUME NEW arguments \in ArgumentLists
    PROVE  Options(arguments) \in Option
<1> DEFINE F == {a.flag : a \in ToSet(arguments)}
           o == OptionOf(arguments)
<1>1. Options(arguments) = IF o.is = "fine" /\ o.wants THEN [o EXCEPT !.is = "usage error"] ELSE o
  BY DEF Options, OptionOf
<1>2. arguments \in Seq(Arguments(F))
  BY TextAssumption DEF Arguments
<1>3. o \in Option
  <2> HIDE DEF F
  <2> QED BY <1>2, OptionNext
<1> HIDE DEF o
<1> QED BY <1>1, <1>3 DEF Option

\* Lines are lines, and there is one at least.
LEMMA LinesState1 ==
    ASSUME NEW x \in LinesState, NEW c \in Token
    PROVE  Adds("Lines", x, c) \in LinesState
<1>1. x \in Seq(Line) /\ x # <<>> /\ <<>> \in Line /\ Len(x) \in 1..Len(x) /\ x[Len(x)] \in Line
  BY DEF LinesState, Line
<1>2. CASE c = NL
  <2>1. Adds("Lines", x, c) = Append(x, <<>>)
    BY <1>2 DEF Adds
  <2> HIDE DEF Line
  <2>2. Append(x, <<>>) \in Seq(Line) /\ Append(x, <<>>) # <<>>
    BY <1>1, AppendProperties
  <2> QED BY <2>1, <2>2 DEF LinesState
<1>3. CASE c # NL
  <2>1. Adds("Lines", x, c) = [x EXCEPT ![Len(x)] = Append(x[Len(x)], c)]
    BY <1>3 DEF Adds
  <2>2. Append(x[Len(x)], c) \in Line
    BY <1>1, <1>3 DEF Line
  <2> HIDE DEF Line
  <2> DEFINE y == [x EXCEPT ![Len(x)] = Append(x[Len(x)], c)]
  <2>3. y \in Seq(Line) /\ Len(y) = Len(x)
    BY <1>1, <2>2, ExceptSeq
  <2>4. Len(x) # 0
    BY <1>1
  <2> HIDE DEF y
  <2>5. y # <<>>
    BY <2>3, <2>4
  <2> QED BY <2>1, <2>3, <2>5 DEF LinesState, y
<1> QED BY <1>2, <1>3

\* A paste is cut into lines token by token.
LEMMA LinesGoes ==
    ASSUME NEW text \in Seq(Token)
    PROVE  GoesTo("Lines", text, LinesState, << <<>> >>, Lines(text))
<1> DEFINE Next1(x, c) == IF c = NL THEN Append(x, <<>>)
                          ELSE [x EXCEPT ![Len(x)] = Append(@, c)]
           Chosen(g) == g = [s \in SUBSET DOMAIN text |-> IF s = {} THEN << <<>> >>
                                ELSE Next1(g[s \ {Max(s)}], text[Max(s)])]
           G == CHOOSE g : Chosen(g)
<1>1. Lines(text) = G[DOMAIN text]
  BY DEF Lines, FoldLeft, MapThenFoldSet
<1>2. \A x, c : Adds("Lines", x, c) = Next1(x, c)
  BY DEF Adds
<1>3. << <<>> >> \in LinesState
  BY DEF LinesState, Line
<1>4. Stays("Lines", Token, LinesState)
  BY LinesState1 DEF Stays
<1> HIDE DEF G, Next1
<1>5. ASSUME NEW g PROVE Chosen(g) <=> Folded("Lines", text, << <<>> >>, g)
  BY <1>2 DEF Folded
<1> HIDE DEF Chosen
<1>6. Folded("Lines", text, << <<>> >>, G)
  <2>1. \E g : Chosen(g)
    BY <1>3, <1>4, <1>5, FoldTrace
  <2>2. Chosen(G)
    BY <2>1 DEF G
  <2> QED BY <1>5, <2>2
<1>7. GoesTo("Lines", text, LinesState, << <<>> >>, G[DOMAIN text])
  BY <1>3, <1>4, <1>6, FoldTrace
<1> QED BY <1>1, <1>7

LEMMA LinesNext ==
    /\ Lines(<<>>) = << <<>> >>
    /\ \A x \in Seq(Token) : Lines(x) \in LinesState
    /\ \A x \in Seq(Token), c \in Token : Lines(Append(x, c)) = Adds("Lines", Lines(x), c)
<1>1. Lines(<<>>) = << <<>> >>
  BY <<>> \in Seq(Token), LinesGoes, GoesNowhere
<1>2. ASSUME NEW x \in Seq(Token) PROVE Lines(x) \in LinesState
  BY LinesGoes, GoesSomewhere
<1>3. ASSUME NEW x \in Seq(Token), NEW c \in Token
      PROVE  Lines(Append(x, c)) = Adds("Lines", Lines(x), c)
  <2>1. Append(x, c) \in Seq(Token)
    OBVIOUS
  <2>2. /\ GoesTo("Lines", x, LinesState, << <<>> >>, Lines(x))
        /\ GoesTo("Lines", Append(x, c), LinesState, << <<>> >>, Lines(Append(x, c)))
    BY <2>1, LinesGoes
  <2> HIDE DEF GoesTo
  <2> QED BY <2>2, GoesOn
<1> QED BY <1>1, <1>2, <1>3

----------------------------------------------------------------------------
(* Recursive functions *)

\* What is open after one more token.
NextOpen(before, c) ==
    IF before # "nothing" /\ c # Closer[before] THEN before
    ELSE IF before = "nothing" /\ c \in DOMAIN Closer THEN c
    ELSE "nothing"

\* The recursive functions of Session over the positions of p: the value at i
\* from the one before.
Turn(rec, p, i, x) ==
    CASE rec = "Opened" -> NextOpen(x, p[i])
      [] rec = "Selected" -> IF i \in p.S THEN Append(x, p.seq[i]) ELSE x
      [] rec = "Found" -> IF x < Len(p.done) /\ p.done[x + 1] = p.given[i] THEN x + 1 ELSE x
      [] rec = "Flat" -> x \o p[i]

Recurs(rec, p, n, base, f) ==
    f = [i \in 0..n |-> IF i = 0 THEN base ELSE Turn(rec, p, i, f[i - 1])]
RunsThrough(rec, p, n, St, base, f) ==
    /\ f \in [0..n -> St] /\ f[0] = base
    /\ \A i \in 1..n : f[i] = Turn(rec, p, i, f[i - 1])
Remains(rec, p, n, St) == \A i \in 1..n, x \in St : Turn(rec, p, i, x) \in St

LEMMA RecursionTrace ==
    ASSUME NEW rec, NEW p, NEW n \in Nat, NEW St, NEW base \in St, Remains(rec, p, n, St)
    PROVE  /\ \E f : Recurs(rec, p, n, base, f)
           /\ \A f : Recurs(rec, p, n, base, f) => RunsThrough(rec, p, n, St, base, f)
<1> DEFINE Wide(T) == [q \in (1..n) \X T |-> Turn(rec, p, q[1], q[2])]
<1>1. ASSUME NEW T, NEW i \in 1..n, NEW x \in T
      PROVE  Wide(T)[<<i, x>>] = Turn(rec, p, i, x)
  <2>1. <<i, x>> \in (1..n) \X T
    OBVIOUS
  <2> QED BY <2>1
<1> HIDE DEF Wide
<1>2. ASSUME NEW T, St \subseteq T PROVE Turns(n, St, Wide(T))
  <2> SUFFICES ASSUME NEW i \in 1..n, NEW x \in St PROVE Wide(T)[<<i, x>>] \in St
    BY DEF Turns
  <2>1. Wide(T)[<<i, x>>] = Turn(rec, p, i, x)
    BY <1>1, <1>2
  <2> QED BY <2>1 DEF Remains
<1>3. ASSUME NEW T, NEW f, \A i \in 0..n : f[i] \in T
      PROVE  Recursion(f, n, base, Wide(T)) <=> Recurs(rec, p, n, base, f)
  <2>1. ASSUME NEW i \in 0..n, i # 0 PROVE Wide(T)[<<i, f[i - 1]>>] = Turn(rec, p, i, f[i - 1])
    <3>1. i \in 1..n /\ i - 1 \in 0..n
      BY <2>1
    <3>2. f[i - 1] \in T
      BY <1>3, <3>1
    <3> QED BY <1>1, <3>1, <3>2
  <2>2. [i \in 0..n |-> IF i = 0 THEN base ELSE Wide(T)[<<i, f[i - 1]>>]]
         = [i \in 0..n |-> IF i = 0 THEN base ELSE Turn(rec, p, i, f[i - 1])]
    BY <2>1
  <2> QED BY <2>2 DEF Recursion, Recurs
<1>4. \E f : Recurs(rec, p, n, base, f)
  <2>1. Turns(n, St, Wide(St))
    BY <1>2
  <2>2. PICK f : Recursion(f, n, base, Wide(St))
    BY <2>1, RecursionIsTrace
  <2>3. f \in [0..n -> St]
    BY <2>1, <2>2, RecursionIsTrace
  <2>4. Recurs(rec, p, n, base, f)
    BY <1>3, <2>2, <2>3
  <2> QED BY <2>4
<1>5. ASSUME NEW f, Recurs(rec, p, n, base, f)
      PROVE  RunsThrough(rec, p, n, St, base, f)
  <2> DEFINE T == St \cup {f[i] : i \in 0..n}
  <2>1. St \subseteq T /\ \A i \in 0..n : f[i] \in T
    OBVIOUS
  <2> HIDE DEF T
  <2>2. Turns(n, St, Wide(T)) /\ Recursion(f, n, base, Wide(T))
    BY <1>2, <1>3, <1>5, <2>1
  <2>3. f \in [0..n -> St] /\ f[0] = base
    BY <2>2, RecursionIsTrace DEF IsTrace
  <2>4. ASSUME NEW i \in 1..n PROVE f[i] = Turn(rec, p, i, f[i - 1])
    <3>1. i \in 0..n /\ i # 0
      OBVIOUS
    <3> QED BY <1>5, <3>1 DEF Recurs
  <2> QED BY <2>3, <2>4 DEF RunsThrough
<1> QED BY <1>4, <1>5

\* What is open, token by token.
Opens == {"nothing", "'", "--", "/*"}

LEMMA NextOpens ==
    ASSUME NEW x \in Opens, NEW c
    PROVE  NextOpen(x, c) \in Opens
BY DEF NextOpen, Opens, Closer

LEMMA OpenedTrace ==
    ASSUME NEW text \in Text
    PROVE  /\ Opened(text) \in [0..Len(text) -> Opens] /\ Opened(text)[0] = "nothing"
           /\ \A i \in 1..Len(text) : Opened(text)[i] = NextOpen(Opened(text)[i - 1], text[i])
<1> DEFINE n == Len(text)
           Chosen(f) == f = [i \in 0..n |->
                IF i = 0 THEN "nothing"
                ELSE IF f[i - 1] # "nothing" /\ text[i] # Closer[f[i - 1]] THEN f[i - 1]
                     ELSE IF f[i - 1] = "nothing" /\ text[i] \in DOMAIN Closer THEN text[i]
                     ELSE "nothing"]
           F == CHOOSE f : Chosen(f)
<1>1. Opened(text) = F
  BY DEF Opened
<1>2. n \in Nat
  BY DEF Text
<1> HIDE DEF F, n
<1>3. ASSUME NEW f PROVE Chosen(f) <=> Recurs("Opened", text, n, "nothing", f)
  BY DEF Recurs, Turn, NextOpen
<1> HIDE DEF Chosen
<1>4. Remains("Opened", text, n, Opens)
  BY NextOpens DEF Remains, Turn
<1>5. "nothing" \in Opens
  BY DEF Opens
<1>6. Recurs("Opened", text, n, "nothing", F)
  <2>1. \E f : Chosen(f)
    BY <1>2, <1>3, <1>4, <1>5, RecursionTrace
  <2>2. Chosen(F)
    BY <2>1 DEF F
  <2> QED BY <1>3, <2>2
<1>7. /\ F \in [0..n -> Opens] /\ F[0] = "nothing"
      /\ \A i \in 1..n : F[i] = Turn("Opened", text, i, F[i - 1])
  <2>1. RunsThrough("Opened", text, n, Opens, "nothing", F)
    BY <1>2, <1>4, <1>5, <1>6, RecursionTrace
  <2> QED BY <2>1 DEF RunsThrough
<1>8. \A i \in 1..n : Turn("Opened", text, i, F[i - 1]) = NextOpen(F[i - 1], text[i])
  BY DEF Turn
<1> QED BY <1>1, <1>7, <1>8 DEF n

\* What is open after some tokens does not depend on the ones that follow.
LEMMA OpenedNext ==
    ASSUME NEW text \in Text, NEW c \in Token
    PROVE  /\ \A i \in 0..Len(text) : Opened(Append(text, c))[i] = Opened(text)[i]
           /\ Opened(Append(text, c))[Len(text) + 1] = NextOpen(Opened(text)[Len(text)], c)
<1> DEFINE n == Len(text)
           more == Append(text, c)
           f == Opened(text)
           g == Opened(more)
<1>1. /\ n \in Nat /\ more \in Text /\ Len(more) = n + 1
      /\ \A i \in 1..n : more[i] = text[i]
      /\ more[n + 1] = c
  BY DEF Text
<1>2. f[0] = "nothing" /\ \A i \in 1..n : f[i] = NextOpen(f[i - 1], text[i])
  BY OpenedTrace
<1>3. g[0] = "nothing" /\ \A i \in 1..n + 1 : g[i] = NextOpen(g[i - 1], more[i])
  BY <1>1, OpenedTrace
<1> DEFINE bad == {i \in 0..n : g[i] # f[i]}
<1> HIDE DEF n, more, f, g
<1>4. bad = {}
  <2>1. 0 \notin bad
    BY <1>2, <1>3
  <2>2. ASSUME NEW i \in 1..n, i - 1 \notin bad PROVE i \notin bad
    <3>1. i - 1 \in 0..n /\ i \in 1..n + 1
      BY <1>1
    <3>2. g[i - 1] = f[i - 1]
      BY <2>2, <3>1
    <3> QED BY <1>1, <1>2, <1>3, <3>1, <3>2
  <2>3. bad \in SUBSET (0..n)
    OBVIOUS
  <2> HIDE DEF bad
  <2> QED BY <1>1, <2>1, <2>2, <2>3, FirstBad
<1>5. n + 1 \in 1..n + 1 /\ (n + 1) - 1 = n /\ n \in 0..n
  BY <1>1
<1>6. \A i \in 0..n : g[i] = f[i]
  BY <1>4
<1>7. g[n + 1] = NextOpen(f[n], c)
  BY <1>1, <1>3, <1>5, <1>6
<1> QED BY <1>6, <1>7 DEF n, more, f, g

\* Selected, position by position.
SelectsTo(Item, seq, S, result) ==
    \E f \in [0..Len(seq) -> Seq(Item)] :
        /\ f[0] = <<>> /\ f[Len(seq)] = result
        /\ \A i \in 1..Len(seq) : f[i] = IF i \in S THEN Append(f[i - 1], seq[i]) ELSE f[i - 1]

LEMMA SelectedTrace ==
    ASSUME NEW Item, NEW seq \in Seq(Item), NEW S
    PROVE  SelectsTo(Item, seq, S, Selected(seq, S))
<1> DEFINE n == Len(seq)
           p == [seq |-> seq, S |-> S]
           Chosen(f) == f = [i \in 0..n |->
                IF i = 0 THEN <<>> ELSE IF i \in S THEN Append(f[i - 1], seq[i]) ELSE f[i - 1]]
           F == CHOOSE f : Chosen(f)
<1>1. Selected(seq, S) = F[n]
  BY DEF Selected
<1>2. n \in Nat /\ \A i \in 1..n : seq[i] \in Item
  OBVIOUS
<1>3. p.seq = seq /\ p.S = S
  OBVIOUS
<1> HIDE DEF F, n, p
<1>4. ASSUME NEW i, NEW x PROVE Turn("Selected", p, i, x) = IF i \in S THEN Append(x, seq[i]) ELSE x
  BY <1>3 DEF Turn
<1>5. ASSUME NEW f PROVE Chosen(f) <=> Recurs("Selected", p, n, <<>>, f)
  BY <1>4 DEF Recurs
<1> HIDE DEF Chosen
<1>6. Remains("Selected", p, n, Seq(Item))
  BY <1>2, <1>4, SMTT(30) DEF Remains
<1>7. <<>> \in Seq(Item)
  OBVIOUS
<1>8. Recurs("Selected", p, n, <<>>, F)
  <2>1. \E f : Chosen(f)
    BY <1>2, <1>5, <1>6, <1>7, RecursionTrace
  <2>2. Chosen(F)
    BY <2>1 DEF F
  <2> QED BY <1>5, <2>2
<1>9. /\ F \in [0..n -> Seq(Item)] /\ F[0] = <<>>
      /\ \A i \in 1..n : F[i] = Turn("Selected", p, i, F[i - 1])
  <2>1. RunsThrough("Selected", p, n, Seq(Item), <<>>, F)
    BY <1>2, <1>6, <1>7, <1>8, RecursionTrace
  <2> QED BY <2>1 DEF RunsThrough
<1>10. \A i \in 1..n : F[i] = IF i \in S THEN Append(F[i - 1], seq[i]) ELSE F[i - 1]
  BY <1>4, <1>9
<1> QED BY <1>1, <1>9, <1>10 DEF n, SelectsTo

\* The last element is selected or not.
LEMMA SelectedNext ==
    ASSUME NEW Item, NEW seq \in Seq(Item), NEW x \in Item, NEW S, NEW R,
           \A i \in 1..Len(seq) : i \in S <=> i \in R
    PROVE  Selected(Append(seq, x), R) =
               IF Len(seq) + 1 \in R THEN Append(Selected(seq, S), x) ELSE Selected(seq, S)
<1> DEFINE n == Len(seq)
           more == Append(seq, x)
<1>1. /\ n \in Nat /\ more \in Seq(Item) /\ Len(more) = n + 1
      /\ \A i \in 1..n : more[i] = seq[i]
      /\ more[n + 1] = x
  OBVIOUS
<1>2. PICK f \in [0..n -> Seq(Item)] :
          /\ f[0] = <<>> /\ f[n] = Selected(seq, S)
          /\ \A i \in 1..n : f[i] = IF i \in S THEN Append(f[i - 1], seq[i]) ELSE f[i - 1]
  <2>1. SelectsTo(Item, seq, S, Selected(seq, S))
    BY SelectedTrace
  <2> QED BY <2>1 DEF SelectsTo
<1> HIDE DEF n, more
<1>3. PICK g \in [0..n + 1 -> Seq(Item)] :
          /\ g[0] = <<>> /\ g[n + 1] = Selected(more, R)
          /\ \A i \in 1..n + 1 : g[i] = IF i \in R THEN Append(g[i - 1], more[i]) ELSE g[i - 1]
  <2>1. PICK g \in [0..Len(more) -> Seq(Item)] :
            /\ g[0] = <<>> /\ g[Len(more)] = Selected(more, R)
            /\ \A i \in 1..Len(more) : g[i] = IF i \in R THEN Append(g[i - 1], more[i]) ELSE g[i - 1]
    <3>1. SelectsTo(Item, more, R, Selected(more, R))
      BY <1>1, SelectedTrace
    <3> QED BY <3>1 DEF SelectsTo
  <2> QED BY <1>1, <2>1
<1> DEFINE bad == {i \in 0..n : g[i] # f[i]}
<1>4. bad = {}
  <2>1. 0 \notin bad
    BY <1>2, <1>3
  <2>2. ASSUME NEW i \in 1..n, i - 1 \notin bad PROVE i \notin bad
    <3>1. i - 1 \in 0..n /\ i \in 1..n + 1
      BY <1>1
    <3>2. g[i - 1] = f[i - 1]
      BY <2>2, <3>1
    <3>3. i \in S <=> i \in R
      BY DEF n
    <3> QED BY <1>1, <1>2, <1>3, <3>1, <3>2, <3>3
  <2>3. bad \in SUBSET (0..n)
    OBVIOUS
  <2> HIDE DEF bad
  <2> QED BY <1>1, <2>1, <2>2, <2>3, FirstBad
<1>5. n + 1 \in 1..n + 1 /\ (n + 1) - 1 = n /\ n \in 0..n
  BY <1>1
<1>6. g[n] = f[n]
  BY <1>4, <1>5
<1> QED BY <1>1, <1>2, <1>3, <1>5, <1>6 DEF n, more

LEMMA SelectedTyped ==
    ASSUME NEW Item, NEW seq \in Seq(Item), NEW S
    PROVE  Selected(seq, S) \in Seq(Item)
<1>1. Len(seq) \in 0..Len(seq)
  OBVIOUS
<1>2. SelectsTo(Item, seq, S, Selected(seq, S))
  BY SelectedTrace
<1> QED BY <1>1, <1>2 DEF SelectsTo

LEMMA SelectedNone == \A S : Selected(<<>>, S) = <<>>
<1> TAKE S
<1> DEFINE none == <<>>
<1>1. none \in Seq({}) /\ Len(none) = 0
  OBVIOUS
<1>2. PICK f \in [0..Len(none) -> Seq({})] : f[0] = <<>> /\ f[Len(none)] = Selected(none, S)
  <2> HIDE DEF none
  <2>1. SelectsTo({}, none, S, Selected(none, S))
    BY <1>1, SelectedTrace
  <2> QED BY <2>1 DEF SelectsTo
<1> QED BY <1>1, <1>2

----------------------------------------------------------------------------
(* What is executed is among what was given *)

\* The tokens of d are, in their order, among the first m of a.
Among(d, a, m) ==
    \E e \in [1..Len(d) -> 1..m] :
        /\ \A i, j \in 1..Len(d) : i < j => e[i] < e[j]
        /\ \A i \in 1..Len(d) : a[e[i]] = d[i]

LEMMA AmongNothing ==
    ASSUME NEW a, NEW m \in Nat
    PROVE  Among(<<>>, a, m)
<1>1. Len(<<>>) = 0 /\ 1..0 = {}
  OBVIOUS
<1>2. [i \in 1..0 |-> 0] \in [1..0 -> 1..m]
  OBVIOUS
<1> QED BY <1>1, <1>2 DEF Among

LEMMA AmongNext ==
    ASSUME NEW d \in Text, NEW a \in Text, NEW c \in Token, NEW m \in Nat, Among(d, a, m),
           a[m + 1] = c
    PROVE  Among(Append(d, c), a, m + 1)
<1> DEFINE n == Len(d)
           more == Append(d, c)
<1>1. n \in Nat /\ Len(more) = n + 1 /\ more[n + 1] = c /\ \A i \in 1..n : more[i] = d[i]
  BY DEF Text
<1> HIDE DEF n, more
<1>2. PICK e \in [1..n -> 1..m] : /\ \A i, j \in 1..n : i < j => e[i] < e[j]
                                  /\ \A i \in 1..n : a[e[i]] = d[i]
  BY DEF Among, n
<1> DEFINE f == [i \in 1..n + 1 |-> IF i = n + 1 THEN m + 1 ELSE e[i]]
<1>3. \A i \in 1..n + 1 : i # n + 1 => i \in 1..n
  BY <1>1
<1>4. f \in [1..n + 1 -> 1..m + 1]
  <2>1. \A i \in 1..n : e[i] \in 1..m + 1
    BY <1>2
  <2> QED BY <1>3, <2>1
<1>5. ASSUME NEW i \in 1..n + 1, NEW j \in 1..n + 1, i < j PROVE f[i] < f[j]
  <2>1. i \in 1..n /\ f[i] = e[i] /\ e[i] \in 1..m
    BY <1>1, <1>2, <1>3, <1>5
  <2>2. CASE j = n + 1
    BY <2>1, <2>2
  <2>3. CASE j # n + 1
    BY <1>2, <1>3, <1>5, <2>1, <2>3
  <2> QED BY <2>2, <2>3
<1>6. ASSUME NEW i \in 1..n + 1 PROVE a[f[i]] = more[i]
  BY <1>1, <1>2, <1>3, <1>6
<1> HIDE DEF f
<1>7. \E g \in [1..Len(more) -> 1..m + 1] :
          /\ \A i, j \in 1..Len(more) : i < j => g[i] < g[j]
          /\ \A i \in 1..Len(more) : a[g[i]] = more[i]
  BY <1>1, <1>4, <1>5, <1>6
<1> QED BY <1>7 DEF Among, more

LEMMA AmongMore ==
    ASSUME NEW d, NEW a, NEW b, NEW m \in Nat, NEW n \in Nat, Among(d, a, m), m <= n,
           \A i \in 1..m : a[i] = b[i]
    PROVE  Among(d, b, n)
<1>1. PICK e \in [1..Len(d) -> 1..m] : /\ \A i, j \in 1..Len(d) : i < j => e[i] < e[j]
                                       /\ \A i \in 1..Len(d) : a[e[i]] = d[i]
  BY DEF Among
<1>2. e \in [1..Len(d) -> 1..n]
  BY <1>1
<1>3. \A i \in 1..Len(d) : b[e[i]] = d[i]
  BY <1>1
<1> QED BY <1>1, <1>2, <1>3 DEF Among

LEMMA AmongPrefix ==
    ASSUME NEW d \in Text, NEW c \in Text, NEW a, NEW m \in Nat, Among(d \o c, a, m)
    PROVE  Among(d, a, m)
<1> DEFINE n == Len(d)
           k == Len(d \o c)
<1>1. n \in Nat /\ k \in Nat /\ n <= k /\ \A i \in 1..n : i \in 1..k /\ (d \o c)[i] = d[i]
  BY DEF Text
<1> HIDE DEF n, k
<1>2. PICK e \in [1..k -> 1..m] : /\ \A i, j \in 1..k : i < j => e[i] < e[j]
                                  /\ \A i \in 1..k : a[e[i]] = (d \o c)[i]
  BY DEF Among, k
<1> DEFINE f == [i \in 1..n |-> e[i]]
<1>3. f \in [1..n -> 1..m]
  BY <1>1, <1>2
<1>4. \A i, j \in 1..n : i < j => f[i] < f[j]
  BY <1>1, <1>2
<1>5. \A i \in 1..n : a[f[i]] = d[i]
  BY <1>1, <1>2
<1> QED BY <1>3, <1>4, <1>5 DEF Among, n

LEMMA AmongConcat ==
    ASSUME NEW d \in Text, NEW c \in Text, NEW a \in Text, NEW b \in Text,
           Among(d, a, Len(a)), Among(c, b, Len(b))
    PROVE  Among(d \o c, a \o b, Len(a \o b))
<1> DEFINE n == Len(d)
           k == Len(c)
           p == Len(a)
           q == Len(b)
           dc == d \o c
           ab == a \o b
<1>1. n \in Nat /\ k \in Nat /\ p \in Nat /\ q \in Nat /\ Len(dc) = n + k /\ Len(ab) = p + q
  BY DEF Text
<1>2. /\ \A i \in 1..n : dc[i] = d[i]
      /\ \A i \in 1..k : dc[n + i] = c[i]
      /\ \A i \in 1..p : ab[i] = a[i]
      /\ \A i \in 1..q : ab[p + i] = b[i]
  BY DEF Text
<1>3. PICK e \in [1..n -> 1..p] : /\ \A i, j \in 1..n : i < j => e[i] < e[j]
                                  /\ \A i \in 1..n : a[e[i]] = d[i]
  BY DEF Among
<1>4. PICK f \in [1..k -> 1..q] : /\ \A i, j \in 1..k : i < j => f[i] < f[j]
                                  /\ \A i \in 1..k : b[f[i]] = c[i]
  BY DEF Among
<1> HIDE DEF n, k, p, q, dc, ab
<1> DEFINE g == [i \in 1..n + k |-> IF i <= n THEN e[i] ELSE p + f[i - n]]
<1>5. ASSUME NEW i \in 1..n + k
      PROVE  \/ i \in 1..n /\ i <= n /\ g[i] = e[i] /\ e[i] \in 1..p
             \/ ~(i <= n) /\ i - n \in 1..k /\ g[i] = p + f[i - n] /\ f[i - n] \in 1..q
  BY <1>1, <1>3, <1>4
<1>6. ASSUME NEW i \in 1..n + k PROVE g[i] \in 1..p + q
  <2> HIDE DEF g
  <2>1. CASE g[i] = e[i] /\ e[i] \in 1..p
    BY <1>1, <2>1
  <2>2. CASE g[i] = p + f[i - n] /\ f[i - n] \in 1..q
    <3>1. PICK x \in 1..q : x = f[i - n]
      BY <2>2
    <3> QED BY <1>1, <2>2, <3>1, SMTT(30)
  <2> QED BY <1>5, <2>1, <2>2
<1>7. g \in [1..n + k -> 1..p + q]
  BY <1>6
<1>8. ASSUME NEW i \in 1..n + k, NEW j \in 1..n + k, i < j PROVE g[i] < g[j]
  <2> HIDE DEF g
  <2>1. CASE j <= n
    BY <1>1, <1>3, <1>5, <1>8, <2>1
  <2>2. CASE ~(j <= n) /\ i <= n
    BY <1>1, <1>5, <1>8, <2>2
  <2>3. CASE ~(i <= n)
    <3>1. i - n \in 1..k /\ j - n \in 1..k /\ i - n < j - n
      BY <1>1, <1>5, <1>8, <2>3
    <3>2. f[i - n] < f[j - n] /\ f[i - n] \in 1..q /\ f[j - n] \in 1..q
      BY <1>4, <3>1
    <3>3. g[i] = p + f[i - n] /\ g[j] = p + f[j - n]
      BY <1>1, <1>5, <1>8, <2>3
    <3>4. PICK x \in 1..q, y \in 1..q : x = f[i - n] /\ y = f[j - n]
      BY <3>2
    <3>5. x < y /\ g[i] = p + x /\ g[j] = p + y
      BY <3>2, <3>3, <3>4
    <3>6. p + x < p + y
      BY <1>1, <3>5
    <3> QED BY <3>5, <3>6
  <2> QED BY <2>1, <2>2, <2>3
<1>9. ASSUME NEW i \in 1..n + k PROVE ab[g[i]] = dc[i]
  <2> HIDE DEF g
  <2>1. CASE i \in 1..n /\ g[i] = e[i] /\ e[i] \in 1..p
    BY <1>2, <1>3, <2>1
  <2>2. CASE i - n \in 1..k /\ g[i] = p + f[i - n] /\ f[i - n] \in 1..q
    <3>1. n + (i - n) = i
      BY <1>1
    <3>2. dc[i] = c[i - n]
      BY <1>2, <2>2, <3>1
    <3> QED BY <1>2, <1>4, <2>2, <3>2
  <2> QED BY <1>5, <2>1, <2>2
<1> HIDE DEF g
<1>10. \E h \in [1..Len(dc) -> 1..Len(ab)] :
           /\ \A i, j \in 1..Len(dc) : i < j => h[i] < h[j]
           /\ \A i \in 1..Len(dc) : ab[h[i]] = dc[i]
  BY <1>1, <1>7, <1>8, <1>9
<1> QED BY <1>10 DEF Among, dc, ab

\* The greedy search of RunsOnceInOrder finds what is there.
LEMMA FoundAmong ==
    ASSUME NEW d \in Text, NEW a \in Text, NEW F,
           RunsThrough("Found", [done |-> d, given |-> a], Len(a), 0..Len(d), 0, F),
           Among(d, a, Len(a))
    PROVE  F[Len(a)] = Len(d)
<1> DEFINE n == Len(a)
           k == Len(d)
           p == [done |-> d, given |-> a]
<1>1. n \in Nat /\ k \in Nat
  BY DEF Text
<1>2. /\ F \in [0..n -> 0..k] /\ F[0] = 0
      /\ \A i \in 1..n : F[i] = IF F[i - 1] < k /\ d[F[i - 1] + 1] = a[i] THEN F[i - 1] + 1 ELSE F[i - 1]
  BY DEF RunsThrough, Turn
<1>3. PICK e \in [1..k -> 1..n] : /\ \A i, j \in 1..k : i < j => e[i] < e[j]
                                  /\ \A i \in 1..k : a[e[i]] = d[i]
  BY DEF Among
<1> HIDE DEF n, k, p
<1> DEFINE bad == {i \in 0..n : \E j \in 1..k : e[j] <= i /\ F[i] < j}
<1>4. 0 \notin bad
  BY <1>1, <1>3
<1>5. ASSUME NEW i \in 1..n, i - 1 \notin bad PROVE i \notin bad
  <2> SUFFICES ASSUME NEW j \in 1..k, e[j] <= i PROVE F[i] >= j
    <3>1. F[i] \in 0..k
      BY <1>1, <1>2
    <3> QED BY <1>1, <3>1
  <2>1. i - 1 \in 0..n /\ F[i - 1] \in 0..k /\ F[i] \in 0..k /\ e[j] \in 1..n
    BY <1>1, <1>2, <1>3, SMTT(30)
  <2>2. \A l \in 1..k : e[l] <= i - 1 => F[i - 1] >= l
    BY <1>1, <1>5, <2>1
  <2>3. F[i] = IF F[i - 1] < k /\ d[F[i - 1] + 1] = a[i] THEN F[i - 1] + 1 ELSE F[i - 1]
    BY <1>2
  <2> HIDE DEF bad
  <2>4. CASE F[i - 1] >= j
    BY <1>1, <2>1, <2>3, <2>4, SMTT(30)
  <2>5. CASE ~(F[i - 1] >= j)
    <3>1. e[j] = i
      <4>1. ~(e[j] <= i - 1)
        BY <2>2, <2>5
      <4> QED BY <1>1, <2>1, <4>1
    <3>2. F[i - 1] >= j - 1
      <4>1. CASE j = 1
        BY <2>1, <4>1
      <4>2. CASE j # 1
        <5>1. j - 1 \in 1..k /\ j - 1 < j
          BY <1>1, <4>2
        <5>2. e[j - 1] < e[j] /\ e[j - 1] \in 1..n
          BY <1>3, <5>1
        <5>3. e[j - 1] <= i - 1
          BY <1>1, <2>1, <3>1, <5>2
        <5> QED BY <2>2, <5>1, <5>3
      <4> QED BY <4>1, <4>2
    <3>3. F[i - 1] + 1 = j /\ F[i - 1] < k
      BY <1>1, <2>1, <2>5, <3>2
    <3>4. a[i] = d[j]
      BY <1>3, <3>1
    <3> QED BY <1>1, <2>1, <2>3, <3>3, <3>4
  <2> QED BY <2>4, <2>5
<1>6. bad = {}
  <2>1. bad \in SUBSET (0..n)
    OBVIOUS
  <2> HIDE DEF bad
  <2> QED BY <1>1, <1>4, <1>5, <2>1, FirstBad
<1>7. n \in 0..n /\ F[n] \in 0..k
  BY <1>1, <1>2
<1>8. CASE k = 0
  BY <1>7, <1>8 DEF n, k
<1>9. CASE k # 0
  <2>1. k \in 1..k /\ e[k] <= n
    BY <1>1, <1>3, <1>9
  <2>2. ~(F[n] < k)
    BY <1>6, <1>7, <2>1
  <2> HIDE DEF bad
  <2>3. F[n] = k
    BY <1>1, <1>7, <2>2
  <2> QED BY <2>3 DEF n, k
<1> QED BY <1>8, <1>9

\* The splitter drops a token, adds it to the statement, or ends the statement.
LEMMA SplitCases ==
    ASSUME NEW s \in ScanState, NEW c \in Token
    PROVE  LET t == SplitToken(s, c) IN
           \/ t.done = s.done /\ t.text \in {s.text, Append(s.text, c)}
           \/ t.text = <<>> /\ t.done = IF s.text = <<>> THEN s.done ELSE Append(s.done, s.text)
<1>1. /\ s.in \in Places
      /\ s = [in |-> s.in, text |-> s.text, done |-> s.done]
  BY DEF ScanState
<1>2. CASE s.in = "line comment"
  BY <1>1, <1>2 DEF SplitToken, ScanState, Places, Outside
<1>3. CASE s.in = "block comment"
  BY <1>1, <1>3 DEF SplitToken, ScanState, Places, Outside
<1>4. CASE s.in = "string"
  BY <1>1, <1>4 DEF SplitToken, ScanState, Places, Outside
<1>5. CASE s.in = Outside
  <2>1. CASE c = ";"
    BY BlankIsNone, <1>1, <1>5, <2>1 DEF SplitToken, ScanState, Places, Outside, BeginComment, NL
  <2>2. CASE c = "'"
    BY <1>1, <1>5, <2>2 DEF SplitToken, ScanState, Places, Outside, BeginComment, NL
  <2>3. CASE c = "--"
    BY <1>1, <1>5, <2>3 DEF SplitToken, ScanState, Places, Outside, BeginComment, NL
  <2>4. CASE c = "/*"
    BY <1>1, <1>5, <2>4 DEF SplitToken, ScanState, Places, Outside, BeginComment, NL
  <2>5. CASE c \in {NL, Blank}
    BY BlankIsNone, <1>1, <1>5, <2>5 DEF SplitToken, ScanState, Places, Outside, BeginComment, NL
  <2>6. CASE c \notin {";", "'", "--", "/*", NL, Blank}
    BY <1>1, <1>5, <2>6 DEF SplitToken, ScanState, Places, Outside, BeginComment, NL
  <2> QED BY <2>1, <2>2, <2>3, <2>4, <2>5, <2>6
<1> QED BY <1>1, <1>2, <1>3, <1>4, <1>5 DEF Places

\* All the splitter has kept is among the text.
LEMMA ScanAmong ==
    ASSUME NEW text \in Text
    PROVE  Among(FlattenSeq(Scan(text).done) \o Scan(text).text, text, Len(text))
<1> DEFINE Kept(s) == FlattenSeq(s.done) \o s.text
           X == {x \in Text : Among(Kept(Scan(x)), x, Len(x))}
<1>1. ASSUME NEW s \in ScanState
      PROVE  s.text \in Text /\ s.done \in Seq(Text) /\ FlattenSeq(s.done) \in Text /\ Kept(s) \in Text
  <2>1. s.text \in Text /\ s.done \in Seq(Statement) /\ Statement \subseteq Text
    BY DEF ScanState, Statement
  <2>2. s.done \in Seq(Text)
    BY <2>1, SeqMonotonic
  <2>3. FlattenSeq(s.done) \in Text
    BY <2>2, FlatTyped DEF Text
  <2> QED BY <2>1, <2>2, <2>3, ConcatProperties DEF Text
<1>2. ASSUME NEW s \in ScanState, NEW c \in Token
      PROVE  Kept(SplitToken(s, c)) \in {Kept(s), Append(Kept(s), c)}
  <2> DEFINE t == SplitToken(s, c)
  <2>1. CASE t.done = s.done /\ t.text = s.text
    BY <2>1
  <2>2. CASE t.done = s.done /\ t.text = Append(s.text, c)
    <3>1. PICK f \in Text, x \in Text : f = FlattenSeq(s.done) /\ x = s.text
      BY <1>1
    <3>2. f \o Append(x, c) = Append(f \o x, c)
      BY DEF Text
    <3> QED BY <2>2, <3>1, <3>2
  <2>3. CASE t.text = <<>> /\ t.done = IF s.text = <<>> THEN s.done ELSE Append(s.done, s.text)
    <3>1. CASE s.text = <<>>
      BY <2>3, <3>1
    <3>2. CASE s.text # <<>>
      <4>1. FlattenSeq(t.done) = FlattenSeq(s.done) \o s.text
        BY <1>1, <2>3, <3>2, FlatNext DEF Text
      <4>2. Kept(t) = Kept(s) \o <<>>
        BY <2>3, <4>1
      <4> HIDE DEF Kept
      <4>3. Kept(s) \in Seq(Token)
        BY <1>1 DEF Text
      <4> QED BY <4>2, <4>3, ConcatEmptySeq
    <3> QED BY <3>1, <3>2
  <2> QED BY <2>1, <2>2, <2>3, SplitCases
<1>3. <<>> \in X
  <2>1. Scan(<<>>) = ScanStart /\ Len(<<>>) = 0 /\ <<>> \in Text
    BY ScanNext DEF Text
  <2>2. Kept(ScanStart) = <<>>
    <3>1. ScanStart.done = <<>> /\ ScanStart.text = <<>>
      BY DEF ScanStart
    <3>2. Kept(ScanStart) = <<>> \o <<>>
      BY <3>1, FlatNone
    <3>3. <<>> \o <<>> = <<>>
      BY <2>1, ConcatEmptySeq DEF Text
    <3> QED BY <3>2, <3>3
  <2> HIDE DEF Kept
  <2>3. Among(<<>>, <<>>, 0)
    BY AmongNothing
  <2> QED BY <2>1, <2>2, <2>3
<1>4. ASSUME NEW x \in X, NEW c \in Token PROVE Append(x, c) \in X
  <2>1. /\ x \in Text /\ Append(x, c) \in Text /\ Len(x) \in Nat /\ Len(Append(x, c)) = Len(x) + 1
        /\ Append(x, c)[Len(x) + 1] = c /\ \A i \in 1..Len(x) : x[i] = Append(x, c)[i]
    BY DEF Text
  <2>2. Scan(x) \in ScanState /\ Scan(Append(x, c)) = SplitToken(Scan(x), c)
    <3>1. Adds("Scan", Scan(x), c) = SplitToken(Scan(x), c)
      BY DEF Adds
    <3> QED BY <2>1, <3>1, ScanNext DEF Text
  <2>3. Kept(Scan(x)) \in Text
    BY <1>1, <2>2
  <2>4. Kept(Scan(Append(x, c))) \in {Kept(Scan(x)), Append(Kept(Scan(x)), c)}
    BY <1>2, <2>2
  <2>5. Among(Kept(Scan(x)), x, Len(x))
    OBVIOUS
  <2> DEFINE k == Kept(Scan(x))
             n == Len(x)
             y == Append(x, c)
  <2> HIDE DEF Kept, k, n, y
  <2>9. n \in Nat /\ n + 1 \in Nat /\ n <= n /\ n <= n + 1
    BY <2>1 DEF n
  <2>10. Among(k, x, n) /\ \A i \in 1..n : x[i] = y[i]
    BY <2>1, <2>5 DEF k, n, y
  <2>6. Among(k, y, n)
    BY <2>9, <2>10, AmongMore
  <2>7. Among(k, y, n + 1)
    BY <2>9, <2>10, AmongMore
  <2>8. Among(Append(k, c), y, n + 1)
    BY <2>1, <2>3, <2>6, AmongNext DEF k, n, y
  <2> QED BY <2>1, <2>4, <2>7, <2>8 DEF k, n, y
<1>5. X = Text
  <2>1. X \in SUBSET Text
    OBVIOUS
  <2> HIDE DEF X
  <2> QED BY <1>3, <1>4, <2>1, Appending DEF Text
<1> QED BY <1>5

LEMMA StatementsTyped ==
    ASSUME NEW text \in Text
    PROVE  Statements(text) \in Seq(Statement) /\ Statements(text) \in Seq(Text)
<1> DEFINE s == Scan(text)
<1>1. s \in ScanState
  BY ScanNext DEF Text
<1>2. s.text \in Text /\ s.done \in Seq(Statement) /\ (s.text # <<>> => s.text \in Statement)
  BY <1>1 DEF ScanState, Statement
<1>3. Statements(text) = IF s.text = <<>> THEN s.done ELSE Append(s.done, s.text)
  BY DEF Statements
<1> HIDE DEF s
<1>4. Statements(text) \in Seq(Statement)
  BY <1>2, <1>3
<1>5. Statement \subseteq Text
  BY DEF Statement
<1> QED BY <1>4, <1>5, SeqMonotonic

\* The statements of a text are among it.
LEMMA StatementsAmong ==
    ASSUME NEW text \in Text
    PROVE  Among(FlattenSeq(Statements(text)), text, Len(text))
<1> DEFINE s == Scan(text)
<1>1. s \in ScanState
  BY ScanNext DEF Text
<1>2. s.text \in Text /\ s.done \in Seq(Statement) /\ Statement \subseteq Text
  BY <1>1 DEF ScanState, Statement
<1>3. s.done \in Seq(Text)
  BY <1>2, SeqMonotonic
<1>4. Statements(text) = IF s.text = <<>> THEN s.done ELSE Append(s.done, s.text)
  BY DEF Statements
<1>5. Among(FlattenSeq(s.done) \o s.text, text, Len(text))
  BY ScanAmong
<1> HIDE DEF s
<1>6. FlattenSeq(s.done) \in Seq(Token)
  BY <1>3, FlatTyped DEF Text
<1>7. CASE s.text = <<>>
  <2>1. FlattenSeq(s.done) \o s.text = FlattenSeq(s.done)
    BY <1>6, <1>7, ConcatEmptySeq
  <2> QED BY <1>4, <1>5, <1>7, <2>1
<1>8. CASE s.text # <<>>
  <2>1. FlattenSeq(Statements(text)) = FlattenSeq(s.done) \o s.text
    BY <1>2, <1>3, <1>4, <1>8, FlatNext DEF Text
  <2> QED BY <1>5, <2>1
<1> QED BY <1>7, <1>8

----------------------------------------------------------------------------
(* Both scanners against the reference *)

\* Where the scanners are, by what is open.
PlaceOf(o) == CASE o = "nothing" -> Outside
                [] o = "'" -> "string"
                [] o = "--" -> "line comment"
                [] o = "/*" -> "block comment"

OpenAt(text) == Opened(text)[Len(text)]

\* A token after which a statement ends, and one that belongs to a statement.
EndsHere(o, c) == c = ";" /\ o = "nothing"
StatedHere(o, c) == o = "'" \/ (o = "nothing" /\ c \notin {";", "--", "/*", NL, Blank})

LEMMA OpenAtNext ==
    /\ OpenAt(<<>>) = "nothing"
    /\ \A x \in Text : OpenAt(x) \in Opens
    /\ \A x \in Text, c \in Token : OpenAt(Append(x, c)) = NextOpen(OpenAt(x), c)
<1>1. OpenAt(<<>>) = "nothing"
  <2>1. <<>> \in Text /\ Len(<<>>) = 0
    BY DEF Text
  <2> QED BY <2>1, OpenedTrace DEF OpenAt
<1>2. ASSUME NEW x \in Text PROVE OpenAt(x) \in Opens
  <2>1. Len(x) \in 0..Len(x)
    BY DEF Text
  <2> QED BY <2>1, OpenedTrace DEF OpenAt
<1>3. ASSUME NEW x \in Text, NEW c \in Token PROVE OpenAt(Append(x, c)) = NextOpen(OpenAt(x), c)
  <2>1. Len(Append(x, c)) = Len(x) + 1
    BY DEF Text
  <2> QED BY <2>1, OpenedNext DEF OpenAt
<1> QED BY <1>1, <1>2, <1>3

\* A token adds at most its own position to the ends and to what is stated.
LEMMA EndsNext ==
    ASSUME NEW x \in Text, NEW c \in Token
    PROVE  /\ Ends(x) \subseteq 1..Len(x)
           /\ \A i \in 1..Len(x) : i \in Ends(Append(x, c)) <=> i \in Ends(x)
           /\ Len(x) + 1 \in Ends(Append(x, c)) <=> EndsHere(OpenAt(x), c)
           /\ Ends(Append(x, c)) \subseteq 1..Len(x) + 1
<1> DEFINE n == Len(x)
           y == Append(x, c)
           f == Opened(x)
           g == Opened(y)
<1>1. /\ n \in Nat /\ y \in Text /\ Len(y) = n + 1 /\ DOMAIN x = 1..n /\ DOMAIN y = 1..n + 1
      /\ \A i \in 1..n : y[i] = x[i]
      /\ y[n + 1] = c
  BY DEF Text
<1>2. \A i \in 0..n : g[i] = f[i]
  BY OpenedNext
<1>3. Ends(x) = {i \in 1..n : x[i] = ";" /\ f[i - 1] = "nothing"}
  BY <1>1 DEF Ends
<1>4. Ends(y) = {i \in 1..n + 1 : y[i] = ";" /\ g[i - 1] = "nothing"}
  BY <1>1 DEF Ends
<1>5. OpenAt(x) = f[n]
  BY DEF OpenAt
<1> HIDE DEF n, y, f, g
<1>6. ASSUME NEW i \in 1..n PROVE i \in Ends(y) <=> i \in Ends(x)
  <2>1. i - 1 \in 0..n /\ i \in 1..n + 1
    BY <1>1
  <2>2. g[i - 1] = f[i - 1] /\ y[i] = x[i]
    BY <1>1, <1>2, <2>1
  <2> QED BY <1>3, <1>4, <2>1, <2>2
<1>7. n + 1 \in Ends(y) <=> EndsHere(OpenAt(x), c)
  <2>1. n + 1 \in 1..n + 1 /\ (n + 1) - 1 = n /\ n \in 0..n
    BY <1>1
  <2>2. g[n] = f[n] /\ y[n + 1] = c
    BY <1>1, <1>2, <2>1
  <2> QED BY <1>4, <1>5, <2>1, <2>2 DEF EndsHere
<1>8. Ends(x) \subseteq 1..n /\ Ends(y) \subseteq 1..n + 1
  BY <1>3, <1>4
<1> QED BY <1>6, <1>7, <1>8 DEF n, y

LEMMA StatedNext ==
    ASSUME NEW x \in Text, NEW c \in Token
    PROVE  /\ \A i \in 1..Len(x) : i \in Stated(Append(x, c)) <=> i \in Stated(x)
           /\ Len(x) + 1 \in Stated(Append(x, c)) <=> StatedHere(OpenAt(x), c)
<1> DEFINE n == Len(x)
           y == Append(x, c)
           f == Opened(x)
           g == Opened(y)
<1>1. /\ n \in Nat /\ y \in Text /\ Len(y) = n + 1 /\ DOMAIN x = 1..n /\ DOMAIN y = 1..n + 1
      /\ \A i \in 1..n : y[i] = x[i]
      /\ y[n + 1] = c
  BY DEF Text
<1>2. \A i \in 0..n : g[i] = f[i]
  BY OpenedNext
<1>3. Stated(x) = {i \in 1..n : StatedHere(f[i - 1], x[i])}
  BY <1>1 DEF Stated, StatedHere
<1>4. Stated(y) = {i \in 1..n + 1 : StatedHere(g[i - 1], y[i])}
  BY <1>1 DEF Stated, StatedHere
<1>5. OpenAt(x) = f[n]
  BY DEF OpenAt
<1> HIDE DEF n, y, f, g
<1>6. ASSUME NEW i \in 1..n PROVE i \in Stated(y) <=> i \in Stated(x)
  <2>1. i - 1 \in 0..n /\ i \in 1..n + 1
    BY <1>1
  <2>2. g[i - 1] = f[i - 1] /\ y[i] = x[i]
    BY <1>1, <1>2, <2>1
  <2> QED BY <1>3, <1>4, <2>1, <2>2
<1>7. n + 1 \in Stated(y) <=> StatedHere(OpenAt(x), c)
  <2>1. n + 1 \in 1..n + 1 /\ (n + 1) - 1 = n /\ n \in 0..n
    BY <1>1
  <2>2. g[n] = f[n] /\ y[n + 1] = c
    BY <1>1, <1>2, <2>1
  <2> QED BY <1>4, <1>5, <2>1, <2>2
<1> QED BY <1>6, <1>7 DEF n, y

\* The terminator scanner: found once a statement has ended, and at the place
\* of what is open before.
LEMMA TerminatorPlace ==
    ASSUME NEW text \in Text
    PROVE  TerminatorOf(text) = IF Ends(text) # {} THEN "found" ELSE PlaceOf(OpenAt(text))
<1> DEFINE Value(x) == IF Ends(x) # {} THEN "found" ELSE PlaceOf(OpenAt(x))
           X == {x \in Text : TerminatorOf(x) = Value(x)}
<1>1. <<>> \in X
  <2>1. <<>> \in Text /\ Ends(<<>>) = {}
    BY DEF Text, Ends
  <2>2. TerminatorOf(<<>>) = Outside /\ OpenAt(<<>>) = "nothing"
    BY TerminatorNext, OpenAtNext
  <2> QED BY <2>1, <2>2 DEF PlaceOf
<1>2. ASSUME NEW x \in X, NEW c \in Token PROVE Append(x, c) \in X
  <2> DEFINE y == Append(x, c)
             o == OpenAt(x)
  <2>1. x \in Text /\ y \in Text /\ Len(x) \in Nat
    BY DEF Text
  <2>2. TerminatorOf(y) = TerminatorToken(TerminatorOf(x), c)
    <3>1. \A s : Adds("Terminator", s, c) = TerminatorToken(s, c)
      BY DEF Adds
    <3> QED BY <2>1, <3>1, TerminatorNext DEF Text
  <2>3. TerminatorOf(x) = Value(x)
    OBVIOUS
  <2>4. o \in Opens /\ OpenAt(y) = NextOpen(o, c)
    BY <2>1, OpenAtNext
  <2>5. Ends(y) = {} <=> Ends(x) = {} /\ ~EndsHere(o, c)
    <3>1. Len(x) + 1 \in 1..Len(x) + 1 /\ \A i \in 1..Len(x) + 1 : i \in 1..Len(x) \/ i = Len(x) + 1
      BY <2>1
    <3> QED BY <2>1, <3>1, EndsNext
  <2> HIDE DEF y, o, X
  <2>6. CASE Ends(x) # {}
    <3>1. TerminatorOf(x) = "found" /\ Ends(y) # {}
      BY <2>3, <2>5, <2>6
    <3>2. TerminatorToken("found", c) = "found"
      BY DEF TerminatorToken, Outside
    <3>3. TerminatorOf(y) = Value(y)
      BY <2>2, <3>1, <3>2
    <3> QED BY <2>1, <3>3 DEF X, y
  <2>7. CASE Ends(x) = {} /\ EndsHere(o, c)
    <3>1. TerminatorOf(x) = Outside /\ Ends(y) # {} /\ c = ";"
      BY <2>3, <2>5, <2>7 DEF EndsHere, PlaceOf, o
    <3>2. TerminatorToken(Outside, ";") = "found"
      BY DEF TerminatorToken, Outside
    <3>3. TerminatorOf(y) = Value(y)
      BY <2>2, <3>1, <3>2
    <3> QED BY <2>1, <3>3 DEF X, y
  <2>8. CASE Ends(x) = {} /\ ~EndsHere(o, c)
    <3>1. TerminatorOf(x) = PlaceOf(o) /\ Value(y) = PlaceOf(NextOpen(o, c))
      BY <2>3, <2>4, <2>5, <2>8 DEF o
    <3>2. TerminatorToken(PlaceOf(o), c) = PlaceOf(NextOpen(o, c))
      <4>1. CASE o = "nothing"
        BY <2>8, <4>1 DEF TerminatorToken, PlaceOf, Outside, NextOpen, Closer, EndsHere, NL
      <4>2. CASE o = "'"
        BY <4>2 DEF TerminatorToken, PlaceOf, Outside, NextOpen, Closer, NL
      <4>3. CASE o = "--"
        BY <4>3 DEF TerminatorToken, PlaceOf, Outside, NextOpen, Closer, NL
      <4>4. CASE o = "/*"
        BY <4>4 DEF TerminatorToken, PlaceOf, Outside, NextOpen, Closer, NL
      <4> QED BY <2>4, <4>1, <4>2, <4>3, <4>4 DEF Opens
    <3>3. TerminatorOf(y) = Value(y)
      BY <2>2, <3>1, <3>2
    <3> QED BY <2>1, <3>3 DEF X, y
  <2> QED BY <2>6, <2>7, <2>8
<1>3. X = Text
  <2>1. X \in SUBSET Text
    OBVIOUS
  <2> HIDE DEF X
  <2> QED BY <1>1, <1>2, <2>1, Appending DEF Text
<1> QED BY <1>3

\* A line completes a statement when the reference says so.
LEMMA TerminatorIsEnd ==
    ASSUME NEW text \in Text
    PROVE  ContainsStatementTerminator(text) <=> Ends(text) # {}
<1>1. ContainsStatementTerminator(text) <=> TerminatorOf(text) = "found"
  BY DEF ContainsStatementTerminator, TerminatorOf
<1>2. PlaceOf(OpenAt(text)) # "found"
  <2>1. OpenAt(text) \in Opens
    BY OpenAtNext
  <2> QED BY <2>1 DEF PlaceOf, Opens, Outside
<1> QED BY <1>1, <1>2, TerminatorPlace

\* The parts of Cut: the piece that ends before k, the pieces that have ended,
\* and the one that has not.
PieceAt(text, k) ==
    Selected(text, {i \in Stated(text) : i < k /\ \A e \in Ends(text) : e < i \/ k <= e})
Ended(text) == [k \in 1..Len(text) |-> IF k \in Ends(text) THEN PieceAt(text, k) ELSE <<>>]
Rest(text) == PieceAt(text, Len(text) + 1)
NonEmpty(ss) == Selected(ss, {k \in DOMAIN ss : ss[k] # <<>>})

LEMMA NonEmptyNext ==
    /\ NonEmpty(<<>>) = <<>>
    /\ \A ss \in Seq(Text), t \in Text :
          NonEmpty(Append(ss, t)) = IF t = <<>> THEN NonEmpty(ss) ELSE Append(NonEmpty(ss), t)
<1>1. NonEmpty(<<>>) = <<>>
  BY SelectedNone DEF NonEmpty
<1>2. ASSUME NEW ss \in Seq(Text), NEW t \in Text
      PROVE  NonEmpty(Append(ss, t)) = IF t = <<>> THEN NonEmpty(ss) ELSE Append(NonEmpty(ss), t)
  <2> DEFINE n == Len(ss)
             tt == Append(ss, t)
             S == {k \in DOMAIN ss : ss[k] # <<>>}
             R == {k \in DOMAIN tt : tt[k] # <<>>}
  <2> HIDE DEF Text
  <2>1. /\ n \in Nat /\ DOMAIN ss = 1..n /\ DOMAIN tt = 1..n + 1
        /\ \A i \in 1..n : tt[i] = ss[i]
        /\ tt[n + 1] = t
    BY DEF Text
  <2>2. \A i \in 1..n : i \in S <=> i \in R
    BY <2>1
  <2>3. n + 1 \in R <=> t # <<>>
    BY <2>1
  <2>4. NonEmpty(tt) = Selected(tt, R) /\ NonEmpty(ss) = Selected(ss, S)
    BY DEF NonEmpty
  <2> HIDE DEF S, R
  <2>5. Selected(tt, R) = IF n + 1 \in R THEN Append(Selected(ss, S), t) ELSE Selected(ss, S)
    BY <2>2, SelectedNext
  <2> QED BY <2>3, <2>4, <2>5
<1> QED BY <1>1, <1>2

\* Nothing is selected from no position.
LEMMA SelectedNothing ==
    ASSUME NEW Item, NEW seq \in Seq(Item), NEW S, \A i \in 1..Len(seq) : i \notin S
    PROVE  Selected(seq, S) = <<>>
<1> DEFINE n == Len(seq)
<1>1. n \in Nat
  OBVIOUS
<1>2. PICK f \in [0..n -> Seq(Item)] :
          /\ f[0] = <<>> /\ f[n] = Selected(seq, S)
          /\ \A i \in 1..n : f[i] = IF i \in S THEN Append(f[i - 1], seq[i]) ELSE f[i - 1]
  <2>1. SelectsTo(Item, seq, S, Selected(seq, S))
    BY SelectedTrace
  <2> QED BY <2>1 DEF SelectsTo
<1> DEFINE bad == {i \in 0..n : f[i] # <<>>}
<1>3. \A i \in 1..n : i \notin S
  OBVIOUS
<1> HIDE DEF n
<1>4. bad = {}
  <2>1. 0 \notin bad
    BY <1>2
  <2>2. ASSUME NEW i \in 1..n, i - 1 \notin bad PROVE i \notin bad
    <3>1. i - 1 \in 0..n
      BY <1>1
    <3> QED BY <1>2, <1>3, <2>2, <3>1
  <2>3. bad \in SUBSET (0..n)
    OBVIOUS
  <2> HIDE DEF bad
  <2> QED BY <1>1, <2>1, <2>2, <2>3, FirstBad
<1>5. n \in 0..n
  BY <1>1
<1> QED BY <1>2, <1>4, <1>5

\* A further token leaves the pieces before it as they are.
LEMMA PieceNext ==
    ASSUME NEW x \in Text, NEW c \in Token
    PROVE  /\ \A k \in 1..Len(x) + 1 : PieceAt(Append(x, c), k) = PieceAt(x, k)
           /\ Rest(Append(x, c)) = IF EndsHere(OpenAt(x), c) THEN <<>>
                                   ELSE IF StatedHere(OpenAt(x), c) THEN Append(Rest(x), c)
                                   ELSE Rest(x)
<1> DEFINE n == Len(x)
           y == Append(x, c)
           E == Ends(x)
           F == Ends(y)
           P == Stated(x)
           Q == Stated(y)
           o == OpenAt(x)
<1>1. n \in Nat /\ Len(y) = n + 1 /\ y \in Text
  BY DEF Text
<1>2. /\ E \subseteq 1..n /\ F \subseteq 1..n + 1
      /\ \A i \in 1..n : i \in F <=> i \in E
      /\ n + 1 \in F <=> EndsHere(o, c)
  BY EndsNext
<1>3. /\ \A i \in 1..n : i \in Q <=> i \in P
      /\ n + 1 \in Q <=> StatedHere(o, c)
  BY StatedNext
<1>4. ASSUME NEW S, NEW R, \A i \in 1..n : i \in S <=> i \in R
      PROVE  Selected(y, R) = IF n + 1 \in R THEN Append(Selected(x, S), c) ELSE Selected(x, S)
  BY <1>4, SelectedNext DEF Text
<1>5. /\ \A k : PieceAt(x, k) = Selected(x, {i \in P : i < k /\ \A e \in E : e < i \/ k <= e})
      /\ \A k : PieceAt(y, k) = Selected(y, {i \in Q : i < k /\ \A e \in F : e < i \/ k <= e})
      /\ Rest(x) = PieceAt(x, n + 1) /\ Rest(y) = PieceAt(y, n + 2)
  <2>1. (n + 1) + 1 = n + 2
    BY <1>1
  <2> QED BY <1>1, <2>1 DEF PieceAt, Rest
<1> HIDE DEF n, y, E, F, P, Q, o
<1>6. ASSUME NEW k \in 1..n + 1 PROVE PieceAt(y, k) = PieceAt(x, k)
  <2> DEFINE S == {i \in P : i < k /\ \A e \in E : e < i \/ k <= e}
             R == {i \in Q : i < k /\ \A e \in F : e < i \/ k <= e}
  <2>1. n + 1 \notin R
    BY <1>1
  <2>2. ASSUME NEW i \in 1..n PROVE (\A e \in E : e < i \/ k <= e) <=> (\A e \in F : e < i \/ k <= e)
    <3>1. \A e \in F : e \in E \/ k <= e
      <4> TAKE e \in F
      <4>1. e \in 1..n \/ e = n + 1
        BY <1>1, <1>2
      <4> QED BY <1>1, <1>2, <4>1
    <3>2. E \subseteq F
      BY <1>2
    <3> QED BY <3>1, <3>2
  <2>3. \A i \in 1..n : i \in S <=> i \in R
    BY <1>3, <2>2
  <2>4. PieceAt(x, k) = Selected(x, S) /\ PieceAt(y, k) = Selected(y, R)
    BY <1>5
  <2> HIDE DEF S, R
  <2> QED BY <1>4, <2>1, <2>3, <2>4
<1>7. Rest(y) = IF EndsHere(o, c) THEN <<>> ELSE IF StatedHere(o, c) THEN Append(Rest(x), c) ELSE Rest(x)
  <2> DEFINE S == {i \in P : i < n + 1 /\ \A e \in E : e < i \/ n + 1 <= e}
             R == {i \in Q : i < n + 2 /\ \A e \in F : e < i \/ n + 2 <= e}
  <2>1. Rest(x) = Selected(x, S) /\ Rest(y) = Selected(y, R)
    BY <1>5
  <2>2. CASE EndsHere(o, c)
    <3>1. n + 1 \in F
      BY <1>2, <2>2
    <3>2. ASSUME NEW i \in 1..n + 1 PROVE i \notin R
      <4>1. ~(n + 1 < i \/ n + 2 <= n + 1)
        BY <1>1
      <4> QED BY <3>1, <4>1
    <3> HIDE DEF R
    <3>3. Selected(y, R) = <<>>
      BY <1>1, <3>2, SelectedNothing DEF Text
    <3> QED BY <2>1, <2>2, <3>3
  <2>3. CASE ~EndsHere(o, c)
    <3>1. F = E
      <4>1. \A e \in F : e \in E
        <5> TAKE e \in F
        <5>1. e \in 1..n \/ e = n + 1
          BY <1>1, <1>2
        <5> QED BY <1>2, <2>3, <5>1
      <4> QED BY <1>2, <4>1
    <3>2. \A e \in E : e \in 1..n /\ e < n + 1 /\ ~(n + 1 <= e) /\ ~(n + 2 <= e)
      BY <1>1, <1>2
    <3>3. ASSUME NEW i \in 1..n PROVE i \in S <=> i \in R
      <4>1. i < n + 1 /\ i < n + 2
        BY <1>1
      <4> QED BY <1>3, <3>1, <3>2, <4>1
    <3>4. n + 1 \in R <=> StatedHere(o, c)
      <4>1. n + 1 < n + 2
        BY <1>1
      <4> QED BY <1>3, <3>1, <3>2, <4>1
    <3> HIDE DEF S, R
    <3> QED BY <1>4, <2>1, <2>3, <3>3, <3>4
  <2> QED BY <2>2, <2>3
<1> QED BY <1>6, <1>7 DEF n, y, o

LEMMA PiecesTyped ==
    ASSUME NEW x \in Text
    PROVE  /\ \A k : PieceAt(x, k) \in Text
           /\ Rest(x) \in Text /\ Ended(x) \in Seq(Text) /\ Len(Ended(x)) = Len(x)
<1>1. \A k : PieceAt(x, k) \in Text
  BY SelectedTyped DEF PieceAt, Text
<1>2. <<>> \in Text /\ Len(x) \in Nat
  BY DEF Text
<1> HIDE DEF Text
<1>3. Ended(x) \in Seq(Text) /\ Len(Ended(x)) = Len(x)
  <2>1. \A k \in 1..Len(x) : (IF k \in Ends(x) THEN PieceAt(x, k) ELSE <<>>) \in Text
    BY <1>1, <1>2
  <2> QED BY <1>2, <2>1 DEF Ended
<1> QED BY <1>1, <1>3 DEF Rest

LEMMA EndedNext ==
    ASSUME NEW x \in Text, NEW c \in Token
    PROVE  Ended(Append(x, c)) = Append(Ended(x), IF EndsHere(OpenAt(x), c) THEN Rest(x) ELSE <<>>)
<1> DEFINE n == Len(x)
           y == Append(x, c)
           last == IF EndsHere(OpenAt(x), c) THEN Rest(x) ELSE <<>>
<1>1. n \in Nat /\ Len(y) = n + 1 /\ y \in Text /\ <<>> \in Text
  BY DEF Text
<1>2. /\ Ended(x) \in Seq(Text) /\ Len(Ended(x)) = n
      /\ Ended(y) \in Seq(Text) /\ Len(Ended(y)) = n + 1
      /\ last \in Text
  BY <1>1, PiecesTyped
<1>3. /\ \A k \in 1..n : Ended(x)[k] = IF k \in Ends(x) THEN PieceAt(x, k) ELSE <<>>
      /\ \A k \in 1..n + 1 : Ended(y)[k] = IF k \in Ends(y) THEN PieceAt(y, k) ELSE <<>>
  BY <1>1 DEF Ended
<1>4. /\ \A k \in 1..n : k \in 1..n + 1 /\ (k \in Ends(y) <=> k \in Ends(x))
      /\ n + 1 \in 1..n + 1 /\ (n + 1 \in Ends(y) <=> EndsHere(OpenAt(x), c))
  BY <1>1, EndsNext
<1>5. \A k \in 1..n + 1 : PieceAt(y, k) = PieceAt(x, k)
  BY PieceNext
<1>6. Rest(x) = PieceAt(x, n + 1)
  BY DEF Rest
<1> HIDE DEF Text, n, y
<1>7. \A k \in 1..n : Ended(y)[k] = Ended(x)[k]
  BY <1>3, <1>4, <1>5
<1>8. Ended(y)[n + 1] = last
  BY <1>3, <1>4, <1>5, <1>6
<1> HIDE DEF last
<1>9. /\ Append(Ended(x), last) \in Seq(Text) /\ Len(Append(Ended(x), last)) = n + 1
      /\ \A k \in 1..n : Append(Ended(x), last)[k] = Ended(x)[k]
      /\ Append(Ended(x), last)[n + 1] = last
  BY <1>2, AppendProperties
<1>10. \A k \in 1..n + 1 : Ended(y)[k] = Append(Ended(x), last)[k]
  <2> TAKE k \in 1..n + 1
  <2>1. k \in 1..n \/ k = n + 1
    BY <1>1
  <2> QED BY <1>7, <1>8, <1>9, <2>1
<1>11. Ended(y) = Append(Ended(x), last)
  BY <1>2, <1>9, <1>10, SeqEqual
<1> QED BY <1>11 DEF last, y

LEMMA NonEmptyEndedNext ==
    ASSUME NEW x \in Text, NEW c \in Token
    PROVE  NonEmpty(Ended(Append(x, c))) =
               IF EndsHere(OpenAt(x), c) /\ Rest(x) # <<>> THEN Append(NonEmpty(Ended(x)), Rest(x))
               ELSE NonEmpty(Ended(x))
<1> DEFINE o == OpenAt(x)
           r == Rest(x)
<1>1. Ended(Append(x, c)) = Append(Ended(x), IF EndsHere(o, c) THEN r ELSE <<>>)
  BY EndedNext
<1>2. Ended(x) \in Seq(Text) /\ r \in Text /\ <<>> \in Text
  BY PiecesTyped DEF Text
<1> HIDE DEF o, r
<1>3. CASE EndsHere(o, c)
  <2>1. NonEmpty(Append(Ended(x), r)) = IF r = <<>> THEN NonEmpty(Ended(x)) ELSE Append(NonEmpty(Ended(x)), r)
    BY <1>2, NonEmptyNext
  <2> QED BY <1>1, <1>3, <2>1 DEF o, r
<1>4. CASE ~EndsHere(o, c)
  <2>1. NonEmpty(Append(Ended(x), <<>>)) = NonEmpty(Ended(x))
    BY <1>2, NonEmptyNext
  <2> QED BY <1>1, <1>4, <2>1 DEF o, r
<1> QED BY <1>3, <1>4

LEMMA CutIsEndedAndRest ==
    ASSUME NEW x \in Text
    PROVE  Cut(x) = NonEmpty(Append(Ended(x), Rest(x)))
<1> DEFINE n == Len(x)
           pieces == [k \in 1..n + 1 |-> IF k \in Ends(x) \cup {n + 1} THEN PieceAt(x, k) ELSE <<>>]
<1>1. Cut(x) = Selected(pieces, {k \in DOMAIN pieces : pieces[k] # <<>>})
  BY DEF Cut, PieceAt
<1>2. n \in Nat /\ <<>> \in Text
  BY DEF Text
<1>3. /\ Ended(x) \in Seq(Text) /\ Len(Ended(x)) = n /\ Rest(x) \in Text
      /\ \A k : PieceAt(x, k) \in Text
  BY PiecesTyped
<1>4. \A k \in 1..n : Ended(x)[k] = IF k \in Ends(x) THEN PieceAt(x, k) ELSE <<>>
  BY DEF Ended
<1>5. Rest(x) = PieceAt(x, n + 1)
  BY DEF Rest
<1> HIDE DEF Text, n
<1>6. pieces \in Seq(Text) /\ Len(pieces) = n + 1
  <2>1. \A k \in 1..n + 1 : (IF k \in Ends(x) \cup {n + 1} THEN PieceAt(x, k) ELSE <<>>) \in Text
    BY <1>2, <1>3
  <2> QED BY <1>2, <2>1
<1>7. \A k \in 1..n : pieces[k] = Ended(x)[k]
  <2> TAKE k \in 1..n
  <2>1. k \in 1..n + 1 /\ k # n + 1
    BY <1>2
  <2> QED BY <1>4, <2>1
<1>8. pieces[n + 1] = Rest(x)
  BY <1>2, <1>5
<1> HIDE DEF pieces
<1>9. /\ Append(Ended(x), Rest(x)) \in Seq(Text) /\ Len(Append(Ended(x), Rest(x))) = n + 1
      /\ \A k \in 1..n : Append(Ended(x), Rest(x))[k] = Ended(x)[k]
      /\ Append(Ended(x), Rest(x))[n + 1] = Rest(x)
  BY <1>3, AppendProperties
<1>10. \A k \in 1..n + 1 : pieces[k] = Append(Ended(x), Rest(x))[k]
  <2> TAKE k \in 1..n + 1
  <2>1. k \in 1..n \/ k = n + 1
    BY <1>2
  <2> QED BY <1>7, <1>8, <1>9, <2>1
<1>11. pieces = Append(Ended(x), Rest(x))
  BY <1>6, <1>9, <1>10, SeqEqual
<1> QED BY <1>1, <1>11 DEF NonEmpty

\* The splitter has the pieces that ended and the one that has not.
LEMMA ScanIsCut ==
    ASSUME NEW text \in Text
    PROVE  Scan(text) = [in |-> PlaceOf(OpenAt(text)), text |-> Rest(text), done |-> NonEmpty(Ended(text))]
<1> DEFINE Value(x) == [in |-> PlaceOf(OpenAt(x)), text |-> Rest(x), done |-> NonEmpty(Ended(x))]
           X == {x \in Text : Scan(x) = Value(x)}
<1>1. <<>> \in X
  <2>1. <<>> \in Text /\ Len(<<>>) = 0
    BY DEF Text
  <2>2. Rest(<<>>) = <<>>
    BY SelectedNone DEF Rest, PieceAt
  <2>3. Ended(<<>>) = <<>>
    <3>1. Ended(<<>>) \in Seq(Text) /\ Len(Ended(<<>>)) = 0
      BY <2>1, PiecesTyped
    <3> QED BY <3>1, EmptySeq
  <2>4. PlaceOf(OpenAt(<<>>)) = Outside
    BY OpenAtNext DEF PlaceOf
  <2>5. Scan(<<>>) = ScanStart
    BY ScanNext
  <2>6. Scan(<<>>) = Value(<<>>)
    BY <2>2, <2>3, <2>4, <2>5, NonEmptyNext DEF ScanStart
  <2> QED BY <2>1, <2>6
<1>2. ASSUME NEW x \in X, NEW c \in Token PROVE Append(x, c) \in X
  <2> DEFINE y == Append(x, c)
             o == OpenAt(x)
             r == Rest(x)
             d == NonEmpty(Ended(x))
             s == [in |-> PlaceOf(o), text |-> r, done |-> d]
  <2>1. x \in Text /\ y \in Text
    BY DEF Text
  <2>2. Scan(y) = SplitToken(Scan(x), c)
    <3>1. \A t : Adds("Scan", t, c) = SplitToken(t, c)
      BY DEF Adds
    <3> QED BY <2>1, <3>1, ScanNext DEF Text
  <2>3. Scan(x) = s
    OBVIOUS
  <2>4. o \in Opens /\ OpenAt(y) = NextOpen(o, c)
    BY <2>1, OpenAtNext
  <2>5. Rest(y) = IF EndsHere(o, c) THEN <<>> ELSE IF StatedHere(o, c) THEN Append(r, c) ELSE r
    BY <2>1, PieceNext
  <2>6. NonEmpty(Ended(y)) = IF EndsHere(o, c) /\ r # <<>> THEN Append(d, r) ELSE d
    BY <2>1, NonEmptyEndedNext
  <2> HIDE DEF y, o, r, d, X
  <2>7. SplitToken(s, c) =
          [in |-> PlaceOf(NextOpen(o, c)),
           text |-> IF EndsHere(o, c) THEN <<>> ELSE IF StatedHere(o, c) THEN Append(r, c) ELSE r,
           done |-> IF EndsHere(o, c) /\ r # <<>> THEN Append(d, r) ELSE d]
    <3>1. CASE o = "'"
      BY <3>1 DEF SplitToken, PlaceOf, Outside, NextOpen, Closer, EndsHere, StatedHere, NL
    <3>2. CASE o = "--"
      BY <3>2 DEF SplitToken, PlaceOf, Outside, NextOpen, Closer, EndsHere, StatedHere, NL
    <3>3. CASE o = "/*"
      BY <3>3 DEF SplitToken, PlaceOf, Outside, NextOpen, Closer, EndsHere, StatedHere, NL
    <3>4. CASE o = "nothing"
      <4>1. CASE c = ";"
        BY BlankIsNone, <3>4, <4>1 DEF SplitToken, PlaceOf, Outside, NextOpen, Closer, EndsHere, StatedHere, NL
      <4>2. CASE c \in {"'", "--", "/*", NL, Blank}
        BY BlankIsNone, <3>4, <4>2 DEF SplitToken, PlaceOf, Outside, NextOpen, Closer, EndsHere, StatedHere, NL, BeginComment
      <4>3. CASE c \notin {";", "'", "--", "/*", NL, Blank}
        BY <3>4, <4>3 DEF SplitToken, PlaceOf, Outside, NextOpen, Closer, EndsHere, StatedHere, NL
      <4> QED BY <4>1, <4>2, <4>3
    <3> QED BY <2>4, <3>1, <3>2, <3>3, <3>4 DEF Opens
  <2>8. Scan(y) = Value(y)
    BY <2>2, <2>3, <2>4, <2>5, <2>6, <2>7
  <2> QED BY <2>1, <2>8 DEF X, y
<1>3. X = Text
  <2>1. X \in SUBSET Text
    OBVIOUS
  <2> HIDE DEF X
  <2> QED BY <1>1, <1>2, <2>1, Appending DEF Text
<1> QED BY <1>3

\* splitStatements cuts a text as the reference does.
LEMMA StatementsAreCut ==
    ASSUME NEW text \in Text
    PROVE  Statements(text) = Cut(text)
<1>1. Statements(text) = IF Scan(text).text = <<>> THEN Scan(text).done
                         ELSE Append(Scan(text).done, Scan(text).text)
  BY DEF Statements
<1>2. Scan(text).text = Rest(text) /\ Scan(text).done = NonEmpty(Ended(text))
  BY ScanIsCut
<1>3. Ended(text) \in Seq(Text) /\ Rest(text) \in Text
  BY PiecesTyped
<1> QED BY <1>1, <1>2, <1>3, NonEmptyNext, CutIsEndedAndRest

----------------------------------------------------------------------------
(* What is kept in the history *)

LEMMA UnterminatedIsOpen ==
    ASSUME NEW text \in Text
    PROVE  Unterminated(text) <=> OpenAt(text) \in {"'", "/*"}
<1>1. Unterminated(text) <=> PlaceOf(OpenAt(text)) \in {"string", "block comment"}
  <2>1. Scan(text).in = PlaceOf(OpenAt(text))
    BY ScanIsCut
  <2> QED BY <2>1 DEF Unterminated
<1>2. OpenAt(text) \in Opens
  BY OpenAtNext
<1> QED BY <1>1, <1>2 DEF PlaceOf, Opens, Outside

\* A text that is all statement, and one that is so when it stands alone.
Whole(text) == \A i \in 1..Len(text) : i \in Stated(text)
Closed(text) == text # <<>> /\ Whole(text) /\ OpenAt(text) = "nothing"

LEMMA WholeNext ==
    /\ Whole(<<>>)
    /\ \A x \in Text, c \in Token : Whole(Append(x, c)) <=> Whole(x) /\ StatedHere(OpenAt(x), c)
<1>1. Whole(<<>>)
  BY DEF Whole
<1>2. ASSUME NEW x \in Text, NEW c \in Token
      PROVE  Whole(Append(x, c)) <=> Whole(x) /\ StatedHere(OpenAt(x), c)
  <2> DEFINE n == Len(x)
  <2>1. n \in Nat /\ Len(Append(x, c)) = n + 1
    BY DEF Text
  <2>2. /\ \A i \in 1..n : i \in Stated(Append(x, c)) <=> i \in Stated(x)
        /\ n + 1 \in Stated(Append(x, c)) <=> StatedHere(OpenAt(x), c)
    BY StatedNext
  <2> HIDE DEF n
  <2>3. /\ \A i \in 1..n + 1 : i \in 1..n \/ i = n + 1
        /\ \A i \in 1..n : i \in 1..n + 1
        /\ n + 1 \in 1..n + 1
    BY <2>1
  <2>4. Whole(Append(x, c)) <=> \A i \in 1..n + 1 : i \in Stated(Append(x, c))
    BY <2>1 DEF Whole
  <2>5. Whole(x) <=> \A i \in 1..n : i \in Stated(x)
    BY DEF Whole, n
  <2> QED BY <2>2, <2>3, <2>4, <2>5
<1> QED BY <1>1, <1>2

\* What is open in a statement after the tokens that belong to it.
Hold(o) == IF o = "'" THEN "'" ELSE "nothing"

LEMMA HoldNext ==
    ASSUME NEW o \in Opens, NEW c
    PROVE  /\ EndsHere(o, c) => Hold(o) = "nothing" /\ Hold(NextOpen(o, c)) = "nothing"
           /\ StatedHere(o, c) => ~EndsHere(o, c) /\ Hold(o) = o /\ Hold(NextOpen(o, c)) = NextOpen(o, c)
           /\ ~EndsHere(o, c) /\ ~StatedHere(o, c) => Hold(NextOpen(o, c)) = Hold(o)
<1>1. CASE o = "nothing"
  <2>1. CASE c \in {"'", "--", "/*"}
    <3>1. NextOpen(o, c) = c
      BY <1>1, <2>1 DEF NextOpen, Closer
    <3> QED BY BlankIsNone, <1>1, <2>1, <3>1 DEF Hold, EndsHere, StatedHere, NL
  <2>2. CASE c \notin {"'", "--", "/*"}
    <3>1. NextOpen(o, c) = "nothing"
      BY <1>1, <2>2 DEF NextOpen, Closer
    <3> QED BY <1>1, <2>2, <3>1 DEF Hold, EndsHere, StatedHere
  <2> QED BY <2>1, <2>2
<1>2. CASE o = "'"
  BY <1>2 DEF Hold, NextOpen, Closer, EndsHere, StatedHere
<1>3. CASE o = "--"
  BY <1>3 DEF Hold, NextOpen, Closer, EndsHere, StatedHere
<1>4. CASE o = "/*"
  BY <1>4 DEF Hold, NextOpen, Closer, EndsHere, StatedHere
<1> QED BY <1>1, <1>2, <1>3, <1>4 DEF Opens

\* The pieces of a text hold only what is stated, and the ones that ended end
\* outside of quotes.
PiecesClosed(x) ==
    /\ Whole(Rest(x)) /\ OpenAt(Rest(x)) = Hold(OpenAt(x))
    /\ NonEmpty(Ended(x)) \in Seq({t \in Text : Closed(t)})

LEMMA PiecesAreClosed == \A x \in Text : PiecesClosed(x)
<1> DEFINE X == {x \in Text : PiecesClosed(x)}
           C == {t \in Text : Closed(t)}
<1>1. <<>> \in X
  <2>1. <<>> \in Text /\ Len(<<>>) = 0
    BY DEF Text
  <2>2. Rest(<<>>) = <<>>
    BY SelectedNone DEF Rest, PieceAt
  <2>3. Ended(<<>>) = <<>>
    <3>1. Ended(<<>>) \in Seq(Text) /\ Len(Ended(<<>>)) = 0
      BY <2>1, PiecesTyped
    <3> QED BY <3>1, EmptySeq
  <2>4. OpenAt(<<>>) = Hold(OpenAt(<<>>))
    BY OpenAtNext DEF Hold
  <2>5. <<>> \in Seq(C)
    OBVIOUS
  <2> QED BY <2>1, <2>2, <2>3, <2>4, <2>5, WholeNext, NonEmptyNext, ZenonT(60) DEF PiecesClosed
<1>2. ASSUME NEW x \in X, NEW c \in Token PROVE Append(x, c) \in X
  <2> DEFINE y == Append(x, c)
             o == OpenAt(x)
             r == Rest(x)
             d == NonEmpty(Ended(x))
  <2>1. x \in Text /\ y \in Text /\ r \in Text /\ <<>> \in Text
    BY PiecesTyped DEF Text
  <2>2. Whole(r) /\ OpenAt(r) = Hold(o) /\ d \in Seq(C)
    BY DEF PiecesClosed
  <2>3. o \in Opens /\ OpenAt(y) = NextOpen(o, c)
    BY <2>1, OpenAtNext
  <2>4. Rest(y) = IF EndsHere(o, c) THEN <<>> ELSE IF StatedHere(o, c) THEN Append(r, c) ELSE r
    BY <2>1, PieceNext
  <2>5. NonEmpty(Ended(y)) = IF EndsHere(o, c) /\ r # <<>> THEN Append(d, r) ELSE d
    BY <2>1, NonEmptyEndedNext
  <2> HIDE DEF y, o, r, d, X
  <2>6. Whole(Rest(y)) /\ OpenAt(Rest(y)) = Hold(OpenAt(y))
    <3>1. CASE EndsHere(o, c)
      BY <2>3, <2>4, <3>1, HoldNext, WholeNext, OpenAtNext
    <3>2. CASE StatedHere(o, c)
      <4>1. Rest(y) = Append(r, c) /\ Hold(o) = o
        BY <2>3, <2>4, <3>2, HoldNext
      <4>2. Whole(Append(r, c)) /\ OpenAt(Append(r, c)) = NextOpen(o, c)
        BY <2>1, <2>2, <3>2, <4>1, WholeNext, OpenAtNext
      <4> QED BY <2>3, <3>2, <4>1, <4>2, HoldNext
    <3>3. CASE ~EndsHere(o, c) /\ ~StatedHere(o, c)
      BY <2>2, <2>3, <2>4, <3>3, HoldNext
    <3> QED BY <3>1, <3>2, <3>3
  <2>7. NonEmpty(Ended(y)) \in Seq(C)
    <3>1. CASE EndsHere(o, c) /\ r # <<>>
      <4>1. Hold(o) = "nothing"
        BY <2>3, <3>1, HoldNext
      <4>2. r \in C
        BY <2>1, <2>2, <3>1, <4>1 DEF Closed
      <4> HIDE DEF C
      <4> QED BY <2>2, <2>5, <3>1, <4>2
    <3>2. CASE ~(EndsHere(o, c) /\ r # <<>>)
      BY <2>2, <2>5, <3>2
    <3> QED BY <3>1, <3>2
  <2> QED BY <2>1, <2>6, <2>7 DEF X, y, PiecesClosed
<1>3. X = Text
  <2>1. X \in SUBSET Text
    OBVIOUS
  <2> HIDE DEF X
  <2> QED BY <1>1, <1>2, <2>1, Appending DEF Text
<1> QED BY <1>3

\* The statements of a text that is terminated stand alone.
LEMMA StatementsClosed ==
    ASSUME NEW text \in Text, ~Unterminated(text)
    PROVE  Statements(text) \in Seq({t \in Text : Closed(t)})
<1> DEFINE C == {t \in Text : Closed(t)}
           r == Rest(text)
           d == NonEmpty(Ended(text))
<1>1. Whole(r) /\ OpenAt(r) = Hold(OpenAt(text)) /\ d \in Seq(C) /\ r \in Text
  BY PiecesAreClosed, PiecesTyped DEF PiecesClosed
<1>2. Hold(OpenAt(text)) = "nothing"
  BY UnterminatedIsOpen DEF Hold
<1>3. Statements(text) = IF r = <<>> THEN d ELSE Append(d, r)
  <2>1. Scan(text).text = r /\ Scan(text).done = d
    BY ScanIsCut
  <2> QED BY <2>1 DEF Statements
<1>4. r # <<>> => r \in C
  BY <1>1, <1>2 DEF Closed
<1> HIDE DEF C, r, d
<1>5. Statements(text) \in Seq(C)
  BY <1>1, <1>3, <1>4
<1> QED BY <1>5 DEF C

\* A text that is all statement, with a semicolon, is that one statement.
LEMMA WholeRest ==
    ASSUME NEW x \in Text, Whole(x)
    PROVE  Rest(x) = x /\ NonEmpty(Ended(x)) = <<>>
<1> DEFINE X == {t \in Text : Whole(t) => Rest(t) = t /\ NonEmpty(Ended(t)) = <<>>}
<1>1. <<>> \in X
  <2>1. <<>> \in Text /\ Len(<<>>) = 0
    BY DEF Text
  <2>2. Rest(<<>>) = <<>>
    BY SelectedNone DEF Rest, PieceAt
  <2>3. Ended(<<>>) = <<>>
    <3>1. Ended(<<>>) \in Seq(Text) /\ Len(Ended(<<>>)) = 0
      BY <2>1, PiecesTyped
    <3> QED BY <3>1, EmptySeq
  <2> QED BY <2>1, <2>2, <2>3, NonEmptyNext
<1>2. ASSUME NEW t \in X, NEW c \in Token PROVE Append(t, c) \in X
  <2>1. t \in Text /\ Append(t, c) \in Text
    BY DEF Text
  <2> SUFFICES ASSUME Whole(Append(t, c))
               PROVE  Rest(Append(t, c)) = Append(t, c) /\ NonEmpty(Ended(Append(t, c))) = <<>>
    BY <2>1
  <2>2. Whole(t) /\ StatedHere(OpenAt(t), c)
    BY <2>1, WholeNext
  <2>3. ~EndsHere(OpenAt(t), c)
    BY <2>1, <2>2, HoldNext, OpenAtNext
  <2>4. Rest(t) = t /\ NonEmpty(Ended(t)) = <<>>
    BY <2>2
  <2> QED BY <2>1, <2>2, <2>3, <2>4, PieceNext, NonEmptyEndedNext
<1>3. X = Text
  <2>1. X \in SUBSET Text
    OBVIOUS
  <2> HIDE DEF X
  <2> QED BY <1>1, <1>2, <2>1, Appending DEF Text
<1> QED BY <1>3

LEMMA ClosedIsStatement ==
    ASSUME NEW x \in Text, Closed(x)
    PROVE  /\ Append(x, ";") \in Text
           /\ ContainsStatementTerminator(Append(x, ";")) /\ ~Unterminated(Append(x, ";"))
           /\ Statements(Append(x, ";")) = <<x>> /\ Cut(Append(x, ";")) = <<x>>
<1> DEFINE c == ";"
           y == Append(x, c)
<1>1. c \in Token /\ y \in Text
  <2>1. c \in Token
    BY TextAssumption DEF Markers
  <2> HIDE DEF c
  <2> QED BY <2>1 DEF Text
<1>2. Whole(x) /\ OpenAt(x) = "nothing" /\ x # <<>>
  BY DEF Closed
<1>3. EndsHere(OpenAt(x), c)
  BY <1>2 DEF EndsHere
<1>4. OpenAt(y) = "nothing"
  <2>1. OpenAt(y) = NextOpen("nothing", ";")
    BY <1>1, <1>2, OpenAtNext
  <2> QED BY <2>1 DEF NextOpen, Closer
<1> HIDE DEF c, y
<1>5. Ends(y) # {}
  BY <1>1, <1>3, EndsNext DEF y
<1>6. Rest(x) = x /\ NonEmpty(Ended(x)) = <<>>
  BY <1>2, WholeRest
<1>7. Rest(y) = <<>> /\ NonEmpty(Ended(y)) = Append(<<>>, x)
  BY <1>1, <1>2, <1>3, <1>6, PieceNext, NonEmptyEndedNext DEF y
<1>8. Statements(y) = <<x>>
  <2>1. Scan(y).text = <<>> /\ Scan(y).done = <<x>>
    BY <1>1, <1>7, ScanIsCut
  <2> QED BY <2>1 DEF Statements
<1>9. Cut(y) = <<x>>
  BY <1>1, <1>8, StatementsAreCut
<1>10. ContainsStatementTerminator(y) /\ ~Unterminated(y)
  BY <1>1, <1>4, <1>5, TerminatorIsEnd, UnterminatedIsOpen
<1> QED BY <1>1, <1>8, <1>9, <1>10 DEF y, c

\* A statement is all statement still when it is a line of the history.
LEMMA HistoryKeeps ==
    ASSUME NEW x \in Text, Whole(x)
    PROVE  /\ HistoryOf(x) \in Line /\ HistoryOf(x) \in Text
           /\ Whole(HistoryOf(x)) /\ OpenAt(HistoryOf(x)) = OpenAt(x)
           /\ x # <<>> => HistoryOf(x) # <<>>
<1> DEFINE Kept(t) == /\ Whole(HistoryOf(t)) /\ OpenAt(HistoryOf(t)) = OpenAt(t)
                      /\ t # <<>> => HistoryOf(t) # <<>>
           X == {t \in Text : Whole(t) => Kept(t)}
<1>1. ASSUME NEW t \in Text PROVE HistoryOf(t) \in Line /\ HistoryOf(t) \in Text
  <2>1. HistoryOf(t) \in Line
    BY HistoryNext DEF Text
  <2>2. HistoryOf(t) \in Text
    BY <2>1, SeqMonotonic DEF Text, Line
  <2> QED BY <2>1, <2>2
<1>2. <<>> \in X
  <2>1. <<>> \in Text
    BY DEF Text
  <2>2. HistoryOf(<<>>) = <<>>
    BY HistoryNext
  <2> QED BY <2>1, <2>2, WholeNext
<1>3. ASSUME NEW t \in X, NEW c \in Token PROVE Append(t, c) \in X
  <2>1. t \in Text /\ Append(t, c) \in Text
    BY DEF Text
  <2> SUFFICES ASSUME Whole(Append(t, c)) PROVE Kept(Append(t, c))
    BY <2>1
  <2> DEFINE o == OpenAt(t)
             h == HistoryOf(t)
             g == HistoryOf(Append(t, c))
  <2>2. Whole(t) /\ StatedHere(o, c) /\ OpenAt(Append(t, c)) = NextOpen(o, c)
    BY <2>1, WholeNext, OpenAtNext
  <2>3. Whole(h) /\ OpenAt(h) = o /\ h \in Text
    BY <1>1, <2>1, <2>2
  <2>4. g = Adds("History", h, c)
    BY <2>1, HistoryNext DEF Text
  <2> HIDE DEF h, g, o, X
  <2>5. ASSUME NEW b \in Token, StatedHere(o, b), NextOpen(o, b) = NextOpen(o, c)
        PROVE  Whole(Append(h, b)) /\ OpenAt(Append(h, b)) = NextOpen(o, c) /\ Append(h, b) # <<>>
    <3>1. Append(h, b) # <<>>
      BY <2>3, AppendProperties DEF Text
    <3> QED BY <2>3, <2>5, <3>1, WholeNext, OpenAtNext
  <2>6. CASE c \notin {NL, Blank}
    <3>1. g = Append(h, c)
      BY <2>4, <2>6 DEF Adds
    <3> QED BY <2>2, <2>5, <3>1 DEF g
  <2>7. CASE c \in {NL, Blank}
    <3>1. Blank \in Token /\ Blank # "'" /\ Blank # NL
      BY BlankIsNone
    <3>2. o = "'"
      BY <2>2, <2>7 DEF StatedHere
    <3>3. StatedHere(o, Blank) /\ NextOpen(o, Blank) = o /\ NextOpen(o, c) = o
      BY <2>7, <3>1, <3>2 DEF StatedHere, NextOpen, Closer, NL
    <3>4. g = IF h # <<>> /\ Last(h) = Blank THEN h ELSE Append(h, Blank)
      <4>1. Adds("History", h, c) = IF h # <<>> /\ Last(h) = Blank THEN h ELSE Append(h, Blank)
        BY <2>7 DEF Adds
      <4> QED BY <2>4, <4>1
    <3>5. CASE g = Append(h, Blank)
      BY <2>2, <2>5, <3>1, <3>3, <3>5 DEF g
    <3>6. CASE g = h /\ h # <<>>
      BY <2>2, <2>3, <3>3, <3>6 DEF g
    <3> QED BY <3>4, <3>5, <3>6
  <2> QED BY <2>6, <2>7
<1>4. X = Text
  <2>1. X \in SUBSET Text
    OBVIOUS
  <2> HIDE DEF X
  <2> QED BY <1>2, <1>3, <2>1, Appending DEF Text
<1> QED BY <1>1, <1>4

\* Words belong to the statement they are in.
LEMMA WholeWords ==
    ASSUME NEW x \in Text, Whole(x), OpenAt(x) = "nothing", NEW w \in Seq(Word)
    PROVE  x \o w \in Text /\ Whole(x \o w) /\ OpenAt(x \o w) = "nothing"
<1> DEFINE X == {v \in Seq(Word) : x \o v \in Text /\ Whole(x \o v) /\ OpenAt(x \o v) = "nothing"}
<1>1. <<>> \in X
  <2>1. x \o <<>> = x
    BY ConcatEmptySeq DEF Text
  <2> QED BY <2>1
<1>2. ASSUME NEW v \in X, NEW c \in Word PROVE Append(v, c) \in X
  <2>1. v \in Seq(Word) /\ Append(v, c) \in Seq(Word) /\ c \in Token /\ c \notin Markers
    BY DEF Word
  <2>2. x \o v \in Text /\ Whole(x \o v) /\ OpenAt(x \o v) = "nothing"
    OBVIOUS
  <2> HIDE DEF X
  <2>3. x \o Append(v, c) = Append(x \o v, c)
    <3>1. Word \subseteq Token
      BY DEF Word
    <3>2. v \in Seq(Token)
      BY <2>1, <3>1, SeqMonotonic
    <3> QED BY <2>1, <3>2 DEF Text
  <2>4. StatedHere("nothing", c) /\ NextOpen("nothing", c) = "nothing"
    <3>1. c \notin {"'", ";", "--", "/*", NL, Blank}
      BY <2>1 DEF Markers
    <3> QED BY <3>1 DEF StatedHere, NextOpen, Closer
  <2>5. Append(x \o v, c) \in Text
    BY <2>1, <2>2 DEF Text
  <2>6. Whole(Append(x \o v, c)) /\ OpenAt(Append(x \o v, c)) = "nothing"
    BY <2>1, <2>2, <2>4, WholeNext, OpenAtNext
  <2> QED BY <2>1, <2>3, <2>5, <2>6 DEF X
<1>3. X = Seq(Word)
  <2>1. X \in SUBSET Seq(Word)
    OBVIOUS
  <2> HIDE DEF X
  <2> QED BY <1>1, <1>2, <2>1, Appending
<1> QED BY <1>3

\* And when its broken words are mended.
LEMMA ReplKeeps ==
    ASSUME NEW x \in Line, Whole(x)
    PROVE  /\ ReplOf(x).out \in Line /\ ReplOf(x).out \in Text
           /\ Whole(ReplOf(x).out) /\ OpenAt(ReplOf(x).out) = OpenAt(x)
           /\ x # <<>> => ReplOf(x).out # <<>>
<1> DEFINE Kept(t) == LET r == ReplOf(t) IN
                      /\ Whole(r.out) /\ OpenAt(r.out) = OpenAt(t) /\ (r.quoted <=> OpenAt(t) = "'")
                      /\ t # <<>> => r.out # <<>>
           X == {t \in Line : Whole(t) => Kept(t)}
<1>1. ASSUME NEW t \in Line PROVE /\ ReplOf(t) \in ReplState /\ ReplOf(t).quoted \in BOOLEAN
                                  /\ ReplOf(t).out \in Line /\ ReplOf(t).out \in Text
  <2>1. ReplOf(t) \in ReplState
    BY ReplNext DEF Line
  <2>2. ReplOf(t).out \in Line /\ ReplOf(t).quoted \in BOOLEAN
    BY <2>1 DEF ReplState
  <2>3. ReplOf(t).out \in Text
    BY <2>2, SeqMonotonic DEF Text, Line
  <2> QED BY <2>1, <2>2, <2>3
<1>2. <<>> \in X
  <2>1. <<>> \in Line
    BY DEF Line
  <2>2. ReplOf(<<>>) = [quoted |-> FALSE, out |-> <<>>]
    BY ReplNext
  <2> QED BY <2>1, <2>2, WholeNext, OpenAtNext
<1>3. ASSUME NEW t \in X, NEW c \in Token \ {NL} PROVE Append(t, c) \in X
  <2>1. t \in Line /\ Append(t, c) \in Line /\ t \in Text
    <3>1. t \in Line /\ Append(t, c) \in Line
      BY DEF Line
    <3> QED BY <3>1, SeqMonotonic DEF Line, Text
  <2> SUFFICES ASSUME Whole(Append(t, c)) PROVE Kept(Append(t, c))
    BY <2>1
  <2> DEFINE o == OpenAt(t)
             r == ReplOf(t)
             s == ReplOf(Append(t, c))
  <2>2. Whole(t) /\ StatedHere(o, c) /\ OpenAt(Append(t, c)) = NextOpen(o, c)
    BY <2>1, WholeNext, OpenAtNext
  <2>3. /\ Whole(r.out) /\ OpenAt(r.out) = o /\ r.out \in Text /\ (r.quoted <=> o = "'")
        /\ r \in ReplState /\ r.quoted \in BOOLEAN
    BY <1>1, <2>1, <2>2
  <2>4. s = Adds("Repl", r, c)
    BY <2>1, ReplNext DEF Line
  <2>5. r = [quoted |-> r.quoted, out |-> r.out]
    BY <2>3 DEF ReplState
  <2> SUFFICES /\ Whole(s.out) /\ OpenAt(s.out) = NextOpen(o, c) /\ s.out # <<>>
               /\ s.quoted <=> NextOpen(o, c) = "'"
    BY <2>2
  <2> HIDE DEF o, r, s, X
  <2>6. Whole(Append(r.out, c)) /\ OpenAt(Append(r.out, c)) = NextOpen(o, c) /\ Append(r.out, c) # <<>>
    <3>1. Append(r.out, c) # <<>>
      BY <2>3, AppendProperties DEF Text
    <3> QED BY <2>2, <2>3, <3>1, WholeNext, OpenAtNext
  <2>7. o \in {"nothing", "'"} /\ (o = "nothing" => c \notin {"--", "/*"})
    BY <2>2 DEF StatedHere
  <2>8. CASE c = "'"
    <3>1. PICK q \in BOOLEAN : q = ~r.quoted
      BY <2>3
    <3>2. s = [quoted |-> q, out |-> Append(r.out, c)]
      BY <2>4, <2>8, <3>1 DEF Adds
    <3>3. q <=> NextOpen(o, c) = "'"
      BY <2>3, <2>7, <2>8, <3>1 DEF NextOpen, Closer
    <3> QED BY <2>6, <3>2, <3>3
  <2>9. CASE c # "'" /\ c \in DOMAIN Broken /\ ~r.quoted
    <3>1. s = [quoted |-> r.quoted, out |-> r.out \o Broken[c]]
      BY <2>4, <2>5, <2>9 DEF Adds
    <3>2. c \in Word /\ Broken[c] \in Seq(Word) /\ Broken[c] # <<>>
      BY <2>9, TextAssumption
    <3>3. o = "nothing" /\ NextOpen(o, c) = "nothing"
      <4>1. c \notin {"'", "--", "/*"}
        BY <3>2 DEF Word, Markers
      <4> QED BY <2>3, <2>7, <2>9, <4>1 DEF NextOpen, Closer
    <3>4. r.out \o Broken[c] \in Text /\ Whole(r.out \o Broken[c]) /\ OpenAt(r.out \o Broken[c]) = "nothing"
      BY <2>3, <3>2, <3>3, WholeWords
    <3>5. r.out \o Broken[c] # <<>>
      <4>1. Word \subseteq Token
        BY DEF Word
      <4>2. Broken[c] \in Seq(Token)
        BY <3>2, <4>1, SeqMonotonic
      <4> QED BY <2>3, <3>2, <4>2, ConcatEqualIffEmpty DEF Text
    <3> QED BY <2>9, <3>1, <3>3, <3>4, <3>5
  <2>10. CASE c # "'" /\ ~(c \in DOMAIN Broken /\ ~r.quoted)
    <3>1. s = [quoted |-> r.quoted, out |-> Append(r.out, c)]
      BY <2>4, <2>5, <2>10 DEF Adds
    <3>2. NextOpen(o, c) = o
      BY <2>7, <2>10 DEF NextOpen, Closer
    <3> QED BY <2>3, <2>6, <3>1, <3>2
  <2> QED BY <2>8, <2>9, <2>10
<1>4. X = Line
  <2>1. X \in SUBSET Line
    OBVIOUS
  <2> HIDE DEF X
  <2> QED BY <1>2, <1>3, <2>1, Appending DEF Line
<1> QED BY <1>1, <1>4

\* The tokens of a plain statement.
LEMMA PlainNext ==
    ASSUME NEW t \in Text, NEW c \in Token, Plain(Append(t, c))
    PROVE  /\ Plain(t) /\ c # NL
           /\ c = Blank => t = <<>> \/ Last(t) # Blank
           /\ c \in DOMAIN Broken => OpenAt(t) # "nothing"
<1> DEFINE n == Len(t)
           y == Append(t, c)
           f == Opened(t)
           g == Opened(y)
<1>1. /\ n \in Nat /\ DOMAIN t = 1..n /\ DOMAIN y = 1..n + 1
      /\ \A i \in 1..n : y[i] = t[i]
      /\ y[n + 1] = c /\ (n = 0 => t = <<>>)
  BY DEF Text
<1>2. \A i \in 0..n : g[i] = f[i]
  BY OpenedNext
<1>3. OpenAt(t) = f[n] /\ Last(t) = t[n]
  BY DEF OpenAt, Last
<1>4. \A i \in 1..n + 1 : /\ y[i] # NL
                          /\ i > 1 /\ y[i] = Blank => y[i - 1] # Blank
                          /\ y[i] \in DOMAIN Broken => g[i - 1] # "nothing"
  BY <1>1 DEF Plain
<1> HIDE DEF n, y, f, g
<1>5. ASSUME NEW i \in 1..n
      PROVE  /\ t[i] # NL
             /\ i > 1 /\ t[i] = Blank => t[i - 1] # Blank
             /\ t[i] \in DOMAIN Broken => f[i - 1] # "nothing"
  <2>1. i \in 1..n + 1 /\ i - 1 \in 0..n /\ (i > 1 => i - 1 \in 1..n)
    BY <1>1
  <2> QED BY <1>1, <1>2, <1>4, <2>1
<1>6. Plain(t)
  BY <1>1, <1>5 DEF Plain, f
<1>7. /\ c # NL /\ (n > 0 /\ c = Blank => t[n] # Blank)
      /\ c \in DOMAIN Broken => f[n] # "nothing"
  <2>1. n + 1 \in 1..n + 1 /\ (n + 1) - 1 = n /\ n \in 0..n /\ (n > 0 => n + 1 > 1 /\ n \in 1..n)
    BY <1>1
  <2> QED BY <1>1, <1>2, <1>4, <2>1
<1> QED BY <1>1, <1>3, <1>6, <1>7

\* It is the same in the history, and again when it is entered.
LEMMA PlainStays ==
    ASSUME NEW x \in Text, Whole(x), Plain(x)
    PROVE  HistoryOf(x) = x /\ ReplOf(x).out = x
<1> DEFINE Same(t) == /\ t \in Line /\ HistoryOf(t) = t
                      /\ ReplOf(t).out = t /\ (ReplOf(t).quoted <=> OpenAt(t) = "'")
           X == {t \in Text : Whole(t) /\ Plain(t) => Same(t)}
<1>1. <<>> \in X
  <2>1. <<>> \in Text /\ <<>> \in Line
    BY DEF Text, Line
  <2>2. ReplOf(<<>>) = [quoted |-> FALSE, out |-> <<>>]
    BY ReplNext
  <2> QED BY <2>1, <2>2, HistoryNext, OpenAtNext
<1>2. ASSUME NEW t \in X, NEW c \in Token PROVE Append(t, c) \in X
  <2>1. t \in Text /\ Append(t, c) \in Text
    BY DEF Text
  <2> SUFFICES ASSUME Whole(Append(t, c)), Plain(Append(t, c)) PROVE Same(Append(t, c))
    BY <2>1
  <2> DEFINE o == OpenAt(t)
             r == ReplOf(t)
             s == ReplOf(Append(t, c))
             y == Append(t, c)
  <2>2. /\ Plain(t) /\ c # NL
        /\ c = Blank => t = <<>> \/ Last(t) # Blank
        /\ c \in DOMAIN Broken => o # "nothing"
    BY <2>1, PlainNext
  <2>3. Whole(t) /\ StatedHere(o, c) /\ OpenAt(y) = NextOpen(o, c)
    BY <2>1, WholeNext, OpenAtNext
  <2>4. t \in Line /\ HistoryOf(t) = t /\ r.out = t /\ (r.quoted <=> o = "'")
    BY <2>2, <2>3
  <2>5. y \in Line /\ c \in Token \ {NL}
    BY <2>2, <2>4 DEF Line
  <2>6. HistoryOf(y) = Adds("History", t, c)
    BY <2>1, <2>4, HistoryNext DEF Text
  <2>7. s = Adds("Repl", r, c) /\ r \in ReplState
    BY <2>4, <2>5, ReplNext DEF Line
  <2>8. r = [quoted |-> r.quoted, out |-> t] /\ r.quoted \in BOOLEAN
    BY <2>4, <2>7 DEF ReplState
  <2> SUFFICES HistoryOf(y) = y /\ s.out = y /\ (s.quoted <=> NextOpen(o, c) = "'")
    BY <2>3, <2>5
  <2> HIDE DEF o, r, s, X
  <2>9. HistoryOf(y) = y
    <3>1. CASE c # Blank
      BY <2>2, <2>6, <3>1 DEF Adds
    <3>2. CASE c = Blank
      <4>1. Adds("History", t, c) = IF t # <<>> /\ Last(t) = Blank THEN t ELSE Append(t, Blank)
        BY <3>2 DEF Adds
      <4>2. ~(t # <<>> /\ Last(t) = Blank)
        BY <2>2, <3>2
      <4> QED BY <2>6, <3>2, <4>1, <4>2
    <3> QED BY <3>1, <3>2
  <2>10. o \in {"nothing", "'"} /\ (o = "nothing" => c \notin {"--", "/*"})
    BY <2>3 DEF StatedHere
  <2>11. CASE c = "'"
    <3>1. PICK q \in BOOLEAN : q = ~r.quoted
      BY <2>8
    <3>2. s = [quoted |-> q, out |-> y]
      BY <2>4, <2>7, <2>11, <3>1 DEF Adds
    <3>3. q <=> NextOpen(o, c) = "'"
      BY <2>4, <2>10, <2>11, <3>1 DEF NextOpen, Closer
    <3> QED BY <2>9, <3>2, <3>3
  <2>12. CASE c # "'"
    <3>1. ~(c \in DOMAIN Broken /\ ~r.quoted)
      BY <2>2, <2>4, <2>10
    <3>2. s = [quoted |-> r.quoted, out |-> y]
      <4>1. Adds("Repl", r, c) = [r EXCEPT !.out = Append(r.out, c)]
        BY <2>12, <3>1 DEF Adds
      <4> QED BY <2>4, <2>7, <2>8, <4>1
    <3>3. NextOpen(o, c) = o
      BY <2>10, <2>12 DEF NextOpen, Closer
    <3> QED BY <2>4, <2>9, <3>2, <3>3
  <2> QED BY <2>11, <2>12
<1>3. X = Text
  <2>1. X \in SUBSET Text
    OBVIOUS
  <2> HIDE DEF X
  <2> QED BY <1>1, <1>2, <2>1, Appending DEF Text
<1> QED BY <1>3

\* What HistoryReplays says of a statement and its entry.
Replays(statement, entry) ==
    LET typed == NormalizeReplLine(entry) IN
    /\ ContainsStatementTerminator(typed) /\ ~Unterminated(typed)
    /\ Len(Statements(typed)) = 1
    /\ Plain(statement) => Statements(typed) = <<statement>>

\* The history entry of a statement that stands alone replays it.
LEMMA EntriesReplay ==
    ASSUME NEW x \in Text, Closed(x)
    PROVE  NormalizeHistoryEntry(x) \in Line /\ Replays(x, NormalizeHistoryEntry(x))
<1> DEFINE h == HistoryOf(x)
           e == Append(h, ";")
           out == ReplOf(h).out
<1>1. /\ h \in Line /\ h \in Text /\ Whole(h) /\ h # <<>> /\ OpenAt(h) = "nothing"
      /\ Closed(h)
  BY HistoryKeeps DEF Closed
<1>2. NormalizeHistoryEntry(x) = e
  <2>1. NormalizeHistoryEntry(x) = h \o <<";">>
    BY DEF NormalizeHistoryEntry, HistoryOf
  <2>2. ";" \in Token
    BY TextAssumption DEF Markers
  <2> HIDE DEF h
  <2>3. h \o <<";">> = Append(h, ";")
    BY <1>1, <2>2, AppendIsConcat DEF Text
  <2> QED BY <2>1, <2>3
<1>3. out \in Text /\ Closed(out) /\ ReplOf(h) \in ReplState
  <2>1. ReplOf(h) \in ReplState
    BY <1>1, ReplNext DEF Line
  <2> QED BY <1>1, <2>1, ReplKeeps DEF Closed
<1>4. NormalizeReplLine(e) = Append(out, ";")
  <2>1. ";" \in Token \ {NL}
    BY TextAssumption DEF Markers, NL
  <2>2. ";" \notin DOMAIN Broken
    <3>1. ";" \notin Word
      BY DEF Word, Markers
    <3> QED BY <3>1, TextAssumption
  <2>3. ReplOf(e) = Adds("Repl", ReplOf(h), ";")
    BY <1>1, <2>1, ReplNext DEF Line
  <2>4. NormalizeReplLine(e) = ReplOf(e).out
    BY DEF NormalizeReplLine, ReplOf
  <2>5. Adds("Repl", ReplOf(h), ";") = [ReplOf(h) EXCEPT !.out = Append(ReplOf(h).out, ";")]
    BY <2>2 DEF Adds
  <2>6. Adds("Repl", ReplOf(h), ";").out = Append(out, ";")
    BY <1>3, <2>5 DEF ReplState
  <2> QED BY <2>3, <2>4, <2>6
<1>5. e \in Line
  <2>1. ";" \in Token \ {NL}
    BY TextAssumption DEF Markers, NL
  <2> HIDE DEF h
  <2> QED BY <1>1, <2>1, AppendProperties DEF Line
<1> HIDE DEF h, out
<1>6. /\ ContainsStatementTerminator(Append(out, ";")) /\ ~Unterminated(Append(out, ";"))
      /\ Statements(Append(out, ";")) = <<out>>
  BY <1>3, ClosedIsStatement
<1>7. Plain(x) => out = x
  BY PlainStays DEF Closed, h, out
<1>8. Len(<<out>>) = 1
  OBVIOUS
<1> QED BY <1>2, <1>4, <1>5, <1>6, <1>7, <1>8 DEF Replays

----------------------------------------------------------------------------
(* The inductive invariant *)

Typed ==
    /\ phase \in {"down", "prompt", "running", "ended"} /\ mode \in {"repl", "script", "query"}
    /\ repl \in BOOLEAN /\ failed \in Nat
    /\ line \in Line /\ cursor \in 0..Len(line) /\ recalled \in Nat
    /\ queue \in Seq(Line) /\ pending \in Text /\ given \in Text
    /\ batch \in Seq(Statement) /\ ran \in Seq([text : Statement, ok : BOOLEAN])
    /\ history \in Seq(Line) /\ file \in Seq(FileLine) /\ command \in Line

\* All that ran, and with it all that is still to run, is among what was given.
RanOf(g, r) == Among(FlattenSeq(Texts(r)), g, Len(g))
Owed(g, r, b) == b # <<>> /\ Among(FlattenSeq(Texts(r) \o b), g, Len(g))

\* While lines collect nothing of them has run, and no statement is complete.
Collecting(g, r, p) == Ends(p) = {} /\ \E a \in Text : g = a \o p /\ RanOf(a, r)

\* The lines collected were completed by the last one; b is the end of what
\* they hold.
Completed(p, b) ==
    /\ Ends(p) # {} /\ ~Unterminated(p)
    /\ \E old \in Text, text \in Line : p = (old \o text) \o <<NL>> /\ Ends(old) = {}
    /\ \E u \in Seq(Statement) : Statements(p) = u \o b

\* A script or a query that runs: m is the mode, f the failures counted.
Failures(r) == {k \in DOMAIN r : ~r[k].ok}
Program(g, r, b, m, f) ==
    /\ m \in {"script", "query"}
    /\ Texts(r) \o b = Statements(g)
    /\ f = 0 <=> Failures(r) = {}
    /\ m = "query" => Failures(r) = {}
    /\ m = "script" => \A k \in DOMAIN Statements(g) : Parses(Statements(g)[k])

\* What is in memory is in the file, for the next session too.
Filed(h, f) == \A k \in DOMAIN h : Contains(Loaded(f), h[k])

SessionInv ==
    /\ Typed
    /\ phase = "prompt" => repl /\ mode = "repl" /\ Collecting(given, ran, pending)
    /\ phase = "running" => Owed(given, ran, batch)
    /\ phase = "running" /\ mode = "repl" => repl /\ Completed(pending, batch)
    /\ phase = "running" /\ ~repl => Program(given, ran, batch, mode, failed)
    /\ phase \in {"down", "ended"} => RanOf(given, ran)
    /\ ExitTells
    /\ Filed(history, file)

Run == [text : Statement, ok : BOOLEAN]

LEMMA TextsTyped ==
    ASSUME NEW r \in Seq(Run)
    PROVE  /\ Texts(r) \in Seq(Statement) /\ Texts(r) \in Seq(Text) /\ Len(Texts(r)) = Len(r)
           /\ FlattenSeq(Texts(r)) \in Text
<1>1. Texts(r) \in Seq(Statement) /\ Len(Texts(r)) = Len(r)
  <2>1. Len(r) \in Nat /\ DOMAIN r = 1..Len(r) /\ \A k \in 1..Len(r) : r[k] \in Run
    OBVIOUS
  <2>2. \A x \in Run : x.text \in Statement
    BY DEF Run
  <2> HIDE DEF Statement, Run
  <2> QED BY <2>1, <2>2 DEF Texts
<1>2. Texts(r) \in Seq(Text)
  <2>1. Statement \subseteq Text
    BY DEF Statement
  <2> QED BY <1>1, <2>1, SeqMonotonic
<1>3. FlattenSeq(Texts(r)) \in Text
  BY <1>2, FlatTyped DEF Text
<1> QED BY <1>1, <1>2, <1>3

LEMMA TextsNone == Texts(<<>>) = <<>>
<1>1. DOMAIN <<>> = 1..0 /\ <<>> \in Seq(Run)
  OBVIOUS
<1>2. Texts(<<>>) \in Seq(Text) /\ Len(Texts(<<>>)) = 0
  BY <1>1, TextsTyped
<1> QED BY <1>2, EmptySeq

LEMMA TextsNext ==
    ASSUME NEW r \in Seq(Run), NEW x \in Run
    PROVE  Texts(Append(r, x)) = Append(Texts(r), x.text)
<1> DEFINE n == Len(r)
           s == Append(r, x)
<1>1. /\ n \in Nat /\ s \in Seq(Run) /\ Len(s) = n + 1 /\ DOMAIN s = 1..n + 1 /\ DOMAIN r = 1..n
      /\ \A k \in 1..n : s[k] = r[k]
      /\ s[n + 1] = x
  OBVIOUS
<1>2. /\ Texts(r) \in Seq(Statement) /\ Len(Texts(r)) = n
      /\ Texts(s) \in Seq(Statement) /\ Len(Texts(s)) = n + 1
  BY <1>1, TextsTyped
<1>3. x.text \in Statement
  BY DEF Run
<1> HIDE DEF n, s, Statement
<1>4. /\ Append(Texts(r), x.text) \in Seq(Statement) /\ Len(Append(Texts(r), x.text)) = n + 1
      /\ \A k \in 1..n : Append(Texts(r), x.text)[k] = Texts(r)[k]
      /\ Append(Texts(r), x.text)[n + 1] = x.text
  BY <1>2, <1>3, AppendProperties
<1>5. /\ \A k \in 1..n : Texts(r)[k] = r[k].text
      /\ \A k \in 1..n + 1 : Texts(s)[k] = s[k].text
  BY <1>1 DEF Texts
<1>6. \A k \in 1..n + 1 : Texts(s)[k] = Append(Texts(r), x.text)[k]
  <2> TAKE k \in 1..n + 1
  <2>1. k \in 1..n \/ k = n + 1
    BY <1>1
  <2> QED BY <1>1, <1>4, <1>5, <2>1
<1>7. Texts(s) = Append(Texts(r), x.text)
  BY <1>2, <1>4, <1>6, SeqEqual
<1> QED BY <1>7 DEF s

\* The first invariant follows.
LEMMA RanInOrder ==
    ASSUME given \in Text, ran \in Seq(Run), RanOf(given, ran)
    PROVE  RunsOnceInOrder
<1> DEFINE done == FlattenSeq(Texts(ran))
           n == Len(given)
           p == [done |-> done, given |-> given]
           Chosen(f) == f = [i \in 0..n |-> IF i = 0 THEN 0
                ELSE IF f[i - 1] < Len(done) /\ done[f[i - 1] + 1] = given[i] THEN f[i - 1] + 1 ELSE f[i - 1]]
           F == CHOOSE f : Chosen(f)
<1>1. RunsOnceInOrder <=> F[n] = Len(done)
  BY DEF RunsOnceInOrder
<1>2. done \in Text
  BY TextsTyped
<1>3. n \in Nat /\ Len(done) \in Nat
  BY <1>2 DEF Text
<1>4. p.done = done /\ p.given = given
  OBVIOUS
<1> HIDE DEF F, n, p, done
<1>5. ASSUME NEW i, NEW x
      PROVE  Turn("Found", p, i, x) = IF x < Len(done) /\ done[x + 1] = given[i] THEN x + 1 ELSE x
  BY <1>4 DEF Turn
<1>6. ASSUME NEW f PROVE Chosen(f) <=> Recurs("Found", p, n, 0, f)
  BY <1>5 DEF Recurs
<1> HIDE DEF Chosen
<1>7. Remains("Found", p, n, 0..Len(done))
  BY <1>3, <1>5 DEF Remains
<1>8. 0 \in 0..Len(done)
  BY <1>3
<1>9. RunsThrough("Found", p, n, 0..Len(done), 0, F)
  <2>1. \E f : Chosen(f)
    BY <1>3, <1>6, <1>7, <1>8, RecursionTrace
  <2>2. Chosen(F)
    BY <2>1 DEF F
  <2>3. Recurs("Found", p, n, 0, F)
    BY <1>6, <2>2
  <2> QED BY <1>3, <1>7, <1>8, <2>3, RecursionTrace
<1>10. Among(done, given, Len(given))
  BY DEF RanOf, done
<1>11. F[Len(given)] = Len(done)
  BY <1>2, <1>9, <1>10, FoundAmong DEF n, p
<1> QED BY <1>1, <1>11 DEF n

\* What ran is among more than what was given before.
LEMMA RanOfMore ==
    ASSUME NEW g \in Text, NEW h \in Text, NEW r \in Seq(Run), RanOf(g, r)
    PROVE  RanOf(g \o h, r)
<1>1. Len(g) \in Nat /\ Len(g \o h) \in Nat /\ Len(g) <= Len(g \o h) /\ \A i \in 1..Len(g) : g[i] = (g \o h)[i]
  BY DEF Text
<1> DEFINE d == FlattenSeq(Texts(r))
           k == g \o h
           m == Len(g)
           n == Len(k)
<1>2. Among(d, g, m)
  BY DEF RanOf
<1> HIDE DEF d, m, n, k
<1>3. m \in Nat /\ n \in Nat /\ m <= n /\ \A i \in 1..m : g[i] = k[i]
  BY <1>1 DEF m, n, k
<1>4. Among(d, k, n)
  BY <1>2, <1>3, AmongMore
<1> QED BY <1>4 DEF RanOf, d, k, n

LEMMA CollectingRan ==
    ASSUME NEW g \in Text, NEW r \in Seq(Run), NEW p \in Text, Collecting(g, r, p)
    PROVE  RanOf(g, r)
BY RanOfMore DEF Collecting

LEMMA OwedRan ==
    ASSUME NEW g \in Text, NEW r \in Seq(Run), NEW b \in Seq(Statement), Owed(g, r, b)
    PROVE  RanOf(g, r)
<1>1. b \in Seq(Text)
  <2>1. Statement \subseteq Text
    BY DEF Statement
  <2> QED BY <2>1, SeqMonotonic
<1>2. Texts(r) \in Seq(Text) /\ FlattenSeq(Texts(r)) \in Text /\ FlattenSeq(b) \in Text
  BY <1>1, TextsTyped, FlatTyped DEF Text
<1>3. FlattenSeq(Texts(r) \o b) = FlattenSeq(Texts(r)) \o FlattenSeq(b)
  BY <1>1, <1>2, FlatConcat DEF Text
<1>4. Among(FlattenSeq(Texts(r)) \o FlattenSeq(b), g, Len(g)) /\ Len(g) \in Nat
  BY <1>3 DEF Owed, Text
<1> QED BY <1>2, <1>4, AmongPrefix DEF RanOf

LEMMA InvRunsOnce == SessionInv => RunsOnceInOrder
<1> SUFFICES ASSUME SessionInv PROVE RunsOnceInOrder
  OBVIOUS
<1>1. given \in Text /\ pending \in Text /\ ran \in Seq(Run) /\ batch \in Seq(Statement)
      /\ phase \in {"down", "prompt", "running", "ended"}
  BY DEF SessionInv, Typed, Run
<1>2. RanOf(given, ran)
  BY <1>1, CollectingRan, OwedRan DEF SessionInv
<1> QED BY <1>1, <1>2, RanInOrder

\* What is given anew is owed.
LEMMA OwedNext ==
    ASSUME NEW g \in Text, NEW r \in Seq(Run), RanOf(g, r), NEW t \in Text, Statements(t) # <<>>
    PROVE  Owed(g \o t, r, Statements(t))
<1> DEFINE d == FlattenSeq(Texts(r))
           b == Statements(t)
<1>1. Texts(r) \in Seq(Text) /\ d \in Text /\ b \in Seq(Text)
  BY TextsTyped, StatementsTyped
<1>2. FlattenSeq(b) \in Text
  BY <1>1, FlatTyped DEF Text
<1>3. Among(d, g, Len(g)) /\ Among(FlattenSeq(b), t, Len(t))
  BY StatementsAmong DEF RanOf
<1>4. FlattenSeq(Texts(r) \o b) = d \o FlattenSeq(b)
  BY <1>1, FlatConcat DEF Text
<1> HIDE DEF d, b
<1>5. Among(d \o FlattenSeq(b), g \o t, Len(g \o t))
  BY <1>1, <1>2, <1>3, AmongConcat
<1> QED BY <1>4, <1>5 DEF Owed, b

\* What follows a text does not change where statements end in it.
LEMMA EndsPrefix ==
    ASSUME NEW a \in Text, NEW b \in Text
    PROVE  /\ a \o b \in Text
           /\ \A i \in 1..Len(a) : i \in Ends(a \o b) <=> i \in Ends(a)
<1> DEFINE m == Len(a)
           Kept(x) == \A i \in 1..m : i \in Ends(a \o x) <=> i \in Ends(a)
           X == {x \in Text : Kept(x)}
<1>1. <<>> \in X
  <2>1. <<>> \in Text /\ a \o <<>> = a
    BY ConcatEmptySeq DEF Text
  <2> QED BY <2>1
<1>2. ASSUME NEW x \in X, NEW c \in Token PROVE Append(x, c) \in X
  <2> DEFINE y == a \o x
  <2>1. x \in Text /\ Append(x, c) \in Text /\ y \in Text /\ Len(y) \in Nat /\ m \in Nat /\ m <= Len(y)
    BY DEF Text
  <2>2. a \o Append(x, c) = Append(y, c)
    <3>1. <<c>> \in Seq(Token) /\ a \in Seq(Token) /\ x \in Seq(Token) /\ y \in Seq(Token)
      BY <2>1 DEF Text
    <3>2. Append(x, c) = x \o <<c>> /\ Append(y, c) = y \o <<c>>
      BY <3>1, AppendIsConcat
    <3> QED BY <3>1, <3>2, ConcatAssociative
  <2>3. Kept(x)
    OBVIOUS
  <2> HIDE DEF X, y
  <2>4. ASSUME NEW i \in 1..m PROVE i \in Ends(Append(y, c)) <=> i \in Ends(y)
    <3>1. i \in 1..Len(y)
      BY <2>1
    <3> QED BY <2>1, <3>1, EndsNext
  <2> HIDE DEF m
  <2>5. Kept(Append(x, c))
    BY <2>2, <2>3, <2>4 DEF y
  <2> QED BY <2>1, <2>5 DEF X
<1>3. X = Text
  <2>1. X \in SUBSET Text
    OBVIOUS
  <2> HIDE DEF X
  <2> QED BY <1>1, <1>2, <2>1, Appending DEF Text
<1>4. Kept(b)
  BY <1>3
<1>5. a \o b \in Text
  BY DEF Text
<1> QED BY <1>4, <1>5

LEMMA LineIsText == Line \subseteq Text
<1>1. Token \ {NL} \subseteq Token
  OBVIOUS
<1> QED BY <1>1, SeqMonotonic DEF Line, Text

\* In lines collected of which the last one completed a statement, all
\* statements end after the end of every earlier line.
LEMMA EndsInLastLine ==
    ASSUME NEW p \in Text, NEW b, Completed(p, b)
    PROVE  \A i \in Ends(p), j \in {0} \cup {k \in 1..Len(p) - 1 : p[k] = NL} : i > j
<1>1. PICK old \in Text, text \in Line : p = (old \o text) \o <<NL>> /\ Ends(old) = {}
  BY DEF Completed
<1>2. NL \in Token /\ text \in Text
  BY TextAssumption, LineIsText DEF Markers
<1>3. <<NL>> \in Text /\ text \o <<NL>> \in Text
  BY <1>2 DEF Text
<1>4. p = old \o (text \o <<NL>>)
  BY <1>1, <1>2, <1>3, ConcatAssociative DEF Text
<1> DEFINE m == Len(old)
           n == Len(text)
<1>5. /\ m \in Nat /\ n \in Nat /\ Len(p) = m + n + 1
      /\ \A k \in 1..n : p[m + k] = text[k]
  <2>1. text \in Seq(Token) /\ old \in Seq(Token) /\ <<NL>> \in Seq(Token)
    BY <1>2, <1>3 DEF Text
  <2>2. (old \o text) \in Seq(Token) /\ Len(old \o text) = m + n /\ m \in Nat /\ n \in Nat
        /\ \A k \in 1..n : (old \o text)[m + k] = text[k]
    BY <2>1
  <2>3. Len((old \o text) \o <<NL>>) = (m + n) + 1
        /\ \A k \in 1..m + n : ((old \o text) \o <<NL>>)[k] = (old \o text)[k]
    BY <2>1, <2>2
  <2>4. \A k \in 1..n : m + k \in 1..m + n
    BY <2>2
  <2> QED BY <1>1, <2>2, <2>3, <2>4
<1>6. \A k \in 1..n : text[k] # NL
  BY DEF Line
<1>7. \A i \in 1..m : i \notin Ends(p)
  BY <1>1, <1>3, <1>4, EndsPrefix
<1>8. \A i \in Ends(p) : i \in 1..Len(p)
  <2>1. DOMAIN p = 1..Len(p)
    BY DEF Text
  <2> QED BY <2>1 DEF Ends
<1> HIDE DEF m, n
<1>9. ASSUME NEW i \in Ends(p), NEW j \in 1..Len(p) - 1, p[j] = NL PROVE i > j
  <2>1. i \in 1..m + n + 1 /\ i > m
    BY <1>5, <1>7, <1>8
  <2>2. j <= m
    <3>1. CASE j > m
      <4>1. PICK k \in 1..n : j = m + k
        <5>1. j - m \in 1..n /\ j = m + (j - m)
          BY <1>5, <1>9, <3>1
        <5> QED BY <5>1
      <4> QED BY <1>5, <1>6, <1>9, <4>1
    <3> QED BY <1>5, <1>9, <3>1
  <2> QED BY <1>5, <1>9, <2>1, <2>2
<1>10. \A i \in Ends(p) : i > 0
  BY <1>5, <1>8
<1> QED BY <1>9, <1>10

LEMMA InvStatementsComplete == SessionInv => StatementsRunWhenComplete
<1> SUFFICES ASSUME SessionInv PROVE StatementsRunWhenComplete
  OBVIOUS
<1>1. pending \in Text /\ batch \in Seq(Statement)
  BY DEF SessionInv, Typed
<1>2. phase = "prompt" => Ends(pending) = {}
  BY DEF SessionInv, Collecting
<1>3. ASSUME phase = "running", mode = "repl"
      PROVE  /\ Ends(pending) # {}
             /\ \A i \in Ends(pending), j \in {0} \cup {k \in 1..Len(pending) - 1 : pending[k] = NL} : i > j
             /\ IsSuffix(batch, Cut(pending))
  <2>1. Completed(pending, batch)
    BY <1>3 DEF SessionInv
  <2>2. PICK u \in Seq(Statement) : Statements(pending) = u \o batch
    BY <2>1 DEF Completed
  <2>3. IsSuffix(batch, u \o batch)
    <3> HIDE DEF Statement
    <3> QED BY <1>1, SuffixOfConcat
  <2>4. IsSuffix(batch, Cut(pending))
    BY <1>1, <2>2, <2>3, StatementsAreCut
  <2>5. Ends(pending) # {}
    BY <2>1 DEF Completed
  <2> QED BY <1>1, <2>1, <2>4, <2>5, EndsInLastLine
<1> QED BY <1>2, <1>3 DEF StatementsRunWhenComplete

----------------------------------------------------------------------------
(* What the actions build is of its type *)

LEMMA NormalizedLine ==
    ASSUME NEW l \in Line
    PROVE  NormalizeReplLine(l) \in Line
<1>1. ReplOf(l) \in ReplState
  BY ReplNext DEF Line
<1>2. NormalizeReplLine(l) = ReplOf(l).out
  BY DEF NormalizeReplLine, ReplOf
<1> QED BY <1>1, <1>2 DEF ReplState

LEMMA ScriptIsText ==
    ASSUME NEW path
    PROVE  Script(path) \in Text
<1>1. <<>> \in Text
  BY DEF Text
<1> QED BY <1>1, TextAssumption DEF Script, Readable

\* The two parts of a line around a position.
LEMMA LineParts ==
    ASSUME NEW l \in Line, NEW c \in 0..Len(l)
    PROVE  /\ SubSeq(l, 1, c) \in Line /\ Len(SubSeq(l, 1, c)) = c
           /\ SubSeq(l, c + 1, Len(l)) \in Line /\ Len(SubSeq(l, c + 1, Len(l))) = Len(l) - c
<1> DEFINE S == Token \ {NL}
           n == Len(l)
<1>1. n \in Nat /\ c \in Nat /\ c <= n /\ \A i \in 1..n : l[i] \in S
  BY DEF Line
<1> HIDE DEF S
<1> HIDE DEF n
<1>2. \A i \in 1..c : l[i] \in S
  BY <1>1
<1>3. SubSeq(l, 1, c) \in Seq(S) /\ Len(SubSeq(l, 1, c)) = IF 1 <= c THEN c - 1 + 1 ELSE 0
  BY <1>1, <1>2, SubSeqProperties
<1>4. \A i \in c + 1..n : l[i] \in S
  BY <1>1
<1>5. SubSeq(l, c + 1, n) \in Seq(S) /\ Len(SubSeq(l, c + 1, n)) = IF c + 1 <= n THEN n - (c + 1) + 1 ELSE 0
  BY <1>1, <1>4, SubSeqProperties
<1>6. Len(SubSeq(l, 1, c)) = c /\ Len(SubSeq(l, c + 1, n)) = n - c
  BY <1>1, <1>3, <1>5
<1> QED BY <1>3, <1>5, <1>6 DEF Line, S, n

LEMMA LineConcat ==
    ASSUME NEW a \in Line, NEW b \in Line
    PROVE  a \o b \in Line /\ Len(a \o b) = Len(a) + Len(b)
BY DEF Line

LEMMA EmptyLine == <<>> \in Line /\ Len(<<>>) = 0 /\ <<>> \in Text
BY DEF Line, Text

\* A line without blanks.
LEMMA TrimmedLine ==
    ASSUME NEW l \in Line
    PROVE  Trimmed(l) \in Line
<1> DEFINE kept == {i \in DOMAIN l : l[i] # Blank}
<1>1. Trimmed(l) = Selected(l, kept)
  BY DEF Trimmed
<1> HIDE DEF kept
<1> QED BY <1>1, SelectedTyped DEF Line

LEMMA ContainsNext ==
    ASSUME NEW Item, NEW a \in Seq(Item), NEW c \in Item, NEW l
    PROVE  Contains(Append(a, c), l) <=> Contains(a, l) \/ l = c
<1> DEFINE n == Len(a)
           b == Append(a, c)
<1>1. /\ n \in Nat /\ Len(b) = n + 1 /\ b[n + 1] = c
      /\ \A i \in 1..n : b[i] = a[i]
  OBVIOUS
<1>2. /\ Contains(a, l) <=> \E i \in 1..n : a[i] = l
      /\ Contains(b, l) <=> \E i \in 1..n + 1 : b[i] = l
  BY <1>1 DEF Contains
<1> HIDE DEF n, b
<1>3. \A i : i \in 1..n + 1 <=> i \in 1..n \/ i = n + 1
  BY <1>1
<1> QED BY <1>1, <1>2, <1>3 DEF b

\* A marked line more is an entry more.
LEMMA LoadedMore ==
    ASSUME NEW f \in Seq(FileLine), NEW e \in Line
    PROVE  LET g == Append(f, [marked |-> TRUE, text |-> e]) IN
           /\ g \in Seq(FileLine) /\ Contains(Loaded(g), e)
           /\ \A l : Contains(Loaded(f), l) => Contains(Loaded(g), l)
<1> DEFINE x == [marked |-> TRUE, text |-> e]
           g == Append(f, x)
           s == LoadedOf(f)
           t == LoadedOf(g)
<1>1. x \in FileLine /\ x.text = e /\ x.marked = TRUE
  BY DEF FileLine
<1> HIDE DEF x
<1>2. g \in Seq(FileLine) /\ s \in LoadState /\ t = Adds("Loaded", s, x)
  BY <1>1, LoadedNext
<1> HIDE DEF s, t
<1>3. t = [s EXCEPT !.entries = Append(s.entries, e)]
  BY <1>1, <1>2 DEF Adds
<1>4. /\ s.entries \in Seq(Line) /\ s.joined \in Line
      /\ t.entries = Append(s.entries, e) /\ t.joined = s.joined
  BY <1>2, <1>3 DEF LoadState
<1> DEFINE a == s.entries
           b == Append(a, e)
           j == s.joined
<1>5. /\ Loaded(f) = IF j = <<>> THEN a ELSE Append(a, j)
      /\ Loaded(g) = IF j = <<>> THEN b ELSE Append(b, j)
  <2>1. \A lines : Loaded(lines) = IF LoadedOf(lines).joined = <<>> THEN LoadedOf(lines).entries
                                  ELSE Append(LoadedOf(lines).entries, LoadedOf(lines).joined)
    BY DEF Loaded, LoadedOf
  <2> QED BY <1>4, <2>1 DEF s, t
<1>6. a \in Seq(Line) /\ j \in Line /\ b \in Seq(Line)
  <2> HIDE DEF Line
  <2> QED BY <1>4
<1> HIDE DEF a, b, j, Line, g
<1>7. /\ \A l : Contains(b, l) <=> Contains(a, l) \/ l = e
      /\ \A l : Contains(Append(a, j), l) <=> Contains(a, l) \/ l = j
      /\ \A l : Contains(Append(b, j), l) <=> Contains(b, l) \/ l = j
  BY <1>6, ContainsNext DEF b
<1>8. Contains(Loaded(g), e) /\ \A l : Contains(Loaded(f), l) => Contains(Loaded(g), l)
  BY <1>5, <1>7
<1> QED BY <1>2, <1>8 DEF g, x

LEMMA HistoryStep ==
    ASSUME history \in Seq(Line), file \in Seq(FileLine), Filed(history, file),
           NEW e \in Line, AddHistoryEntry(e)
    PROVE  /\ history' \in Seq(Line) /\ file' \in Seq(FileLine) /\ Filed(history', file')
           /\ Last(history') = e /\ Contains(Loaded(file'), e)
<1> DEFINE g == Append(file, [marked |-> TRUE, text |-> e])
           h == Append(history, e)
           n == Len(history)
<1>1. n \in Nat /\ DOMAIN history = 1..n /\ (history # <<>> => n \in 1..n) /\ Last(history) = history[n]
  BY DEF Last
<1>2. CASE history # <<>> /\ Last(history) = e /\ history' = history /\ file' = file
  <2>1. Contains(Loaded(file), e)
    BY <1>1, <1>2 DEF Filed
  <2> QED BY <1>2, <2>1
<1>3. CASE history' = h /\ file' = g
  <2>1. /\ g \in Seq(FileLine) /\ Contains(Loaded(g), e)
        /\ \A l : Contains(Loaded(file), l) => Contains(Loaded(g), l)
    BY LoadedMore
  <2> HIDE DEF Line, g
  <2>2. /\ h \in Seq(Line) /\ DOMAIN h = 1..n + 1 /\ Len(h) = n + 1 /\ h[n + 1] = e
        /\ \A k \in 1..n : h[k] = history[k]
    OBVIOUS
  <2> HIDE DEF h, n
  <2>3. Last(h) = e
    BY <2>2 DEF Last
  <2>4. ASSUME NEW k \in DOMAIN h PROVE Contains(Loaded(g), h[k])
    <3>1. k \in 1..n \/ k = n + 1
      BY <1>1, <2>2
    <3> QED BY <1>1, <2>1, <2>2, <3>1 DEF Filed
  <2> QED BY <1>3, <2>1, <2>2, <2>3, <2>4 DEF Filed
<1>4. \/ history # <<>> /\ Last(history) = e /\ history' = history /\ file' = file
      \/ history' = h /\ file' = g
  BY DEF AddHistoryEntry
<1> QED BY <1>2, <1>3, <1>4

----------------------------------------------------------------------------
(* What ran, and what is left, as statements are executed *)

LEMMA NothingRan ==
    /\ <<>> \in Seq(Run) /\ Failures(<<>>) = {} /\ Texts(<<>>) = <<>>
    /\ \A g \in Text : RanOf(g, <<>>)
<1>1. <<>> \in Seq(Run) /\ Failures(<<>>) = {}
  BY DEF Failures
<1>2. RanOf(<<>>, <<>>)
  BY TextsNone, FlatNone, AmongNothing DEF RanOf
<1>3. ASSUME NEW g \in Text PROVE RanOf(g, <<>>)
  <2>1. <<>> \o g = g
    BY ConcatEmptySeq DEF Text
  <2>2. RanOf(<<>> \o g, <<>>)
    BY <1>1, <1>2, EmptyLine, RanOfMore
  <2> QED BY <2>1, <2>2
<1> QED BY <1>1, <1>3, TextsNone

LEMMA NothingStated == Statements(<<>>) = <<>> /\ Cut(<<>>) = <<>> /\ Ends(<<>>) = {}
<1>1. Ends(<<>>) = {}
  BY DEF Ends
<1>2. Scan(<<>>) = [in |-> Outside, text |-> <<>>, done |-> <<>>]
  BY ScanNext DEF ScanStart
<1>3. Statements(<<>>) = <<>>
  BY <1>2 DEF Statements
<1> QED BY <1>1, <1>3, EmptyLine, StatementsAreCut

\* The head of what is left has run.
LEMMA OwedStep ==
    ASSUME NEW g \in Text, NEW r \in Seq(Run), NEW b \in Seq(Statement), Owed(g, r, b),
           NEW x \in Run, x.text = Head(b)
    PROVE  /\ Append(r, x) \in Seq(Run)
           /\ Tail(b) \in Seq(Statement)
           /\ Texts(Append(r, x)) \o Tail(b) = Texts(r) \o b
           /\ RanOf(g, Append(r, x))
           /\ Tail(b) # <<>> => Owed(g, Append(r, x), Tail(b))
<1> DEFINE s == Append(r, x)
           t == Tail(b)
           h == Head(b)
<1>1. b # <<>>
  BY DEF Owed
<1>2. s \in Seq(Run)
  <2> HIDE DEF Run
  <2> QED OBVIOUS
<1>3. t \in Seq(Statement) /\ h \in Statement /\ b = <<h>> \o t
  <2> HIDE DEF Statement
  <2>1. t \in Seq(Statement) /\ h \in Statement
    BY <1>1, HeadTailProperties
  <2>2. b = <<h>> \o t
    BY <1>1
  <2> QED BY <2>1, <2>2
<1>4. Texts(s) = Append(Texts(r), h)
  BY TextsNext
<1>5. Texts(r) \in Seq(Statement)
  BY TextsTyped
<1> HIDE DEF s, t, h, Statement, Run
<1>6. Texts(s) \o t = Texts(r) \o b
  <2>1. <<h>> \in Seq(Statement)
    BY <1>3
  <2>2. Append(Texts(r), h) = Texts(r) \o <<h>>
    BY <1>3, <1>5, AppendIsConcat
  <2>3. (Texts(r) \o <<h>>) \o t = Texts(r) \o (<<h>> \o t)
    BY <1>3, <1>5, <2>1, ConcatAssociative
  <2> QED BY <1>3, <1>4, <2>2, <2>3
<1>7. CASE t = <<>>
  <2>1. Texts(s) \in Seq(Statement)
    BY <1>2, TextsTyped
  <2>2. Texts(s) = Texts(r) \o b
    BY <1>6, <1>7, <2>1, ConcatEmptySeq
  <2>3. RanOf(g, s)
    BY <2>2 DEF Owed, RanOf
  <2> QED BY <1>2, <1>3, <1>6, <1>7, <2>3 DEF s, t
<1>8. CASE t # <<>>
  <2>1. Owed(g, s, t)
    BY <1>6, <1>8 DEF Owed
  <2>2. RanOf(g, s)
    BY <1>2, <1>3, <2>1, OwedRan
  <2> QED BY <1>2, <1>3, <1>6, <2>1, <2>2 DEF s, t
<1> QED BY <1>7, <1>8

\* What ran stays a failure or a success; the last is one of them.
LEMMA FailuresNext ==
    ASSUME NEW r \in Seq(Run), NEW x \in Run
    PROVE  Failures(Append(r, x)) = Failures(r) \cup (IF x.ok THEN {} ELSE {Len(r) + 1})
<1> DEFINE n == Len(r)
           s == Append(r, x)
<1>1. /\ n \in Nat /\ DOMAIN r = 1..n /\ DOMAIN s = 1..n + 1
      /\ \A k \in 1..n : s[k] = r[k]
      /\ s[n + 1] = x
  <2> HIDE DEF Run
  <2> QED OBVIOUS
<1> HIDE DEF n, s
<1>2. ASSUME NEW k
      PROVE  k \in Failures(s) <=> k \in Failures(r) \/ (~x.ok /\ k = n + 1)
  <2>1. CASE k \in 1..n
    <3>1. k \in 1..n + 1 /\ k # n + 1
      BY <1>1, <2>1
    <3> QED BY <1>1, <2>1, <3>1 DEF Failures
  <2>2. CASE k = n + 1
    <3>1. k \in 1..n + 1 /\ k \notin 1..n
      BY <1>1, <2>2
    <3> QED BY <1>1, <2>2, <3>1 DEF Failures
  <2>3. CASE k \notin 1..n /\ k # n + 1
    <3>1. k \notin 1..n + 1
      BY <1>1, <2>3
    <3> QED BY <1>1, <2>3, <3>1 DEF Failures
  <2> QED BY <2>1, <2>2, <2>3
<1> QED BY <1>2 DEF s, n

----------------------------------------------------------------------------
(* The invariant is kept: keys that change the line only *)

LEMMA InvEditing ==
    ASSUME SessionInv, phase = "prompt", NotTaken,
           line' \in Line, cursor' \in 0..Len(line'), recalled' \in Nat
    PROVE  SessionInv'
<1>1. /\ phase' = "prompt" /\ mode' = mode /\ repl' = repl /\ failed' = failed /\ queue' = queue
      /\ pending' = pending /\ given' = given /\ batch' = batch /\ ran' = ran
      /\ history' = history /\ file' = file /\ command' = command
  BY DEF NotTaken
<1>2. Typed'
  BY <1>1 DEF SessionInv, Typed
<1>3. repl /\ mode = "repl" /\ Collecting(given, ran, pending) /\ Filed(history, file)
  BY DEF SessionInv
<1>4. ExitTells'
  BY <1>1 DEF ExitTells
<1> QED BY <1>1, <1>2, <1>3, <1>4 DEF SessionInv

LEMMA InvType ==
    ASSUME SessionInv, NEW text \in Keyed, Type(text)
    PROVE  SessionInv'
<1>1. /\ phase = "prompt" /\ NotTaken /\ recalled' = recalled
      /\ line' = (Before \o text) \o After /\ cursor' = cursor + Len(text)
  <2>1. line' = Before \o text \o After
    BY DEF Type
  <2> QED BY <2>1 DEF Type, Key, Editing
<1>2. line \in Line /\ cursor \in 0..Len(line) /\ recalled \in Nat /\ text \in Line
  BY TextAssumption DEF SessionInv, Typed
<1>3. /\ Before \in Line /\ Len(Before) = cursor /\ After \in Line /\ Len(After) = Len(line) - cursor
  BY <1>2, LineParts DEF Before, After
<1>4. /\ line' \in Line
      /\ Len(line') = (cursor + Len(text)) + (Len(line) - cursor)
  <2>1. Before \o text \in Line /\ Len(Before \o text) = cursor + Len(text)
    BY <1>2, <1>3, LineConcat
  <2>2. (Before \o text) \o After \in Line
        /\ Len((Before \o text) \o After) = (cursor + Len(text)) + (Len(line) - cursor)
    BY <1>3, <2>1, LineConcat
  <2> QED BY <1>1, <2>2
<1>5. cursor' \in 0..Len(line')
  <2>1. Len(line) \in Nat /\ Len(text) \in Nat /\ cursor \in Nat
    BY <1>2 DEF Line
  <2> QED BY <1>1, <1>2, <1>4, <2>1
<1> QED BY <1>1, <1>2, <1>4, <1>5, InvEditing

LEMMA InvErase ==
    ASSUME SessionInv, Erase
    PROVE  SessionInv'
<1>1. /\ phase = "prompt" /\ NotTaken /\ recalled' = recalled
      /\ \/ cursor > 0 /\ line' = SubSeq(line, 1, cursor - 1) \o After /\ cursor' = cursor - 1
         \/ cursor < Len(line) /\ line' = Before \o Tail(After) /\ cursor' = cursor
  BY DEF Erase, Key, Editing
<1>2. line \in Line /\ cursor \in 0..Len(line) /\ recalled \in Nat
  BY DEF SessionInv, Typed
<1>3. Len(line) \in Nat /\ cursor \in Nat /\ cursor <= Len(line)
  BY <1>2 DEF Line
<1>4. /\ Before \in Line /\ Len(Before) = cursor /\ After \in Line /\ Len(After) = Len(line) - cursor
  BY <1>2, LineParts DEF Before, After
<1>5. CASE cursor > 0 /\ line' = SubSeq(line, 1, cursor - 1) \o After /\ cursor' = cursor - 1
  <2>1. cursor - 1 \in 0..Len(line)
    BY <1>3, <1>5
  <2>2. SubSeq(line, 1, cursor - 1) \in Line /\ Len(SubSeq(line, 1, cursor - 1)) = cursor - 1
    BY <1>2, <2>1, LineParts
  <2>3. /\ SubSeq(line, 1, cursor - 1) \o After \in Line
        /\ Len(SubSeq(line, 1, cursor - 1) \o After) = (cursor - 1) + (Len(line) - cursor)
    BY <1>4, <2>2, LineConcat
  <2>4. cursor - 1 \in 0..(cursor - 1) + (Len(line) - cursor)
    BY <1>3, <1>5
  <2> QED BY <1>1, <1>2, <1>5, <2>3, <2>4, InvEditing
<1>6. CASE cursor < Len(line) /\ line' = Before \o Tail(After) /\ cursor' = cursor
  <2>1. After # <<>>
    <3>1. Len(After) > 0
      BY <1>3, <1>4, <1>6
    <3> QED BY <3>1
  <2>2. Tail(After) \in Line /\ Len(Tail(After)) = Len(line) - cursor - 1
    BY <1>4, <2>1, HeadTailProperties DEF Line
  <2>3. /\ Before \o Tail(After) \in Line
        /\ Len(Before \o Tail(After)) = cursor + (Len(line) - cursor - 1)
    BY <1>4, <2>2, LineConcat
  <2>4. cursor \in 0..cursor + (Len(line) - cursor - 1)
    BY <1>3, <1>6
  <2> QED BY <1>1, <1>2, <1>6, <2>3, <2>4, InvEditing
<1> QED BY <1>1, <1>5, <1>6

LEMMA InvMoveCursor ==
    ASSUME SessionInv, MoveCursor
    PROVE  SessionInv'
<1>1. /\ phase = "prompt" /\ NotTaken /\ recalled' = recalled /\ line' = line
      /\ cursor' \in 0..Len(line)
  BY DEF MoveCursor, Key, Editing
<1>2. line \in Line /\ recalled \in Nat
  BY DEF SessionInv, Typed
<1> QED BY <1>1, <1>2, InvEditing

LEMMA InvRecall ==
    ASSUME SessionInv, Recall
    PROVE  SessionInv'
<1>1. /\ phase = "prompt" /\ NotTaken
      /\ recalled' \in 1..Len(history) + 1
      /\ line' = (IF recalled' > Len(history) THEN <<>> ELSE history[recalled'])
      /\ cursor' = Len(line')
  BY DEF Recall, Key, Editing
<1>2. history \in Seq(Line) /\ Len(history) \in Nat /\ recalled' \in Nat
  <2>1. history \in Seq(Line)
    BY DEF SessionInv, Typed
  <2>2. Len(history) \in Nat
    BY <2>1
  <2> QED BY <1>1, <2>1, <2>2
<1>3. line' \in Line
  <2>1. CASE recalled' > Len(history)
    BY <1>1, <2>1, EmptyLine
  <2>2. CASE ~(recalled' > Len(history))
    <3>1. recalled' \in 1..Len(history)
      BY <1>1, <1>2, <2>2
    <3>2. \A k \in 1..Len(history) : history[k] \in Line
      <4> HIDE DEF Line
      <4> QED BY <1>2
    <3> QED BY <1>1, <2>2, <3>1, <3>2
  <2> QED BY <2>1, <2>2
<1>4. cursor' \in 0..Len(line')
  BY <1>1, <1>3 DEF Line
<1> QED BY <1>1, <1>2, <1>3, <1>4, InvEditing

----------------------------------------------------------------------------
(* The invariant is kept: a line is taken *)

\* The prompt remains as it was, but for the history.
LEMMA InvPrompt ==
    ASSUME SessionInv, phase = "prompt", queue' \in Seq(Line), FreshLine,
           UNCHANGED <<phase, mode, repl, ran, pending, batch, given, command>>,
           failed' \in Nat,
           history' \in Seq(Line), file' \in Seq(FileLine), Filed(history', file')
    PROVE  SessionInv'
<1>1. line' = <<>> /\ cursor' = 0 /\ recalled' = Len(history') + 1
  BY DEF FreshLine
<1>2. recalled' \in Nat
  BY <1>1
<1>3. Typed'
  BY <1>1, <1>2, EmptyLine DEF SessionInv, Typed
<1>4. repl /\ mode = "repl" /\ Collecting(given, ran, pending)
  BY DEF SessionInv
<1>5. ExitTells'
  BY DEF ExitTells
<1> QED BY <1>3, <1>4, <1>5 DEF SessionInv

LEMMA InvMeta ==
    ASSUME SessionInv, phase = "prompt", queue' \in Seq(Line), FreshLine,
           UNCHANGED <<starts, repl, ran, pending>>,
           NEW text \in Line, IsMeta(text), MetaCommand(text)
    PROVE  SessionInv'
<1>1. /\ given \in Text /\ pending \in Text /\ ran \in Seq(Run) /\ history \in Seq(Line)
      /\ file \in Seq(FileLine) /\ Filed(history, file) /\ failed \in Nat
      /\ mode = "repl" /\ repl = TRUE /\ Collecting(given, ran, pending)
      /\ batch \in Seq(Statement) /\ command \in Line
  BY DEF SessionInv, Typed, Run
<1>2. RanOf(given, ran)
  BY <1>1, CollectingRan
<1>3. line' = <<>> /\ cursor' = 0 /\ recalled' = Len(history') + 1
  BY DEF FreshLine
<1>4. repl' = TRUE /\ ran' = ran /\ pending' = pending
  BY <1>1
<1>5. ASSUME history' \in Seq(Line), file' \in Seq(FileLine), failed' \in Nat,
             phase' \in {"running", "ended"}, mode' \in {"repl", "script"},
             given' \in Text, batch' \in Seq(Statement), command' \in Line
      PROVE  Typed'
  <2>1. recalled' \in Nat
    BY <1>3, <1>5
  <2> QED BY <1>1, <1>3, <1>4, <1>5, <2>1, EmptyLine DEF Typed, Run
<1>6. ASSUME AddHistoryEntry(text)
      PROVE  history' \in Seq(Line) /\ file' \in Seq(FileLine) /\ Filed(history', file')
  BY <1>1, <1>6, HistoryStep
<1>7. CASE Head(text) = ".quit"
  <2>1. phase' = "ended" /\ AddHistoryEntry(text) /\ UNCHANGED <<mode, batch, given, failed, command>>
    BY <1>7 DEF MetaCommand, End
  <2>2. Typed'
    BY <1>1, <1>5, <1>6, <2>1
  <2>3. RanOf(given', ran')
    BY <1>2, <1>4, <2>1
  <2>4. ExitTells'
    BY <1>4 DEF ExitTells
  <2> QED BY <1>4, <1>6, <2>1, <2>2, <2>3, <2>4 DEF SessionInv
<1>8. CASE Head(text) = ".run"
  <2> DEFINE path == IF Len(text) = 1 THEN "" ELSE text[2]
             script == Script(path)
  <2>1. /\ failed' = 0
        /\ \/ RunScript(path) /\ given' = given \o script /\ command' = text /\ UNCHANGED <<history, file>>
           \/ AddHistoryEntry(text) /\ UNCHANGED <<phase, mode, batch, given, command>>
    BY <1>8 DEF MetaCommand
  <2>2. CASE RunScript(path) /\ given' = given \o script /\ command' = text /\ UNCHANGED <<history, file>>
    <3>1. /\ phase' = "running" /\ mode' = "script" /\ batch' = Statements(script)
          /\ Statements(script) # <<>> /\ script \in Text
      BY <2>2, ScriptIsText DEF RunScript, Runs
    <3>2. Owed(given \o script, ran, Statements(script))
      BY <1>1, <1>2, <3>1, OwedNext
    <3>3. given \o script \in Text /\ Statements(script) \in Seq(Statement)
      BY <1>1, <3>1, EndsPrefix, StatementsTyped
    <3>4. Typed'
      BY <1>1, <1>5, <2>1, <2>2, <3>1, <3>3
    <3>5. ExitTells'
      BY <1>4 DEF ExitTells
    <3>6. Owed(given', ran', batch')
      BY <1>4, <2>2, <3>1, <3>2
    <3>7. Filed(history', file')
      BY <1>1, <2>2
    <3> QED BY <1>4, <2>1, <3>1, <3>4, <3>5, <3>6, <3>7 DEF SessionInv
  <2>3. CASE AddHistoryEntry(text) /\ UNCHANGED <<phase, mode, batch, given, command>>
    BY <1>6, <2>1, <2>3, InvPrompt
  <2> QED BY <2>1, <2>2, <2>3
<1>9. CASE Head(text) = ".tables"
  <2>1. AddHistoryEntry(text) /\ UNCHANGED <<phase, mode, batch, given, failed, command>>
    BY <1>9 DEF MetaCommand
  <2> QED BY <1>1, <1>6, <2>1, InvPrompt
<1>10. CASE Head(text) \notin {".quit", ".run", ".tables"}
  <2>1. UNCHANGED <<phase, mode, batch, given, failed, command, history, file>>
    BY <1>10 DEF MetaCommand
  <2> QED BY <1>1, <2>1, InvPrompt
<1> QED BY <1>7, <1>8, <1>9, <1>10

LEMMA InvCollect ==
    ASSUME SessionInv, phase = "prompt", queue' \in Seq(Line), FreshLine,
           UNCHANGED <<starts, repl, ran>>,
           NEW text \in Line, Collect(text)
    PROVE  SessionInv'
<1> DEFINE collected == (pending \o text) \o <<NL>>
           all == (given \o text) \o <<NL>>
<1>1. /\ given \in Text /\ pending \in Text /\ ran \in Seq(Run) /\ history \in Seq(Line)
      /\ file \in Seq(FileLine) /\ Filed(history, file)
      /\ mode = "repl" /\ repl = TRUE /\ Ends(pending) = {}
      /\ batch \in Seq(Statement) /\ command \in Line
  BY DEF SessionInv, Typed, Run, Collecting
<1>2. PICK a \in Text : given = a \o pending /\ RanOf(a, ran)
  BY DEF SessionInv, Collecting
<1>3. text \in Text /\ <<NL>> \in Text
  <2>1. NL \in Token
    BY TextAssumption DEF Markers
  <2> QED BY <2>1, LineIsText DEF Text
<1>4. collected \in Text /\ all \in Text /\ all = a \o collected
  <2>1. pending \o text \in Text /\ given \o text \in Text
    BY <1>1, <1>3, EndsPrefix
  <2>2. collected \in Text /\ all \in Text
    BY <1>3, <2>1, EndsPrefix
  <2>3. given \o text = a \o (pending \o text)
    BY <1>1, <1>2, <1>3, ConcatAssociative, SMTT(30) DEF Text
  <2>4. all = a \o collected
    BY <1>2, <1>3, <2>1, <2>3, ConcatAssociative, SMTT(30) DEF Text
  <2> QED BY <2>2, <2>4
<1>5. /\ given' = all /\ failed' = 0 /\ history' = history /\ file' = file /\ command' = command
      /\ \/ /\ ~ContainsStatementTerminator(collected)
            /\ pending' = collected /\ UNCHANGED <<phase, mode, batch>>
         \/ /\ ContainsStatementTerminator(collected)
            /\ pending' = <<>> /\ UNCHANGED <<phase, mode, batch>>
         \/ /\ ContainsStatementTerminator(collected)
            /\ ~(Unterminated(collected) \/ Statements(collected) = <<>>)
            /\ pending' = collected
            /\ batch' = Statements(collected) /\ phase' = "running" /\ mode' = "repl"
  BY DEF Collect
<1>6. /\ line' = <<>> /\ cursor' = 0 /\ recalled' = Len(history') + 1
      /\ repl' = TRUE /\ ran' = ran
  BY <1>1 DEF FreshLine
<1>7. ExitTells'
  BY <1>6 DEF ExitTells
<1> HIDE DEF collected, all
<1>8. ASSUME pending' \in Text, phase' \in {"prompt", "running"}, mode' = "repl", batch' \in Seq(Statement)
      PROVE  Typed'
  <2>1. recalled' \in Nat
    BY <1>1, <1>5, <1>6
  <2> QED BY <1>1, <1>4, <1>5, <1>6, <1>8, <2>1, EmptyLine DEF Typed, Run
<1>9. CASE /\ ~ContainsStatementTerminator(collected)
           /\ pending' = collected /\ UNCHANGED <<phase, mode, batch>>
  <2>1. Ends(collected) = {}
    BY <1>4, <1>9, TerminatorIsEnd
  <2>2. Collecting(all, ran, collected)
    BY <1>2, <1>4, <2>1 DEF Collecting
  <2>3. Typed'
    BY <1>1, <1>4, <1>8, <1>9
  <2>4. Collecting(given', ran', pending')
    BY <1>5, <1>6, <1>9, <2>2
  <2>5. phase' = "prompt" /\ mode' = "repl"
    BY <1>1, <1>9
  <2> QED BY <1>1, <1>5, <1>6, <1>7, <2>3, <2>4, <2>5 DEF SessionInv
<1>10. CASE pending' = <<>> /\ UNCHANGED <<phase, mode, batch>>
  <2>1. RanOf(all, ran)
    BY <1>1, <1>2, <1>4, RanOfMore
  <2>2. all \o <<>> = all
    BY <1>4, ConcatEmptySeq DEF Text
  <2>3. Collecting(all, ran, <<>>)
    BY <1>4, <2>1, <2>2, NothingStated DEF Collecting
  <2>4. Typed'
    BY <1>1, <1>8, <1>10, EmptyLine
  <2>5. Collecting(given', ran', pending')
    BY <1>5, <1>6, <1>10, <2>3
  <2>6. phase' = "prompt" /\ mode' = "repl"
    BY <1>1, <1>10
  <2> QED BY <1>1, <1>5, <1>6, <1>7, <2>4, <2>5, <2>6 DEF SessionInv
<1>11. CASE /\ ContainsStatementTerminator(collected)
            /\ ~(Unterminated(collected) \/ Statements(collected) = <<>>)
            /\ pending' = collected
            /\ batch' = Statements(collected) /\ phase' = "running" /\ mode' = "repl"
  <2>1. Owed(all, ran, Statements(collected))
    BY <1>1, <1>2, <1>4, <1>11, OwedNext
  <2>2. Statements(collected) \in Seq(Statement)
    BY <1>4, StatementsTyped
  <2>3. Completed(collected, Statements(collected))
    <3>1. Ends(collected) # {}
      BY <1>4, <1>11, TerminatorIsEnd
    <3>2. <<>> \in Seq(Statement) /\ <<>> \o Statements(collected) = Statements(collected)
      <4> HIDE DEF Statement
      <4> QED BY <2>2, ConcatEmptySeq
    <3>3. \E old \in Text, t \in Line : collected = (old \o t) \o <<NL>> /\ Ends(old) = {}
      BY <1>1 DEF collected
    <3> QED BY <1>11, <3>1, <3>2, <3>3 DEF Completed
  <2>4. Typed'
    BY <1>4, <1>8, <1>11, <2>2
  <2>5. Owed(given', ran', batch') /\ Completed(pending', batch')
    BY <1>5, <1>6, <1>11, <2>1, <2>3
  <2> QED BY <1>1, <1>5, <1>6, <1>7, <1>11, <2>4, <2>5 DEF SessionInv
<1> QED BY <1>5, <1>9, <1>10, <1>11

LEMMA InvTakeLine ==
    ASSUME SessionInv, phase = "prompt", queue' \in Seq(Line),
           NEW typed \in Line, TakeLine(typed)
    PROVE  SessionInv'
<1> DEFINE text == NormalizeReplLine(typed)
           trimmed == Trimmed(text)
<1>1. text \in Line /\ trimmed \in Line
  <2>1. text \in Line
    BY NormalizedLine
  <2> HIDE DEF text
  <2> QED BY <2>1, TrimmedLine
<1>2. /\ FreshLine /\ UNCHANGED <<starts, repl, ran>>
      /\ \/ UNCHANGED <<phase, mode, exit, pending, batch, given, failed, command, history, file>>
         \/ IsMeta(trimmed) /\ MetaCommand(trimmed) /\ UNCHANGED pending
         \/ Collect(text)
  BY DEF TakeLine
<1> HIDE DEF text, trimmed
<1>3. CASE UNCHANGED <<phase, mode, exit, pending, batch, given, failed, command, history, file>>
  <2>1. failed \in Nat /\ history \in Seq(Line) /\ file \in Seq(FileLine) /\ Filed(history, file)
    BY DEF SessionInv, Typed
  <2> QED BY <1>2, <1>3, <2>1, InvPrompt
<1>4. CASE IsMeta(trimmed) /\ MetaCommand(trimmed) /\ UNCHANGED pending
  BY <1>1, <1>2, <1>4, InvMeta
<1>5. CASE Collect(text)
  BY <1>1, <1>2, <1>5, InvCollect
<1> QED BY <1>2, <1>3, <1>4, <1>5

LEMMA InvReadQueued ==
    ASSUME SessionInv, ReadQueued
    PROVE  SessionInv'
<1>1. phase = "prompt" /\ queue # <<>> /\ queue' = Tail(queue) /\ TakeLine(Head(queue))
  BY DEF ReadQueued
<1>2. queue \in Seq(Line)
  BY DEF SessionInv, Typed
<1>3. Head(queue) \in Line /\ Tail(queue) \in Seq(Line)
  BY <1>1, <1>2, HeadTailProperties
<1> QED BY <1>1, <1>3, InvTakeLine

LEMMA InvEnter ==
    ASSUME SessionInv, Enter \/ Interrupt
    PROVE  SessionInv'
<1>1. phase = "prompt" /\ queue' = queue /\ (TakeLine(line) \/ TakeLine(<<>>))
  BY DEF Enter, Interrupt, Key, Editing
<1>2. queue \in Seq(Line) /\ line \in Line /\ <<>> \in Line
  BY EmptyLine DEF SessionInv, Typed
<1> QED BY <1>1, <1>2, InvTakeLine

LEMMA InvPaste ==
    ASSUME SessionInv, NEW text \in Pasted, Paste(text)
    PROVE  SessionInv'
<1> DEFINE all == (Before \o text) \o After
           lines == Lines(all)
<1>1. /\ phase = "prompt"
      /\ \/ line' = lines[1] /\ cursor' = Len(line') /\ recalled' = recalled /\ NotTaken
         \/ queue' = Tail(lines) /\ TakeLine(lines[1])
  <2>1. lines = Lines(Before \o text \o After)
    OBVIOUS
  <2> QED BY <2>1 DEF Paste, Key, Editing
<1>2. line \in Line /\ cursor \in 0..Len(line) /\ recalled \in Nat /\ text \in Text
  BY TextAssumption DEF SessionInv, Typed
<1>3. Before \in Text /\ After \in Text
  BY <1>2, LineParts, LineIsText DEF Before, After
<1>4. all \in Text
  BY <1>2, <1>3, EndsPrefix
<1> HIDE DEF all
<1>5. lines \in Seq(Line) /\ lines # <<>>
  BY <1>4, LinesNext DEF LinesState, Text
<1> HIDE DEF lines
<1>6. lines[1] \in Line /\ Tail(lines) \in Seq(Line)
  <2>1. Head(lines) \in Line /\ Tail(lines) \in Seq(Line)
    BY <1>5, HeadTailProperties
  <2>2. Head(lines) = lines[1]
    BY <1>5
  <2> QED BY <2>1, <2>2
<1>7. CASE line' = lines[1] /\ cursor' = Len(line') /\ recalled' = recalled /\ NotTaken
  <2>1. line' \in Line /\ cursor' \in 0..Len(line')
    BY <1>6, <1>7 DEF Line
  <2> QED BY <1>1, <1>2, <1>7, <2>1, InvEditing
<1>8. CASE queue' = Tail(lines) /\ TakeLine(lines[1])
  BY <1>1, <1>6, <1>8, InvTakeLine
<1> QED BY <1>1, <1>7, <1>8

----------------------------------------------------------------------------
(* The invariant is kept: the end, and the beginning *)

LEMMA InvEnd ==
    ASSUME SessionInv, EndOfInput \/ Kill
    PROVE  SessionInv'
<1>1. /\ phase \in {"prompt", "running"} /\ phase' = "ended"
      /\ UNCHANGED <<mode, repl, line, cursor, recalled, queue, pending, batch>>
      /\ UNCHANGED <<failed, command, history, file, given, ran>>
      /\ phase = "prompt" \/ exit' = Killed
  BY DEF EndOfInput, Kill, End, Editing, editor
<1>2. Typed'
  BY <1>1 DEF SessionInv, Typed
<1>3. given \in Text /\ pending \in Text /\ ran \in Seq(Run) /\ batch \in Seq(Statement)
  BY DEF SessionInv, Typed, Run
<1>4. RanOf(given, ran)
  <2>1. CASE phase = "prompt"
    BY <1>3, <2>1, CollectingRan DEF SessionInv
  <2>2. CASE phase = "running"
    BY <1>3, <2>2, OwedRan DEF SessionInv
  <2> QED BY <1>1, <2>1, <2>2
<1>5. RanOf(given', ran')
  BY <1>1, <1>4
<1>6. ExitTells'
  <2>1. CASE phase = "prompt"
    <3>1. repl' = TRUE
      BY <1>1, <2>1 DEF SessionInv, Typed
    <3> QED BY <3>1 DEF ExitTells
  <2>2. CASE exit' = Killed
    <3>1. (exit # Killed)' = FALSE
      BY <2>2 DEF Killed
    <3> QED BY <3>1 DEF ExitTells
  <2> QED BY <1>1, <2>1, <2>2
<1>7. Filed(history, file)'
  BY <1>1 DEF SessionInv
<1> QED BY <1>1, <1>2, <1>5, <1>6, <1>7 DEF SessionInv

LEMMA InvInit ==
    ASSUME Init
    PROVE  SessionInv
<1>1. file \in Seq(FileLine) /\ Filed(history, file)
  <2> DEFINE Old == [marked : {FALSE}, text : Line]
  <2>1. file \in Seq(Old) /\ history = <<>>
    BY TextAssumption DEF Init
  <2>2. Old \subseteq FileLine
    BY DEF FileLine
  <2> HIDE DEF Old
  <2>3. file \in Seq(FileLine)
    BY <2>1, <2>2, SeqMonotonic
  <2> QED BY <2>1, <2>3 DEF Filed
<1>2. <<>> \in Seq(Line) /\ <<>> \in Seq(Statement) /\ <<>> \in Seq([text : Statement, ok : BOOLEAN])
  BY DEF Statement
<1>3. Typed
  <2>1. /\ phase = "down" /\ mode = "repl" /\ repl = FALSE /\ failed = 0
        /\ line = <<>> /\ cursor = 0 /\ recalled = 0 /\ queue = <<>> /\ pending = <<>>
        /\ batch = <<>> /\ command = <<>> /\ history = <<>> /\ given = <<>> /\ ran = <<>>
    BY DEF Init
  <2>2. line \in Line /\ cursor \in 0..Len(line) /\ command \in Line
    BY <2>1, EmptyLine
  <2>3. pending \in Text /\ given \in Text /\ queue \in Seq(Line) /\ history \in Seq(Line)
    BY <1>2, <2>1, EmptyLine
  <2>4. batch \in Seq(Statement) /\ ran \in Seq([text : Statement, ok : BOOLEAN])
    BY <1>2, <2>1
  <2> QED BY <1>1, <2>1, <2>2, <2>3, <2>4 DEF Typed
<1>4. RanOf(given, ran)
  BY EmptyLine, NothingRan DEF Init
<1>5. ExitTells
  BY DEF ExitTells, Init
<1>6. phase = "down"
  BY DEF Init
<1> QED BY <1>1, <1>3, <1>4, <1>5, <1>6 DEF SessionInv

\* What is given to start with is owed; nothing else has run.
LEMMA OwedFirst ==
    ASSUME NEW t \in Text, Statements(t) # <<>>
    PROVE  Owed(t, <<>>, Statements(t)) /\ Texts(<<>>) \o Statements(t) = Statements(t)
<1>1. <<>> \o t = t
  BY ConcatEmptySeq DEF Text
<1>2. Owed(<<>> \o t, <<>>, Statements(t))
  BY NothingRan, EmptyLine, OwedNext
<1>3. <<>> \o Statements(t) = Statements(t)
  BY StatementsTyped, ConcatEmptySeq
<1> QED BY <1>1, <1>2, <1>3, NothingRan

LEMMA InvStart ==
    ASSUME SessionInv, NEW arguments \in ArgumentLists, Start(arguments)
    PROVE  SessionInv'
<1> DEFINE o == Options(arguments)
           path == IF o.mode = "default" THEN DefaultPath ELSE IF o.text = <<>> THEN "" ELSE Head(o.text)
           script == Script(path)
<1>1. /\ o.is \in {"fine", "help", "usage error"} /\ o.mode \in {"default", "repl", "query", "script"}
      /\ o.text \in Text
  BY OptionsTyped DEF Option
<1>2. /\ repl' = (o.is = "fine" /\ o.mode = "repl")
      /\ ran' = <<>> /\ pending' = <<>> /\ queue' = <<>> /\ failed' = 0
      /\ line' = <<>> /\ cursor' = 0 /\ command' = <<>>
      /\ recalled' = Len(history') + 1 /\ file' = file
      /\ history' = (IF repl' THEN Loaded(file) ELSE <<>>)
  BY DEF Start
<1>3. \/ /\ ~repl' /\ phase' = "ended" /\ exit' = 0 /\ mode' = "query" /\ batch' = <<>> /\ given' = <<>>
      \/ /\ ~repl' /\ phase' = "ended" /\ exit' = 2 /\ mode' = "query" /\ batch' = <<>> /\ given' = <<>>
      \/ /\ repl' /\ phase' = "prompt" /\ mode' = "repl" /\ batch' = <<>> /\ given' = <<>>
      \/ /\ ~repl' /\ given' = o.text /\ mode' = "query" /\ phase' = "ended" /\ exit' = 1 /\ batch' = <<>>
      \/ /\ ~repl' /\ given' = o.text /\ mode' = "query" /\ phase' = "running"
         /\ Statements(o.text) # <<>> /\ batch' = Statements(o.text)
      \/ /\ ~repl' /\ given' = script /\ RunScript(path)
      \/ /\ ~repl' /\ given' = script /\ phase' = "ended" /\ exit' = 1 /\ mode' = "script" /\ batch' = <<>>
  <2>1. CASE o.is = "help"
    <3>1. End(0) /\ mode' = "query" /\ batch' = <<>> /\ given' = <<>>
      BY <2>1 DEF Start
    <3> QED BY <1>2, <2>1, <3>1 DEF End
  <2>2. CASE o.is = "usage error"
    <3>1. End(2) /\ mode' = "query" /\ batch' = <<>> /\ given' = <<>>
      BY <2>2 DEF Start
    <3> QED BY <1>2, <2>2, <3>1 DEF End
  <2>3. CASE o.is = "fine" /\ o.mode = "repl"
    <3>1. phase' = "prompt" /\ mode' = "repl" /\ batch' = <<>> /\ given' = <<>>
      BY <1>2, <2>3 DEF Start
    <3> QED BY <1>2, <2>3, <3>1
  <2>4. CASE o.is = "fine" /\ o.mode = "query"
    <3>1. ~repl'
      BY <1>2, <2>4
    <3>2. /\ given' = o.text /\ mode' = "query"
          /\ IF Unterminated(o.text) \/ Statements(o.text) = <<>>
             THEN End(1) /\ batch' = <<>>
             ELSE batch' = Statements(o.text) /\ phase' = "running" /\ exit' = 0
      BY <2>4, <3>1 DEF Start
    <3> QED BY <3>1, <3>2 DEF End
  <2>5. CASE o.is = "fine" /\ o.mode \in {"default", "script"}
    <3>1. ~repl'
      BY <1>2, <2>5
    <3>2. /\ given' = script
          /\ \/ RunScript(path) /\ exit' = 0
             \/ ~Runs(script) /\ End(1) /\ mode' = "script" /\ batch' = <<>>
      BY <2>5, <3>1 DEF Start
    <3> QED BY <3>1, <3>2 DEF End
  <2> QED BY <1>1, <2>1, <2>2, <2>3, <2>4, <2>5
<1>4. script \in Text
  BY ScriptIsText
<1>5. file \in Seq(FileLine) /\ Filed(history', file')
  <2>1. file \in Seq(FileLine)
    BY DEF SessionInv, Typed
  <2>2. Loaded(file) \in Seq(Line) /\ DOMAIN <<>> = {}
    BY <2>1, LoadedLines
  <2>3. Filed(Loaded(file), file)
    <3> DEFINE h == Loaded(file)
    <3>1. DOMAIN h = 1..Len(h)
      BY <2>2
    <3> HIDE DEF h
    <3>2. \A k \in DOMAIN h : Contains(h, h[k])
      BY <3>1 DEF Contains
    <3> QED BY <3>2 DEF h, Filed
  <2>4. Filed(<<>>, file)
    BY <2>2 DEF Filed
  <2> QED BY <1>2, <2>1, <2>3, <2>4
<1> HIDE DEF o, script, path
<1>6. /\ history' \in Seq(Line) /\ recalled' \in Nat
      /\ line' \in Line /\ cursor' \in 0..Len(line') /\ pending' \in Text
      /\ queue' \in Seq(Line) /\ ran' \in Seq(Run) /\ command' \in Line
  <2>1. <<>> \in Seq(Line) /\ Loaded(file) \in Seq(Line)
    BY <1>5, LoadedLines
  <2>2. history' \in Seq(Line)
    BY <1>2, <2>1
  <2>3. recalled' \in Nat
    BY <1>2, <2>2
  <2>4. line' \in Line /\ cursor' \in 0..Len(line') /\ pending' \in Text /\ command' \in Line
    BY <1>2, EmptyLine
  <2> QED BY <1>2, <2>1, <2>2, <2>3, <2>4, NothingRan
<1>7. repl' \in BOOLEAN
  BY <1>2
<1>8. ASSUME phase' \in {"prompt", "running", "ended"}, mode' \in {"repl", "script", "query"},
             batch' \in Seq(Statement), given' \in Text
      PROVE  Typed'
  BY <1>2, <1>5, <1>6, <1>7, <1>8 DEF Typed, Run
<1>9. <<>> \in Seq(Statement)
  BY DEF Statement
<1>10. ASSUME given' \in Text PROVE RanOf(given', ran')
  BY <1>2, <1>10, NothingRan
<1>11. Failures(ran') = {} /\ Texts(ran') = <<>>
  BY <1>2, NothingRan
<1>12. ASSUME phase' = "ended", ~repl', exit' = 0, mode' = "query", batch' = <<>>, given' = <<>>
       PROVE  SessionInv'
  <2>1. Texts(ran') = Cut(given')
    BY <1>11, <1>12, NothingStated
  <2>2. ExitTells'
    BY <1>11, <1>12, <2>1 DEF ExitTells, Failures
  <2> QED BY <1>5, <1>8, <1>9, <1>10, <1>12, <2>2, EmptyLine DEF SessionInv
<1>13. ASSUME phase' = "ended", ~repl', exit' = 2, mode' = "query", batch' = <<>>, given' = <<>>
       PROVE  SessionInv'
  <2>1. ExitTells'
    BY <1>2, <1>13 DEF ExitTells
  <2> QED BY <1>5, <1>8, <1>9, <1>10, <1>13, <2>1, EmptyLine DEF SessionInv
<1>14. ASSUME repl', phase' = "prompt", mode' = "repl", batch' = <<>>, given' = <<>>
       PROVE  SessionInv'
  <2>1. <<>> \o <<>> = <<>>
    BY EmptyLine, ConcatEmptySeq DEF Text
  <2>2. Collecting(<<>>, <<>>, <<>>)
    BY <2>1, EmptyLine, NothingRan, NothingStated DEF Collecting
  <2>3. Collecting(given', ran', pending')
    BY <1>2, <1>14, <2>2
  <2>4. ExitTells'
    BY <1>14 DEF ExitTells
  <2> QED BY <1>5, <1>8, <1>9, <1>14, <2>3, <2>4, EmptyLine DEF SessionInv
<1>15. ASSUME ~repl', given' = o.text, mode' = "query", phase' = "ended", exit' = 1, batch' = <<>>
       PROVE  SessionInv'
  <2>1. given' \in Text
    BY <1>1, <1>15
  <2>2. IsPrefix(Texts(ran'), Cut(given'))
    <3>1. \A t \in Text : Cut(t) \in Seq(Text)
      BY StatementsTyped, StatementsAreCut
    <3>2. \A t \in Text : IsPrefix(<<>>, Cut(t))
      <4> TAKE t \in Text
      <4>1. <<>> \in Seq(Text) /\ <<>> \o Cut(t) = Cut(t)
        BY <3>1, ConcatEmptySeq
      <4>2. IsPrefix(<<>>, <<>> \o Cut(t))
        BY <3>1, <4>1, PrefixOfConcat
      <4> QED BY <4>1, <4>2
    <3> QED BY <1>11, <2>1, <3>2
  <2>3. ExitTells'
    BY <1>11, <1>15, <2>2 DEF ExitTells, Failures
  <2> QED BY <1>5, <1>8, <1>9, <1>10, <1>15, <2>1, <2>3 DEF SessionInv
<1>16. ASSUME ~repl', given' = o.text, mode' = "query", phase' = "running",
              Statements(o.text) # <<>>, batch' = Statements(o.text)
       PROVE  SessionInv'
  <2>1. given' \in Text /\ batch' \in Seq(Statement)
    BY <1>1, <1>16, StatementsTyped
  <2>2. Owed(given', ran', batch') /\ Texts(ran') \o batch' = Statements(given')
    BY <1>1, <1>2, <1>16, OwedFirst
  <2>3. Program(given', ran', batch', mode', failed')
    BY <1>2, <1>11, <1>16, <2>2 DEF Program
  <2>4. ExitTells'
    BY <1>16 DEF ExitTells
  <2> QED BY <1>5, <1>8, <1>16, <2>1, <2>2, <2>3, <2>4 DEF SessionInv
<1>17. ASSUME ~repl', given' = script, RunScript(path)
       PROVE  SessionInv'
  <2>1. /\ phase' = "running" /\ mode' = "script" /\ batch' = Statements(script)
        /\ Statements(script) # <<>>
        /\ \A k \in DOMAIN Statements(script) : Parses(Statements(script)[k])
    BY <1>17 DEF RunScript, Runs, script
  <2>2. given' \in Text /\ batch' \in Seq(Statement)
    BY <1>4, <1>17, <2>1, StatementsTyped
  <2>3. Owed(given', ran', batch') /\ Texts(ran') \o batch' = Statements(given')
    BY <1>2, <1>4, <1>17, <2>1, OwedFirst
  <2>4. Program(given', ran', batch', mode', failed')
    BY <1>2, <1>11, <1>17, <2>1, <2>3 DEF Program
  <2>5. ExitTells'
    BY <2>1 DEF ExitTells
  <2> QED BY <1>5, <1>8, <1>17, <2>1, <2>2, <2>3, <2>4, <2>5 DEF SessionInv
<1>18. ASSUME ~repl', given' = script, phase' = "ended", exit' = 1, mode' = "script", batch' = <<>>
       PROVE  SessionInv'
  <2>1. given' \in Text
    BY <1>4, <1>18
  <2>2. ExitTells'
    BY <1>2, <1>18 DEF ExitTells
  <2> QED BY <1>5, <1>8, <1>9, <1>10, <1>18, <2>1, <2>2 DEF SessionInv
<1> QED BY <1>3, <1>12, <1>13, <1>14, <1>15, <1>16, <1>17, <1>18

----------------------------------------------------------------------------
(* The invariant is kept: a statement is executed *)

\* The next statement of lines collected stands alone.
LEMMA HeadIsClosed ==
    ASSUME NEW p \in Text, NEW b \in Seq(Statement), b # <<>>, Completed(p, b)
    PROVE  /\ Closed(Head(b))
           /\ Completed(p, Tail(b))
<1>1. PICK u \in Seq(Statement) : Statements(p) = u \o b
  BY DEF Completed
<1>2. Statements(p) \in Seq({t \in Text : Closed(t)})
  BY StatementsClosed DEF Completed
<1> DEFINE C == {t \in Text : Closed(t)}
           m == Len(u)
           h == Head(b)
<1>3. h \in Statement /\ Tail(b) \in Seq(Statement) /\ b = <<h>> \o Tail(b) /\ Len(b) \in Nat /\ Len(b) >= 1
      /\ h = b[1]
  <2> HIDE DEF Statement
  <2> QED OBVIOUS
<1>4. Closed(h)
  <2> HIDE DEF Statement
  <2>1. m \in Nat /\ (u \o b)[m + 1] = b[1] /\ Len(u \o b) = m + Len(b)
    BY <1>3
  <2>2. m + 1 \in 1..Len(u \o b)
    BY <1>3, <2>1
  <2> HIDE DEF C
  <2>3. Statements(p)[m + 1] \in C
    BY <1>1, <1>2, <2>2 DEF C
  <2> QED BY <1>1, <1>3, <2>1, <2>3 DEF C
<1>5. Completed(p, Tail(b))
  <2> HIDE DEF h
  <2>1. <<h>> \in Seq(Statement) /\ u \o <<h>> \in Seq(Statement)
    <3> HIDE DEF Statement
    <3> QED BY <1>3
  <2>2. (u \o <<h>>) \o Tail(b) = u \o b
    <3> HIDE DEF Statement
    <3> QED BY <1>3, <2>1, ConcatAssociative
  <2>3. \E v \in Seq(Statement) : Statements(p) = v \o Tail(b)
    BY <1>1, <2>1, <2>2
  <2> QED BY <2>3 DEF Completed
<1> QED BY <1>4, <1>5

\* A program goes on after a statement it does not stop at.
LEMMA ProgramGoesOn ==
    ASSUME NEW g \in Text, NEW r \in Seq(Run), NEW b \in Seq(Statement), b # <<>>,
           NEW m, NEW f \in Nat, Program(g, r, b, m, f),
           NEW x \in Run, x.ok \/ m = "script",
           Texts(Append(r, x)) \o Tail(b) = Texts(r) \o b
    PROVE  Program(g, Append(r, x), Tail(b), m, f + (IF x.ok THEN 0 ELSE 1))
<1> DEFINE s == Append(r, x)
           e == f + (IF x.ok THEN 0 ELSE 1)
<1>1. Failures(s) = Failures(r) \cup (IF x.ok THEN {} ELSE {Len(r) + 1})
  BY FailuresNext
<1>2. e = 0 <=> f = 0 /\ x.ok
  <2>1. x.ok \in BOOLEAN
    BY DEF Run
  <2> QED BY <2>1
<1> HIDE DEF s, e
<1>3. e = 0 <=> Failures(s) = {}
  BY <1>1, <1>2 DEF Program
<1>4. m = "query" => Failures(s) = {}
  BY <1>1 DEF Program
<1> QED BY <1>3, <1>4 DEF Program, s, e

\* What the exit status tells when a program has executed a statement and stops:
\* s is what ran, e counts the failures.
Tells(g, s, m, e) ==
    /\ e = 0 => Failures(s) = {} /\ Texts(s) = Cut(g)
    /\ e # 0 /\ m = "script" => /\ Texts(s) = Cut(g) /\ Failures(s) # {}
                               /\ \A k \in DOMAIN Cut(g) : Parses(Cut(g)[k])
    /\ e # 0 /\ m = "query" => IsPrefix(Texts(s), Cut(g)) /\ Failures(s) \subseteq {Len(s)}

LEMMA ProgramEnds ==
    ASSUME NEW g \in Text, NEW r \in Seq(Run), NEW b \in Seq(Statement), b # <<>>,
           NEW m, NEW f \in Nat, Program(g, r, b, m, f),
           NEW x \in Run, NEW t \in Seq(Statement), t = Tail(b),
           Append(r, x) \in Seq(Run),
           Texts(Append(r, x)) \o t = Texts(r) \o b,
           x.ok \/ m = "script" => t = <<>>
    PROVE  Tells(g, Append(r, x), m, f + (IF x.ok THEN 0 ELSE 1))
<1> DEFINE s == Append(r, x)
           e == f + (IF x.ok THEN 0 ELSE 1)
           cut == Cut(g)
<1>1. Failures(s) = Failures(r) \cup (IF x.ok THEN {} ELSE {Len(r) + 1})
  BY FailuresNext
<1>2. e = 0 <=> f = 0 /\ x.ok
  <2>1. x.ok \in BOOLEAN
    BY DEF Run
  <2> QED BY <2>1
<1>3. Len(s) = Len(r) + 1
  <2> HIDE DEF Run
  <2> QED OBVIOUS
<1>4. Texts(s) \in Seq(Statement)
  BY TextsTyped
<1>5. Texts(s) \o t = cut
  BY StatementsAreCut DEF Program
<1> HIDE DEF s, e, cut
<1>6. t = <<>> => Texts(s) = cut
  <2> HIDE DEF Statement
  <2> QED BY <1>4, <1>5, ConcatEmptySeq
<1>7. e = 0 => Failures(s) = {} /\ Texts(s) = cut
  BY <1>1, <1>2, <1>6 DEF Program
<1>8. ASSUME e # 0, m = "script"
      PROVE  Texts(s) = cut /\ Failures(s) # {} /\ \A k \in DOMAIN cut : Parses(cut[k])
  <2>1. Texts(s) = cut
    BY <1>6, <1>8
  <2>2. Failures(s) # {}
    BY <1>1, <1>2, <1>8 DEF Program
  <2>3. \A k \in DOMAIN cut : Parses(cut[k])
    BY <1>8, StatementsAreCut DEF Program, cut
  <2> QED BY <2>1, <2>2, <2>3
<1>9. ASSUME e # 0, m = "query"
      PROVE  IsPrefix(Texts(s), cut) /\ Failures(s) \subseteq {Len(s)}
  <2>1. IsPrefix(Texts(s), cut)
    <3> HIDE DEF Statement
    <3> QED BY <1>4, <1>5, PrefixOfConcat
  <2>2. Failures(s) \subseteq {Len(s)}
    BY <1>1, <1>3, <1>9 DEF Program
  <2> QED BY <2>1, <2>2
<1> QED BY <1>7, <1>8, <1>9 DEF Tells, s, e, cut

\* What Execute leaves in the history and in its file.
LEMMA ExecuteFiles ==
    ASSUME SessionInv, Execute
    PROVE  /\ history' \in Seq(Line) /\ file' \in Seq(FileLine) /\ Filed(history', file') /\ command' \in Line
           /\ mode = "repl" => /\ Contains(Loaded(file'), Last(history'))
                              /\ Replays(Head(batch), Last(history'))
<1>1. /\ history \in Seq(Line) /\ file \in Seq(FileLine) /\ Filed(history, file)
      /\ pending \in Text /\ batch \in Seq(Statement) /\ command \in Line
  BY DEF SessionInv, Typed
<1>2. phase = "running" /\ batch # <<>>
  BY DEF Execute, SessionInv, Owed
<1> DEFINE h == Head(batch)
<1>3. h \in Statement
  <2> HIDE DEF Statement
  <2> QED BY <1>1, <1>2, HeadTailProperties
<1>4. CASE mode = "repl"
  <2>1. Completed(pending, batch)
    BY <1>2, <1>4 DEF SessionInv
  <2>2. Closed(h) /\ h \in Text
    BY <1>1, <1>2, <1>3, <2>1, HeadIsClosed DEF Statement
  <2>3. NormalizeHistoryEntry(h) \in Line /\ Replays(h, NormalizeHistoryEntry(h))
    BY <2>2, EntriesReplay
  <2>4. AddHistoryEntry(NormalizeHistoryEntry(h)) /\ command' = command
    BY <1>4 DEF Execute
  <2> HIDE DEF h
  <2>5. /\ history' \in Seq(Line) /\ file' \in Seq(FileLine) /\ Filed(history', file')
        /\ Last(history') = NormalizeHistoryEntry(h) /\ Contains(Loaded(file'), NormalizeHistoryEntry(h))
    BY <1>1, <2>3, <2>4, HistoryStep
  <2> QED BY <1>1, <2>3, <2>4, <2>5 DEF h
<1>5. CASE mode # "repl"
  <2>1. \/ AddHistoryEntry(command) /\ command' = <<>>
        \/ UNCHANGED <<command, history, file>>
    BY <1>5 DEF Execute
  <2>2. CASE AddHistoryEntry(command) /\ command' = <<>>
    BY <1>1, <1>5, <2>2, HistoryStep, EmptyLine
  <2>3. CASE UNCHANGED <<command, history, file>>
    BY <1>1, <1>5, <2>3
  <2> QED BY <2>1, <2>2, <2>3
<1> QED BY <1>4, <1>5

LEMMA InvExecute ==
    ASSUME SessionInv, Execute
    PROVE  SessionInv'
<1>1. /\ given \in Text /\ pending \in Text /\ ran \in Seq(Run) /\ batch \in Seq(Statement)
      /\ queue \in Seq(Line) /\ repl \in BOOLEAN /\ failed \in Nat
      /\ mode \in {"repl", "script", "query"}
  BY DEF SessionInv, Typed, Run
<1>2. phase = "running" /\ Owed(given, ran, batch) /\ batch # <<>>
  BY DEF Execute, SessionInv, Owed
<1> DEFINE h == Head(batch)
<1>3. h \in Statement
  <2> HIDE DEF Statement
  <2> QED BY <1>1, <1>2, HeadTailProperties
<1>4. history' \in Seq(Line) /\ file' \in Seq(FileLine) /\ Filed(history', file') /\ command' \in Line
  BY ExecuteFiles
<1>5. PICK ok \in BOOLEAN :
         /\ ran' = Append(ran, [text |-> h, ok |-> ok])
         /\ failed' = failed + (IF ok THEN 0 ELSE 1)
         /\ batch' = IF Goes(ok) THEN Tail(batch) ELSE <<>>
         /\ IF batch' = <<>> THEN Finished(Status(failed'))
                             ELSE UNCHANGED <<phase, mode, exit, pending>>
  <2>1. {TRUE, FALSE} = BOOLEAN
    OBVIOUS
  <2> QED BY <2>1 DEF Execute
<1>6. /\ line' = <<>> /\ cursor' = 0 /\ recalled' = Len(history') + 1
      /\ repl' = repl /\ queue' = queue /\ given' = given
  BY DEF Execute, FreshLine
<1> DEFINE x == [text |-> h, ok |-> ok]
           t == Tail(batch)
<1>7. x \in Run /\ x.text = Head(batch) /\ x.ok = ok
  BY <1>3 DEF Run
<1> HIDE DEF x
<1>8. /\ Append(ran, x) \in Seq(Run) /\ t \in Seq(Statement)
      /\ Texts(Append(ran, x)) \o t = Texts(ran) \o batch
      /\ RanOf(given, Append(ran, x))
      /\ t # <<>> => Owed(given, Append(ran, x), t)
  BY <1>1, <1>2, <1>7, OwedStep
<1>9. ran' = Append(ran, x)
  BY <1>5 DEF x
<1> HIDE DEF h, t
<1>10. batch' = (IF ok \/ mode = "script" THEN t ELSE <<>>)
  BY <1>5 DEF Goes, t
<1>11. batch' \in Seq(Statement)
  <2>1. <<>> \in Seq(Statement)
    BY DEF Statement
  <2> QED BY <1>8, <1>10, <2>1
<1>12. failed' \in Nat
  BY <1>1, <1>5
<1>13. ASSUME phase' \in {"prompt", "running", "ended"}, mode' \in {"repl", "script", "query"}, pending' \in Text
       PROVE  Typed'
  <2>1. recalled' \in Nat
    BY <1>4, <1>6
  <2>2. ran' \in Seq([text : Statement, ok : BOOLEAN])
    BY <1>8, <1>9 DEF Run
  <2> QED BY <1>1, <1>4, <1>6, <1>11, <1>12, <1>13, <2>1, <2>2, EmptyLine DEF Typed
<1>14. RanOf(given', ran')
  BY <1>6, <1>8, <1>9
<1>15. CASE batch' = <<>> /\ repl
  <2>1. phase' = "prompt" /\ mode' = "repl" /\ pending' = <<>> /\ repl' = TRUE
    BY <1>1, <1>5, <1>6, <1>15 DEF Finished
  <2>2. Typed'
    BY <1>13, <2>1, EmptyLine
  <2>3. given \o <<>> = given
    BY <1>1, ConcatEmptySeq DEF Text
  <2>4. Collecting(given, Append(ran, x), <<>>)
    BY <1>1, <1>8, <2>3, NothingStated DEF Collecting
  <2>5. Collecting(given', ran', pending')
    BY <1>6, <1>9, <2>1, <2>4
  <2>6. ExitTells'
    BY <2>1 DEF ExitTells
  <2> QED BY <1>4, <2>1, <2>2, <2>5, <2>6 DEF SessionInv
<1>16. CASE batch' = <<>> /\ ~repl
  <2>1. phase' = "ended" /\ exit' = Status(failed') /\ mode' = mode /\ pending' = pending
    BY <1>5, <1>16 DEF Finished, End
  <2>2. Typed'
    BY <1>1, <1>13, <2>1
  <2>3. Program(given, ran, batch, mode, failed)
    BY <1>2, <1>16 DEF SessionInv
  <2>4. ok \/ mode = "script" => t = <<>>
    BY <1>10, <1>16
  <2>5. Tells(given, ran', mode, failed')
    <3>1. t = Tail(batch)
      BY DEF t
    <3>2. failed' = failed + (IF x.ok THEN 0 ELSE 1)
      BY <1>5, <1>7
    <3>3. x.ok \/ mode = "script" => t = <<>>
      BY <1>7, <2>4
    <3>4. Tells(given, Append(ran, x), mode, failed + (IF x.ok THEN 0 ELSE 1))
      BY <1>1, <1>2, <1>7, <1>8, <2>3, <3>1, <3>3, ProgramEnds
    <3> QED BY <1>9, <3>2, <3>4
  <2>6. exit' = IF failed' = 0 THEN 0 ELSE 1
    BY <2>1 DEF Status
  <2>7. Cut(given)' = Cut(given) /\ Failures(ran') = {k \in DOMAIN ran' : ~ran'[k].ok}
    BY <1>6 DEF Failures
  <2>8. mode \in {"script", "query"}
    BY <2>3 DEF Program
  <2>9. ExitTells'
    <3>1. CASE failed' = 0
      BY <2>5, <2>6, <2>7, <3>1 DEF ExitTells, Tells
    <3>2. CASE failed' # 0 /\ mode = "script"
      <4>1. Texts(ran') = Cut(given) /\ Failures(ran') # {} /\ \A k \in DOMAIN Cut(given) : Parses(Cut(given)[k])
        BY <2>5, <3>2 DEF Tells
      <4>2. exit' = 1 /\ mode' = "script"
        BY <2>1, <2>6, <3>2
      <4> QED BY <2>7, <4>1, <4>2 DEF ExitTells
    <3>3. CASE failed' # 0 /\ mode = "query"
      <4>1. IsPrefix(Texts(ran'), Cut(given)) /\ Failures(ran') \subseteq {Len(ran')}
        BY <2>5, <3>3 DEF Tells
      <4>2. exit' = 1 /\ mode' = "query"
        BY <2>1, <2>6, <3>3
      <4> QED BY <2>7, <4>1, <4>2 DEF ExitTells
    <3> QED BY <2>8, <3>1, <3>2, <3>3
  <2> QED BY <1>4, <1>14, <2>1, <2>2, <2>9 DEF SessionInv
<1>17. CASE batch' # <<>>
  <2>1. phase' = "running" /\ mode' = mode /\ pending' = pending
    BY <1>2, <1>5, <1>17
  <2>2. batch' = t /\ (ok \/ mode = "script") /\ t # <<>>
    BY <1>10, <1>17
  <2>3. Typed'
    BY <1>1, <1>13, <2>1
  <2>4. Owed(given', ran', batch')
    BY <1>6, <1>8, <1>9, <2>2
  <2>5. ASSUME mode = "repl" PROVE repl' /\ Completed(pending', batch')
    <3>1. repl /\ Completed(pending, batch)
      BY <1>2, <2>5 DEF SessionInv
    <3>2. Completed(pending, t)
      BY <1>1, <1>2, <3>1, HeadIsClosed DEF t
    <3> QED BY <1>6, <2>1, <2>2, <3>1, <3>2
  <2>6. ASSUME ~repl PROVE Program(given', ran', batch', mode', failed')
    <3>1. Program(given, ran, batch, mode, failed)
      BY <1>2, <2>6 DEF SessionInv
    <3>2. x.ok \/ mode = "script"
      BY <1>7, <2>2
    <3>3. Program(given, Append(ran, x), t, mode, failed + (IF x.ok THEN 0 ELSE 1))
      BY <1>1, <1>2, <1>7, <1>8, <3>1, <3>2, ProgramGoesOn DEF t
    <3> QED BY <1>5, <1>6, <1>7, <1>9, <2>1, <2>2, <3>3
  <2>7. ExitTells'
    BY <2>1 DEF ExitTells
  <2> QED BY <1>4, <1>6, <2>1, <2>3, <2>4, <2>5, <2>6, <2>7 DEF SessionInv
<1> QED BY <1>15, <1>16, <1>17

----------------------------------------------------------------------------
(* The theorems *)

LEMMA InvNext ==
    ASSUME SessionInv, [Next]_vars
    PROVE  SessionInv'
<1>1. ASSUME NEW arguments \in ArgumentLists, Start(arguments) PROVE SessionInv'
  BY <1>1, InvStart
<1>2. ASSUME NEW text \in Keyed, Type(text) PROVE SessionInv'
  BY <1>2, InvType
<1>3. ASSUME NEW text \in Pasted, Paste(text) PROVE SessionInv'
  BY <1>3, InvPaste
<1>4. CASE Erase
  BY <1>4, InvErase
<1>5. CASE MoveCursor
  BY <1>5, InvMoveCursor
<1>6. CASE Recall
  BY <1>6, InvRecall
<1>7. CASE Enter \/ Interrupt
  BY <1>7, InvEnter
<1>8. CASE EndOfInput \/ Kill
  BY <1>8, InvEnd
<1>9. CASE ReadQueued
  BY <1>9, InvReadQueued
<1>10. CASE Execute
  BY <1>10, InvExecute
<1>11. CASE UNCHANGED vars
  <2>1. /\ UNCHANGED <<phase, mode, exit, repl, line, cursor, recalled, queue, pending, batch>>
        /\ UNCHANGED <<failed, command, history, file, given, ran>>
    BY <1>11 DEF vars
  <2>2. Typed'
    BY <2>1 DEF SessionInv, Typed
  <2>3. ExitTells'
    BY <2>1 DEF SessionInv, ExitTells
  <2>4. /\ phase' = "prompt" => repl' /\ mode' = "repl" /\ Collecting(given', ran', pending')
        /\ phase' = "running" => Owed(given', ran', batch')
        /\ phase' = "running" /\ mode' = "repl" => repl' /\ Completed(pending', batch')
        /\ phase' = "running" /\ ~repl' => Program(given', ran', batch', mode', failed')
        /\ phase' \in {"down", "ended"} => RanOf(given', ran')
        /\ Filed(history', file')
    BY <2>1 DEF SessionInv
  <2> QED BY <2>2, <2>3, <2>4 DEF SessionInv
<1> QED BY <1>1, <1>2, <1>3, <1>4, <1>5, <1>6, <1>7, <1>8, <1>9, <1>10, <1>11 DEF Next

LEMMA SessionInvHolds == Spec => []SessionInv
<1>1. Init => SessionInv
  BY InvInit
<1>2. SessionInv /\ [Next]_vars => SessionInv'
  BY InvNext
<1> QED BY <1>1, <1>2, PTL DEF Spec

\* runRepl, runQuery and executeScript: the tokens of the statements executed,
\* one after the other, are among those given, in their order.
THEOREM StatementsRunOnceInOrder == Spec => []RunsOnceInOrder
BY SessionInvHolds, InvRunsOnce, PTL

\* runRepl: the prompt waits over no complete statement, and what runs was
\* completed by the last line and is the end of what the lines hold.
THEOREM LinesRunWhenComplete == Spec => []StatementsRunWhenComplete
BY SessionInvHolds, InvStatementsComplete, PTL

\* main: the exit status of a script or a query tells what became of its text.
THEOREM ExitStatusTells == Spec => []ExitTells
<1>1. SessionInv => ExitTells
  BY DEF SessionInv
<1> QED BY <1>1, SessionInvHolds, PTL

\* Only Execute executes.
LEMMA ExecutesReplay ==
    ASSUME SessionInv, [Next]_vars, phase = "running", mode = "repl", ran' # ran
    PROVE  LET entry == Last(history') IN
           Contains(Loaded(file'), entry) /\ Replays(Last(ran').text, entry)
<1>1. Execute
  <2>1. \A arguments \in ArgumentLists : ~Start(arguments)
    BY DEF Start
  <2>2. ~Editing /\ ~ReadQueued
    BY DEF Editing, ReadQueued
  <2>3. /\ \A text \in Keyed : ~Type(text)
        /\ \A text \in Pasted : ~Paste(text)
        /\ ~Erase /\ ~MoveCursor /\ ~Recall /\ ~Enter /\ ~Interrupt
    BY <2>2 DEF Type, Paste, Erase, MoveCursor, Recall, Enter, Interrupt, Key
  <2>4. ~EndOfInput /\ ~Kill /\ ~UNCHANGED vars
    BY DEF EndOfInput, Kill, vars
  <2> QED BY <2>1, <2>2, <2>3, <2>4 DEF Next
<1>2. /\ Contains(Loaded(file'), Last(history'))
      /\ Replays(Head(batch), Last(history'))
  BY <1>1, ExecuteFiles
<1>3. Last(ran').text = Head(batch)
  <2>1. PICK ok : ran' = Append(ran, [text |-> Head(batch), ok |-> ok])
    BY <1>1 DEF Execute
  <2> DEFINE x == [text |-> Head(batch), ok |-> ok]
  <2>2. ran \in Seq(Run)
    BY DEF SessionInv, Typed, Run
  <2>3. Len(ran') = Len(ran) + 1 /\ ran'[Len(ran) + 1] = x
    <3> HIDE DEF x, Run
    <3> QED BY <2>1, <2>2 DEF x
  <2> QED BY <2>3 DEF Last
<1> QED BY <1>2, <1>3

\* runRepl, normalizeHistoryEntry and normalizeReplLine: the entry of a
\* statement executed at the prompt is there in this and every later session, is
\* one statement when it is entered again, and the same one if that is plain.
THEOREM EntriesStayStatements == Spec => HistoryReplays
<1>1. SessionInv /\ [Next]_vars =>
          [phase = "running" /\ mode = "repl" /\ ran' # ran =>
               LET statement == Last(ran').text
                   entry == Last(history')
                   typed == NormalizeReplLine(entry)
               IN /\ Contains(Loaded(file'), entry)
                  /\ ~IsMeta(entry) =>
                        /\ ContainsStatementTerminator(typed) /\ ~Unterminated(typed)
                        /\ Len(Statements(typed)) = 1
                        /\ Plain(statement) => Statements(typed) = <<statement>>]_vars
  BY ExecutesReplay DEF Replays
<1> QED BY <1>1, SessionInvHolds, PTL DEF Spec, HistoryReplays
=============================================================================
