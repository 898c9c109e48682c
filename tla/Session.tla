------------------------------ MODULE Session ------------------------------
(***************************************************************************)
(* The way from what a user types to the statements that are executed: the *)
(* options, the three non-interactive modes, and the terminal session with *)
(* its line editor, its history file and the buffer that collects lines    *)
(* until a statement is complete.  Executing a statement is one step here, *)
(* which succeeds or fails; Engine says what it does.                      *)
(*                                                                         *)
(* A text is a sequence of tokens: words, the quote, the semicolon, the    *)
(* three comment markers, the newline, and the blanks inside of strings:   *)
(* outside of them words are taken to have a blank between them, also      *)
(* where a block comment stands (the splitter puts none in its place).     *)
(* The positions in error messages, and comments between the two           *)
(* characters of a marker, are not considered.                             *)
(***************************************************************************)
EXTENDS Sequences, SequencesExt, FiniteSets, Naturals

CONSTANTS
    Token,            \* what texts are made of
    ArgumentLists,    \* command lines: sequences of [flag, text]
    Files,            \* the SQL files: texts by path
    Keyed,            \* texts typed at once, without newlines
    Pasted,           \* texts pasted, with newlines
    Unparsed,         \* words no statement that parses contains
    Broken,           \* words that end in a clause keyword, with their two halves
    OldHistories,     \* what the history file may hold before the first start
    MaxKeyed,         \* bound: keys pressed, texts typed and texts pasted
    MaxStarts         \* bound: times the program is started

\* Tokens are words and what means something to the scanners; a line is a text
\* without the end of a line.
NL == "\n"
Blank == " "
Markers == {"'", ";", "--", "/*", "*/", NL, Blank}
Word == Token \ Markers
Text == Seq(Token)
Line == Seq(Token \ {NL})

\* Lines marked as entries are written by this program only.
ASSUME TextAssumption ==
    /\ Markers \subseteq Token
    /\ Keyed \subseteq Line /\ Pasted \subseteq Text
    /\ \A arguments \in ArgumentLists :
          arguments \in Seq([flag : {a.flag : a \in ToSet(arguments)}, text : Text])
    /\ \A path \in DOMAIN Files : Files[path] \in Text
    /\ \A w \in DOMAIN Broken : w \in Word /\ Broken[w] \in Seq(Word) \ {<<>>}
    /\ OldHistories \subseteq Seq([marked : {FALSE}, text : Line])

VARIABLES
    phase,      \* "down", "prompt" (readLine is waiting), "running", "ended"
    starts,     \* times the program was started
    mode,       \* what the statements in batch come from: "repl", "script", "query"
    exit,       \* the exit status once phase is "ended"
    repl,       \* is this a terminal session?
    line, cursor, recalled,    \* readLineInteractive: line, cursor, historyIndex
    keyed,      \* how many of those there were
    queue,      \* pendingLines_
    pending,    \* pendingSql
    batch,      \* the statements split and not yet executed
    failed,     \* executeScript: statements that failed
    command,    \* the .run whose script runs, or <<>>
    history,    \* history_
    file,       \* the history file: its lines, [marked, text]
    given,      \* all the text the program got since its start
    ran         \* the statements executed since then: [text, ok]

editor == <<line, cursor, recalled>>
vars == <<phase, starts, mode, exit, repl, line, cursor, recalled, keyed, queue, pending, batch,
          failed, command, history, file, given, ran>>

----------------------------------------------------------------------------
(* The two scanners *)

\* splitStatements, one token: where it is, the statement so far (newlines
\* and blanks outside of strings are dropped) and the statements completed.
Outside == "outside"

\* A mutant: the marker of a comment stays in the statement.
BeginCommentKept(s, c, place) == [s EXCEPT !.in = place, !.text = Append(@, c)]

BeginComment(s, c, place) == [s EXCEPT !.in = place]

SplitToken(s, c) ==
    CASE s.in = "line comment" -> IF c = NL THEN [s EXCEPT !.in = Outside] ELSE s
      [] s.in = "block comment" -> IF c = "*/" THEN [s EXCEPT !.in = Outside] ELSE s
      [] s.in = "string" ->
            [s EXCEPT !.text = Append(@, c), !.in = IF c = "'" THEN Outside ELSE @]
      [] s.in = Outside ->
            CASE c = "'" -> [s EXCEPT !.text = Append(@, c), !.in = "string"]
              [] c = "--" -> BeginComment(s, c, "line comment")
              [] c = "/*" -> BeginComment(s, c, "block comment")
              [] c = ";" -> [s EXCEPT !.text = <<>>,
                                      !.done = IF s.text = <<>> THEN @ ELSE Append(@, s.text)]
              [] c \in {NL, Blank} -> s
              [] OTHER -> [s EXCEPT !.text = Append(@, c)]

Scan(text) ==
    FoldLeft(LAMBDA s, c : SplitToken(s, c), [in |-> Outside, text |-> <<>>, done |-> <<>>], text)

\* An unterminated string or block comment is an error; what follows the last
\* semicolon is a statement too.
Unterminated(text) == Scan(text).in \in {"string", "block comment"}
Statements(text) ==
    LET s == Scan(text) IN IF s.text = <<>> THEN s.done ELSE Append(s.done, s.text)

\* A mutant: comments are not looked at.
TerminatorTokenBlind(s, c) ==
    CASE s = "string" -> IF c = "'" THEN Outside ELSE s
      [] s = Outside /\ c = "'" -> "string"
      [] s = Outside /\ c = ";" -> "found"
      [] OTHER -> s

\* containsStatementTerminator, one token.
TerminatorToken(s, c) ==
    CASE s = "line comment" -> IF c = NL THEN Outside ELSE s
      [] s = "block comment" -> IF c = "*/" THEN Outside ELSE s
      [] s = "string" -> IF c = "'" THEN Outside ELSE s
      [] s = Outside -> CASE c = "'" -> "string"
                          [] c = "--" -> "line comment"
                          [] c = "/*" -> "block comment"
                          [] c = ";" -> "found"
                          [] OTHER -> s
      [] s = "found" -> s

ContainsStatementTerminator(text) ==
    FoldLeft(LAMBDA s, c : TerminatorToken(s, c), Outside, text) = "found"

----------------------------------------------------------------------------
(* Lines, history and scripts *)

\* normalizeReplLine: a blank before a clause keyword at the end of a word,
\* outside the quotes of this line.
NormalizeReplLine(text) ==
    FoldLeft(LAMBDA s, c :
                IF c = "'" THEN [quoted |-> ~s.quoted, out |-> Append(s.out, c)]
                ELSE IF c \in DOMAIN Broken /\ ~s.quoted THEN [s EXCEPT !.out = @ \o Broken[c]]
                ELSE [s EXCEPT !.out = Append(@, c)],
             [quoted |-> FALSE, out |-> <<>>], text).out

\* normalizeHistoryEntry: one line, each run of blanks one blank, and a semicolon.
NormalizeHistoryEntry(text) ==
    FoldLeft(LAMBDA out, c : IF c \notin {NL, Blank} THEN Append(out, c)
                             ELSE IF out # <<>> /\ Last(out) = Blank THEN out ELSE Append(out, Blank),
             <<>>, text) \o <<";">>

\* The elements of a sequence at some of its positions, in their order.
Selected(seq, S) ==
    LET out[i \in 0 .. Len(seq)] ==
            IF i = 0 THEN <<>>
            ELSE IF i \in S THEN Append(out[i - 1], seq[i]) ELSE out[i - 1]
    IN out[Len(seq)]

\* A line without the blanks around it; a command needs none between its words.
Trimmed(text) == Selected(text, {i \in DOMAIN text : text[i] # Blank})

\* loadHistory: a marked line is an entry, and so is a command; other lines
\* are joined up to one with a semicolon.
Loaded(lines) ==
    LET Take(s, l) ==
            IF l.marked \/ Head(l.text) \in {".quit", ".run", ".tables", ".unknown"}
            THEN [s EXCEPT !.entries = Append(@, l.text)]
            ELSE IF Contains(l.text, ";")
                 THEN [entries |-> Append(s.entries, s.joined \o l.text), joined |-> <<>>]
                 ELSE [s EXCEPT !.joined = @ \o l.text]
        s == FoldLeft(Take, [entries |-> <<>>, joined |-> <<>>], lines)
    IN IF s.joined = <<>> THEN s.entries ELSE Append(s.entries, s.joined)

\* addHistoryEntry, in memory and in the file.
AddHistoryEntry(entry) ==
    IF history # <<>> /\ Last(history) = entry
    THEN UNCHANGED <<history, file>>
    ELSE /\ history' = Append(history, entry)
         /\ file' = Append(file, [marked |-> TRUE, text |-> entry])

Parses(statement) == \A k \in DOMAIN statement : statement[k] \notin Unparsed

\* A mutant: each statement is parsed when its turn comes.
RunsUnparsed(text) == ~Unterminated(text) /\ Statements(text) # <<>>

\* A script can run if it can be read, split, holds a statement, and all of
\* it parses.
Runs(text) ==
    /\ ~Unterminated(text)
    /\ Statements(text) # <<>>
    /\ \A k \in DOMAIN Statements(text) : Parses(Statements(text)[k])

----------------------------------------------------------------------------
(* The command line *)

\* CliOptionsParser::parse, one argument.  -q and -f take the next argument,
\* whatever it is, unless it is in the same word.
TakeArgument(o, a) ==
    IF o.is # "fine" THEN o
    ELSE IF o.wants THEN [o EXCEPT !.text = a.text, !.wants = FALSE]
    ELSE CASE a.flag = "-h" -> [o EXCEPT !.is = "help"]
           [] a.flag \in {"-r", "-q", "-f", "--query=", "--file="} ->
                IF o.mode # "default" THEN [o EXCEPT !.is = "usage error"]
                ELSE [o EXCEPT !.mode = CASE a.flag = "-r" -> "repl"
                                          [] a.flag \in {"-q", "--query="} -> "query"
                                          [] OTHER -> "script",
                               !.wants = a.flag \in {"-q", "-f"},
                               !.text = IF a.flag \in {"--query=", "--file="} THEN a.text ELSE @]
           [] a.flag \notin {"-h", "-r", "-q", "-f", "--query=", "--file="} ->
                [o EXCEPT !.is = "usage error"]

Options(arguments) ==
    LET o == FoldLeft(TakeArgument, [is |-> "fine", mode |-> "default", wants |-> FALSE, text |-> <<>>],
                      arguments)
    IN IF o.is = "fine" /\ o.wants THEN [o EXCEPT !.is = "usage error"] ELSE o

\* resolveSqlFile
DefaultPath == IF "queries.sql" \in DOMAIN Files THEN "queries.sql" ELSE "../queries.sql"

Readable(path) == path \in DOMAIN Files

----------------------------------------------------------------------------
Init ==
    /\ phase = "down" /\ starts = 0 /\ mode = "repl" /\ exit = 0 /\ repl = FALSE
    /\ line = <<>> /\ cursor = 0 /\ recalled = 0 /\ keyed = 0
    /\ queue = <<>> /\ pending = <<>> /\ batch = <<>> /\ failed = 0
    /\ command = <<>> /\ history = <<>> /\ file \in OldHistories
    /\ given = <<>> /\ ran = <<>>

End(status) == phase' = "ended" /\ exit' = status

\* runScriptFile and executeScript: all is parsed before anything runs.
Script(path) == IF Readable(path) THEN Files[path] ELSE <<>>
RunScript(path) ==
    /\ Runs(Script(path))
    /\ batch' = Statements(Script(path)) /\ mode' = "script" /\ phase' = "running"

\* main, QueryEngineCli::run and the beginning of each mode.  Only a terminal
\* session reads what an earlier one left, so later starts are terminal sessions.
Start(arguments) ==
    LET o == Options(arguments) IN
    /\ phase \in {"down", "ended"} /\ starts < MaxStarts
    /\ starts' = starts + 1
    /\ repl' = (o.is = "fine" /\ o.mode = "repl")
    /\ starts > 0 => repl'
    /\ ran' = <<>> /\ pending' = <<>> /\ queue' = <<>> /\ failed' = 0
    /\ line' = <<>> /\ cursor' = 0 /\ command' = <<>>
    /\ CASE o.is = "help" -> End(0) /\ mode' = "query" /\ batch' = <<>> /\ given' = <<>>
         [] o.is = "usage error" -> End(2) /\ mode' = "query" /\ batch' = <<>> /\ given' = <<>>
         [] repl' -> phase' = "prompt" /\ mode' = "repl" /\ exit' = 0 /\ batch' = <<>> /\ given' = <<>>
         [] o.is = "fine" /\ o.mode = "query" ->                \* a text of comments only fails to parse
                /\ given' = o.text /\ mode' = "query"
                /\ IF Unterminated(o.text) \/ Statements(o.text) = <<>>
                   THEN End(1) /\ batch' = <<>>
                   ELSE batch' = Statements(o.text) /\ phase' = "running" /\ exit' = 0
         [] o.is = "fine" /\ o.mode \in {"default", "script"} ->
                LET path == IF o.mode = "default" THEN DefaultPath
                            ELSE IF o.text = <<>> THEN "" ELSE Head(o.text)
                IN /\ given' = Script(path)
                   /\ \/ RunScript(path) /\ exit' = 0
                      \/ ~Runs(Script(path)) /\ End(1) /\ mode' = "script" /\ batch' = <<>>
    /\ IF repl' THEN history' = Loaded(file) ELSE history' = <<>>
    /\ recalled' = Len(history') + 1
    /\ UNCHANGED <<keyed, file>>

----------------------------------------------------------------------------
(* The terminal session *)

\* A new call of readLine begins with an empty line.
FreshLine == line' = <<>> /\ cursor' = 0 /\ recalled' = Len(history') + 1

\* handleMetaCommand.  An unknown command is not kept in the history; .run is
\* when its script is done.
MetaCommand(text) ==
    CASE Head(text) = ".quit" ->
            End(0) /\ AddHistoryEntry(text) /\ UNCHANGED <<mode, batch, given, failed, command>>
      [] Head(text) = ".run" ->
            /\ failed' = 0
            /\ LET path == IF Len(text) = 1 THEN "" ELSE text[2] IN
               \/ /\ RunScript(path) /\ given' = given \o Script(path) /\ command' = text
                  /\ UNCHANGED <<exit, history, file>>
               \/ /\ ~Runs(Script(path)) /\ AddHistoryEntry(text)
                  /\ UNCHANGED <<phase, mode, exit, batch, given, command>>
      [] Head(text) = ".tables" ->
            AddHistoryEntry(text) /\ UNCHANGED <<phase, mode, exit, batch, given, failed, command>>
      [] OTHER -> UNCHANGED <<phase, mode, exit, batch, given, failed, command, history, file>>

IsMeta(text) == text # <<>> /\ Head(text) \in {".quit", ".run", ".tables", ".unknown"}

HasPendingSql == \E k \in DOMAIN pending : pending[k] \notin {NL, Blank}

\* Lines collect in pendingSql until one completes a statement.  All of it is
\* split then; an error in that drops all of it.
Collect(text) ==
    LET collected == pending \o text \o <<NL>> IN
    /\ given' = given \o text \o <<NL>>
    /\ IF ~ContainsStatementTerminator(collected)
       THEN pending' = collected /\ UNCHANGED <<phase, mode, batch>>
       ELSE IF Unterminated(collected) \/ Statements(collected) = <<>>
            THEN pending' = <<>> /\ UNCHANGED <<phase, mode, batch>>
            ELSE /\ pending' = collected
                 /\ batch' = Statements(collected) /\ phase' = "running" /\ mode' = "repl"
    /\ failed' = 0
    /\ UNCHANGED <<exit, command, history, file>>

TakeLine(typed) ==
    LET text == NormalizeReplLine(typed)
        trimmed == Trimmed(text)
    IN
    /\ IF ~HasPendingSql /\ trimmed = <<>>
       THEN UNCHANGED <<phase, mode, exit, pending, batch, given, failed, command, history, file>>
       ELSE IF ~HasPendingSql /\ IsMeta(trimmed)
       THEN MetaCommand(trimmed) /\ UNCHANGED pending
       ELSE Collect(text)
    /\ FreshLine
    /\ UNCHANGED <<starts, repl, ran>>

\* popPendingLine: pasted lines come before anything that is typed.
ReadQueued ==
    /\ phase = "prompt" /\ queue # <<>>
    /\ queue' = Tail(queue)
    /\ TakeLine(Head(queue))
    /\ UNCHANGED keyed

Editing == phase = "prompt" /\ queue = <<>>

\* What counts against the bound.
Key == Editing /\ keyed < MaxKeyed /\ keyed' = keyed + 1

Enter == Key /\ TakeLine(line) /\ UNCHANGED queue

\* Ctrl-C, where the terminal does not turn it into a signal.
Interrupt == Key /\ TakeLine(<<>>) /\ UNCHANGED queue

\* Ctrl-D on an empty line, or the end of the input.
EndOfInput ==
    /\ Editing
    /\ End(0)
    /\ UNCHANGED <<starts, mode, repl, editor, keyed, queue, pending, batch, failed, command,
                   history, file, given, ran>>

NotTaken == UNCHANGED <<phase, starts, mode, exit, repl, queue, pending, batch, failed, command,
                        history, file, given, ran>>

Before == SubSeq(line, 1, cursor)
After == SubSeq(line, cursor + 1, Len(line))

Type(text) ==
    /\ Key
    /\ line' = Before \o text \o After /\ cursor' = cursor + Len(text)
    /\ UNCHANGED recalled /\ NotTaken

Erase ==
    /\ Key
    /\ \/ /\ cursor > 0                                       \* backspace
          /\ line' = SubSeq(line, 1, cursor - 1) \o After /\ cursor' = cursor - 1
       \/ /\ cursor < Len(line)                               \* delete
          /\ line' = Before \o Tail(After) /\ UNCHANGED cursor
    /\ UNCHANGED recalled /\ NotTaken

\* Left, right, home and end.
MoveCursor ==
    /\ Key
    /\ cursor' \in {0, cursor - 1, cursor + 1, Len(line)} \cap 0 .. Len(line)
    /\ cursor' # cursor
    /\ UNCHANGED <<line, recalled>> /\ NotTaken

\* Up and down: the line is replaced; past the newest entry it is empty.
Recall ==
    /\ Key
    /\ recalled' \in {recalled - 1, recalled + 1} \cap 1 .. Len(history) + 1
    /\ line' = IF recalled' > Len(history) THEN <<>> ELSE history[recalled']
    /\ cursor' = Len(line')
    /\ NotTaken

\* A paste without a newline becomes part of the line, the cursor at its end.
\* One with newlines ends the line at the first; the rest, the end of the
\* line included, is read before anything else.
Lines(text) ==
    FoldLeft(LAMBDA ls, c : IF c = NL THEN Append(ls, <<>>)
                            ELSE [ls EXCEPT ![Len(ls)] = Append(@, c)],
             << <<>> >>, text)

Paste(text) ==
    LET lines == Lines(Before \o text \o After) IN
    /\ Key
    /\ IF Len(lines) = 1
       THEN line' = lines[1] /\ cursor' = Len(line') /\ UNCHANGED recalled /\ NotTaken
       ELSE queue' = Tail(lines) /\ TakeLine(lines[1])

----------------------------------------------------------------------------
(* Statements are executed one by one *)

\* A mutant: pendingSql is cleared only after a batch without an error.
FinishedKeeping(status) ==
    IF repl
    THEN /\ phase' = "prompt" /\ mode' = "repl" /\ pending' = IF status = 0 THEN <<>> ELSE pending
         /\ UNCHANGED exit
    ELSE End(status) /\ UNCHANGED <<mode, pending>>

\* When the last one is done the session prompts again and the program ends
\* in the other modes; runRepl has cleared pendingSql.
Finished(status) ==
    IF repl
    THEN /\ phase' = "prompt" /\ mode' = "repl" /\ pending' = <<>>
         /\ UNCHANGED exit
    ELSE End(status) /\ UNCHANGED <<mode, pending>>

\* executeScript goes on after a failure and throws at the end; a single query
\* and the session stop at the first.
Goes(ok) == ok \/ mode = "script"
Status(failures) == IF failures = 0 THEN 0 ELSE 1

\* A statement of the session is in the history before it is executed.
Execute ==
    /\ phase = "running"
    /\ \E ok \in {TRUE, FALSE} :
        /\ ok => Parses(Head(batch))
        /\ ran' = Append(ran, [text |-> Head(batch), ok |-> ok])
        /\ failed' = failed + (IF ok THEN 0 ELSE 1)
        /\ batch' = IF Goes(ok) THEN Tail(batch) ELSE <<>>
        /\ IF batch' = <<>> THEN Finished(Status(failed'))
                            ELSE UNCHANGED <<phase, mode, exit, pending>>
    /\ IF mode = "repl" THEN AddHistoryEntry(NormalizeHistoryEntry(Head(batch))) /\ UNCHANGED command
       ELSE IF repl /\ batch' = <<>> THEN AddHistoryEntry(command) /\ command' = <<>>
       ELSE UNCHANGED <<command, history, file>>
    /\ FreshLine
    /\ UNCHANGED <<starts, repl, keyed, queue, given>>

\* The process is killed; the history file stays.
Killed == 137
Kill ==
    /\ phase \in {"prompt", "running"}
    /\ End(Killed)
    /\ UNCHANGED <<starts, mode, repl, editor, keyed, queue, pending, batch, failed, command,
                   history, file, given, ran>>

Next ==
    \/ \E arguments \in ArgumentLists : Start(arguments)
    \/ \E text \in Keyed : Type(text)
    \/ \E text \in Pasted : Paste(text)
    \/ Erase \/ MoveCursor \/ Recall
    \/ Enter \/ Interrupt \/ EndOfInput \/ ReadQueued
    \/ Execute \/ Kill

Spec == Init /\ [][Next]_vars

----------------------------------------------------------------------------
(* What the session promises *)

\* The reference: a quote or a comment, once open, holds everything up to its
\* closer; Opened(text)[i] is what is open after i tokens.
Closer == [c \in {"'", "--", "/*"} |->
              CASE c = "'" -> "'" [] c = "--" -> NL [] c = "/*" -> "*/"]
Opened(text) ==
    LET open[i \in 0 .. Len(text)] ==
            IF i = 0 THEN "nothing"
            ELSE LET before == open[i - 1]
                 IN IF before # "nothing" /\ text[i] # Closer[before] THEN before
                    ELSE IF before = "nothing" /\ text[i] \in DOMAIN Closer THEN text[i]
                    ELSE "nothing"
    IN open

Ends(text) ==
    LET open == Opened(text) IN {i \in DOMAIN text : text[i] = ";" /\ open[i - 1] = "nothing"}

\* The positions of a text that belong to statements: what is quoted, and what
\* is outside of quotes and comments.
Stated(text) ==
    LET open == Opened(text) IN
    {i \in DOMAIN text : \/ open[i - 1] = "'"
                         \/ open[i - 1] = "nothing" /\ text[i] \notin {";", "--", "/*", NL, Blank}}

\* The statements of a text: what is stated between two ends.
Cut(text) ==
    LET ends == Ends(text)
        stated == Stated(text)
        Piece(k) == Selected(text, {i \in stated : i < k /\ \A e \in ends : e < i \/ k <= e})
        pieces == [k \in 1 .. Len(text) + 1 |->
                      IF k \in ends \cup {Len(text) + 1} THEN Piece(k) ELSE <<>>]
    IN Selected(pieces, {k \in DOMAIN pieces : pieces[k] # <<>>})

Texts(runs) == [k \in DOMAIN runs |-> runs[k].text]
\* Everything is executed in the order in which it was given, and as often: the
\* tokens of the statements executed, one statement after the other, are among
\* those given, in their order.  A line kept after an error, or a pasted one
\* read twice, would run a statement again.
RunsOnceInOrder ==
    LET done == FlattenSeq(Texts(ran))
        found[i \in 0 .. Len(given)] ==
            IF i = 0 THEN 0
            ELSE LET n == found[i - 1]
                 IN IF n < Len(done) /\ done[n + 1] = given[i] THEN n + 1 ELSE n
    IN found[Len(given)] = Len(done)

\* While the prompt waits the lines collected hold no complete statement, and
\* what runs was completed by the last line: both scanners take quotes and
\* comments for the same.  What is left to run is the end of that text.
StatementsRunWhenComplete ==
    /\ phase = "prompt" => Ends(pending) = {}
    /\ phase = "running" /\ mode = "repl" =>
        LET earlier == {0} \cup {i \in 1 .. Len(pending) - 1 : pending[i] = NL}
        IN /\ Ends(pending) # {}
           /\ \A i \in Ends(pending), j \in earlier : i > j
           /\ IsSuffix(batch, Cut(pending))

\* The exit status tells what became of the text that was given: 0, all of it
\* succeeded; 1, a script ran none of its statements because one does not
\* parse, or all and one failed, and a query stopped at the one that failed;
\* 2, nothing ran.
ExitTells ==
    phase = "ended" /\ ~repl /\ exit # Killed =>
        LET failures == {k \in DOMAIN ran : ~ran[k].ok}
            cut == Cut(given)
        IN CASE exit = 0 -> failures = {} /\ Texts(ran) = cut
             [] exit = 1 /\ mode = "script" ->
                    \/ ran = <<>>
                    \/ Texts(ran) = cut /\ failures # {} /\ \A k \in DOMAIN cut : Parses(cut[k])
             [] exit = 1 /\ mode = "query" ->
                    IsPrefix(Texts(ran), cut) /\ failures \subseteq {Len(ran)}
             [] exit = 2 -> ran = <<>>

\* A statement the line of the history can hold as it is: on one line, with no
\* two blanks in a row, and no word that normalizeReplLine takes apart.
Plain(statement) ==
    LET open == Opened(statement) IN
    \A i \in DOMAIN statement :
        /\ statement[i] # NL
        /\ i > 1 /\ statement[i] = Blank => statement[i - 1] # Blank
        /\ statement[i] \in DOMAIN Broken => open[i - 1] # "nothing"

\* A statement of the session stays in reach: once it is executed, and whatever
\* becomes of it or the program, this and every later session has an entry for
\* it.  Entered again, the entry is complete on its one line and is one
\* statement, and it is the same one if that is plain.  (One that begins as a
\* command does would be taken for it.)
HistoryReplays ==
    [][phase = "running" /\ mode = "repl" /\ ran' # ran =>
          LET statement == Last(ran').text
              entry == Last(history')
              typed == NormalizeReplLine(entry)
          IN /\ Contains(Loaded(file'), entry)
             /\ ~IsMeta(entry) =>
                   /\ ContainsStatementTerminator(typed) /\ ~Unterminated(typed)
                   /\ Len(Statements(typed)) = 1
                   /\ Plain(statement) => Statements(typed) = <<statement>>]_vars
=============================================================================
