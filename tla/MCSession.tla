------------------------------ MODULE MCSession -----------------------------
(***************************************************************************)
(* A small keyboard for Session: the statements q (which succeeds or       *)
(* fails) and bad (which does not parse), a word that ends in a clause     *)
(* keyword, a string, and every marker; pastes of several lines; three     *)
(* script files and the command lines that select each mode.               *)
(***************************************************************************)
EXTENDS Session

MCToken == {"'", ";", "--", "/*", "*/", "\n", " ", "q", "bad", "region", "regi", "on", "f", "g",
            "queries.sql", "../queries.sql", ".run", ".quit", ".tables", ".unknown"}
MCUnparsed == {"bad"}
MCBroken == "region" :> <<"regi", "on">>

MCFiles == ("../queries.sql" :> <<"q", ";", NL, "q", "--", ";", NL, "'", ";", "'", ";">>)
           @@ ("f" :> <<"q", ";", "bad", ";">>)
           @@ ("g" :> <<"--", "q", ";">>)

Flag(f) == [flag |-> f, text |-> <<"bad">>]
Other(t) == [flag |-> "", text |-> t]
MCArgumentLists ==
    {<<>>, <<Flag("-r")>>, <<Flag("-h")>>, <<Flag("-r"), Flag("-q")>>, <<Flag("-q")>>,
     <<Flag("-f"), Other(<<"f">>)>>, <<[flag |-> "--file=", text |-> <<>>]>>,
     <<Other(<<"q">>)>>, <<Flag("-q"), Flag("-h")>>, <<Flag("-f"), Other(<<"g">>)>>}
    \cup {<<Flag("-q"), Other(t)>> :
            t \in {<<"q", ";", "q", ";", "bad", ";", "q">>, <<"--", "q">>, <<"q", ";", "'">>}}

MCKeyed == {<<"q", ";">>, <<"region">>, <<"bad", ";">>, <<";">>, <<"'">>, <<"--">>,
            <<".run", "f">>, <<".quit">>, <<".unknown">>}

MCPasted == {<<"q", ";", NL, "q", ";", "q", NL>>, <<"'", NL, "region">>,
             <<NL, "/*", ";", NL, "*/", "q", "--", ";", NL, ".tables">>,
             <<".run", "../queries.sql">>}

MCOldHistories == {<<[marked |-> FALSE, text |-> <<"q">>], [marked |-> FALSE, text |-> <<"q", ";">>],
                     [marked |-> FALSE, text |-> <<".tables">>]>>}
=============================================================================
