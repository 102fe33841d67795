------------------------------ MODULE MCScript ------------------------------
(* The instance of Script that TLC checks: lengths around the two limits,  *)
(* BatchTarget = 14 and MaxText = 24, and for cmd_check texts with every   *)
(* kind of quote and comment, and triggers.                                *)
EXTENDS Script

Text(size, word) == [i \in 1..size |-> IF i = size THEN ";" ELSE word]
Tail13 == [i \in 1..13 |-> "d"]
BeginLine == <<"begin", "transaction", ";">>
CommitLine == <<"commit", ";">>

Dump == <<BeginLine, Text(6, "a"), Text(5, "b"), Text(3, "c"), CommitLine, Tail13>>
Large == <<Text(24, "a"), Text(2, "b")>>
TooLarge == <<Text(13, "a"), Text(25, "b")>>
Undone == <<Text(6, "a"), <<"rollback", ";">>>>
Smoked == <<<<"create", ";">>, <<"insert", ";">>, <<"drop", ";">>>>

Row(size, char) == <<[i \in 1..size |-> char]>>     \* its insert: 4 bytes more
Quoted == <<<<"\"", "'">>, << >>, <<"\"", ",", "\"">>, <<",">>>>

Input(command, scripts) == [command |-> command, parts |-> scripts]

Executed ==
    {Input("restore", <<Dump>>), Input("bootstrap", <<Large>>),
     Input("script", <<TooLarge>>), Input("script", <<Undone>>), Input("script", <<<<BeginLine>>>>),
     Input("new", <<Large, Undone>>), Input("new_no_wait", <<Large, <<Text(2, "c")>>>>),
     Input("verify", <<Smoked>>),
     Input("csv", <<<<Row(2, "a"), Quoted, Row(20, "c")>>>>),
     Input("csv", <<<<Row(2, "a"), Row(2, "\n"), Row(21, "c")>>>>)}

Pieces ==
    {<< >>, <<"a">>, <<"end">>, <<"-", "/", "*", ";", "*", "/">>, <<"/", "*", "'", "*", "/">>,
     <<"-", "-", ";", "'", "\n">>, <<"'", ";", "\"", "'">>, <<"'", "'", "'", ";", "'">>,
     <<"\"", ";", "'", "\"">>, <<"backtick", ";", "[", "backtick">>,
     <<"[", "]", "]", ";", "]">>, <<"[", "-", "-", "]">>}
Statements == {p \o q \o <<";">> : p, q \in Pieces}
Triggers ==
    {head \o p \o <<"begin">> \o q \o <<"a", ";", "case", "end", ";", "end">> \o r \o <<";">> :
        head \in {<<"create", "trigger">>, <<"create", "temp", "trigger">>},
        p \in {<< >>, <<"/", "*", ";", "*", "/">>},
        q \in {<< >>, <<"'", ";", "'">>}, r \in {<< >>, <<"-", "-", "\n">>}}

Checked ==
    {Input("check", <<<<s, t>>>>) :
        s \in Statements \cup Triggers,
        t \in Triggers \cup {<<"a", ";">>, <<"-", "-", ";", "\n", "b">>, <<"'", "a", "'">>}}

MCInputs == Executed \cup Checked
MCCharacters ==
    Marks \cup {",", "a", "b", "c", "d", "begin", "transaction", "commit", "rollback", "end",
                "create", "temp", "trigger", "case", "insert", "drop"}
MCWriters == 0..3
=============================================================================
