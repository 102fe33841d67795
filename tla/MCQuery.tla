------------------------------- MODULE MCQuery -------------------------------
(* The instance of Query that TLC checks.  OutBytes and TextBytes leave     *)
(* room for 15 bytes of rows and header; two callbacks are granted.         *)
EXTENDS Query

CONSTANTS grow, wide, work, write

(* On the versions 0, 1 and 2. *)
Of(f0, f1, f2) == [v \in 0..2 |-> <<f0, f1, f2>>[v + 1]]

MCPieces ==
    [s \in {grow, wide, work, write} |->
        CASE s = grow -> Of(<<5>>, <<5, 4, 4>>, <<5, 1, 1, 1>>)
          [] s = wide -> Of(<<5, 10>>, <<5, 11>>, <<5, 17, 4>>)
          [] s = work -> Of(<<5, 1>>, <<5, 1>>, <<5, 1>>)
          [] s = write -> Of(<<5>>, <<5>>, <<5>>)]

MCSteps == [s \in {grow, wide, work, write} |-> IF s = work THEN Of(3, 4, 5) ELSE Of(1, 1, 1)]

Ask(command, text, flags, mode, wallet, public) ==
    [command |-> command, text |-> text, flags |-> flags,
     mode |-> mode, wallet |-> wallet, public |-> public]

Texts == {<<grow>>, <<wide, ";">>, <<work, ";", "--">>, <<"--">>, <<write, ";">>,
          <<"--", write>>, <<grow, ";", ";">>, <<grow, ";", "--", write>>}

MCInputs ==
    {Ask("sql", t, f, "auto", TRUE, FALSE) : t \in Texts, f \in {{}, {"read_only"}, {"trace"}}}
    \cup {Ask("sql", t, {}, "public", FALSE, TRUE) : t \in {<<wide, ";">>, <<write, ";">>}}
    \cup {Ask("sql", <<grow>>, f, "sealed", w, FALSE) :
            f \in {{"dot"}, {"dot", "write_dot"}, {"dot", "trace"}}, w \in BOOLEAN}
    \cup {Ask("status", <<grow>>, {"ready"}, m, w, p) :
            m \in {"auto", "public", "sealed"}, w \in BOOLEAN, p \in BOOLEAN}
    \cup {Ask("status", <<grow>>, {}, "auto", TRUE, TRUE)}
    \cup {Ask("verify", <<grow>>, f, m, w, m # "sealed") :
            f \in {{}, {"json"}}, m \in {"auto", "sealed"}, w \in BOOLEAN}
    \cup {Ask("new", <<grow>>, {}, m, w, m # "sealed") :
            m \in {"auto", "sealed"}, w \in BOOLEAN}
=============================================================================
