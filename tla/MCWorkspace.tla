----------------------------- MODULE MCWorkspace -----------------------------
(* The instance of Workspace that TLC checks.                               *)
EXTENDS Workspace

CONSTANTS c1, c2, c3, n1, n2, old, bare, home, other

Of(kind, name, path, flags) ==
    [kind |-> kind, name |-> name, circle |-> old, path |-> path, flags |-> flags]

(* c3 saves a name for the Circle the others are about. *)
All(first, second, circle) ==
    {[p \in Commands |->
        [(IF p = c1 THEN i ELSE IF p = c2 THEN j ELSE Of("set", n1, None, {}))
            EXCEPT !.circle = circle]] :
        i \in first, j \in second}

MCInputs ==
    All({Of("default", n1, None, {}), Of("attach", n1, other, {}),
         Of("import", n1, other, {"force", "no_use"}), Of("import", n1, other, {"no_use"}),
         Of("setup", n1, other, {"wallet"}), Of("setup", n1, None, {}),
         Of("new", n2, None, {"interactive", "default"}), Of("new", n1, None, {"no_wait"})},
        {Of("remove", n1, None, {}), Of("import", n1, None, {"force"}),
         Of("setup", n1, None, {"interactive"}), Of("new", n1, other, {"interactive"})}, old)
    \cup
    All({Of("attach", n1, other, {}), Of("new", n2, None, {"no_wait"})},
        {Of("new", n2, None, {"no_name"})}, old)
    \cup
    UNION {
        All({Of("remove", n1, None, {}), Of("upgrade", n1, None, {}),
             Of("bootstrap", n1, None, {}),
             Of("deploy", n1, None, {"allow_unconfigured", "no_wait"})},
            {Of("deploy", n1, None, {"bootstrap"}), Of("deploy", n1, None, {})}, circle) :
        circle \in {old, bare}}
=============================================================================
