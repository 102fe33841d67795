SPECIFICATION Spec
CONSTANTS
    Commands = {c1, c2, c3}
    c1 = c1
    c2 = c2
    c3 = c3
    n1 = n1
    n2 = n2
    old = old
    home = home
    other = other
    Names = {n1, n2}
    bare = bare
    Found = {old, bare}
    Unprotected = {bare}
    Paths = {home, other}
    DefaultPath = home
    Given = given
    Torn = torn
    None = none
    Inputs <- MCInputs
INVARIANT WorkspaceInv
PROPERTIES LostOnlyByOverlap KeysAreKept ProtectionIsKept CommandsEnd
CHECK_DEADLOCK FALSE
