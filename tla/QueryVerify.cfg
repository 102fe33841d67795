SPECIFICATION Spec
CONSTANTS
    grow = grow
    wide = wide
    work = work
    write = write
    Reads = {grow, wide, work}
    Writes = {write}
    Inputs <- MCInputs
    Pieces <- MCPieces
    Steps <- MCSteps
    MaxVersion = 2
    MaxAttempts = 2
    OutBytes = 21
    TextBytes = 26
    MaxRows = 2
    MaxSteps = 4
    Interval = 2
INVARIANT VerifyExpectsBundled
