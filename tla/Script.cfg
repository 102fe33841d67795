SPECIFICATION ScriptSpec
CONSTANTS
    Writers <- MCWriters
    MaxNonce = 4
    MaxPolls = 1
    ChainMay = {"drop", "reorder"}
    HostRollsBack = TRUE
    Characters <- MCCharacters
    BatchTarget = 14
    MaxText = 24
    Inputs <- MCInputs
INVARIANTS ScriptTypeOK ScriptInv FailedIsNotApplied AppliedIsPrefix SmokeCleansUp StatementsInOrder RefusedForAStatement
PROPERTY ScriptEnds
CHECK_DEADLOCK FALSE
