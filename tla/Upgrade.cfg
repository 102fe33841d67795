SPECIFICATION Spec
CONSTANTS
    MaxCommands = 3
    MaxWrites = 1
    OldSequenceIn = "auth"
    Unknown = Unknown
INVARIANTS TypeOK IInv RecoverableUpdate BackupIsCurrent
PROPERTY PausedRollbackIsClean
CHECK_DEADLOCK FALSE
