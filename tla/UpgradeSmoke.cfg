SPECIFICATION Spec
CONSTANTS
    MaxCommands = 2
    MaxWrites = 2
    OldSequenceIn = "auth"
    Unknown = Unknown
PROPERTY SmokeNeedsForce
CHECK_DEADLOCK FALSE
