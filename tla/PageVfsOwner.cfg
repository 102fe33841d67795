SPECIFICATION Spec
CONSTANTS
    MaxVfsPages = 2
    MaxDbPages = 2
    MaxDirtyPages = 2
    MaxGeneration = 2
    MaxSequence = 2
    Data = {z, a}
    Zero = z
    Absent = Absent
    Configured = TRUE
    AutoVacuum = FALSE
    Faults = {"put", "delete", "cut"}
    Unwritten = Unwritten
    Torn = Torn
    NoTxn = NoTxn
INVARIANTS TypeOK IInv CommittedReadable NoKeyBeyondNextGeneration
PROPERTIES RepliesAreTrue PromotionsAdvance ImplementsAtomicDatabase
