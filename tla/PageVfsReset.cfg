SPECIFICATION Spec
CONSTANTS
    MaxVfsPages = 2
    MaxDbPages = 1
    MaxDirtyPages = 1
    MaxGeneration = 2
    MaxSequence = 1
    Data = {z, a}
    Zero = z
    Absent = Absent
    Configured = FALSE
    AutoVacuum = TRUE
    Faults = {"put", "delete", "cut"}
    Unwritten = Unwritten
    Torn = Torn
    NoTxn = NoTxn
PROPERTY ImplementsAtomicDatabase
