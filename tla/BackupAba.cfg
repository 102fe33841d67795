SPECIFICATION BackupSpec
CONSTANTS
    MaxVfsPages = 2
    MaxDbPages = 2
    MaxDirtyPages = 2
    MaxGeneration = 2
    MaxSequence = 1
    Data = {z, a}
    Zero = z
    Absent = Absent
    Configured = FALSE
    AutoVacuum = FALSE
    Faults = {}
    ChunkPages = 1
    MaxTries = 2
    ViewsDuringCalls = FALSE
INVARIANT BackupIsOneFile
