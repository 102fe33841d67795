SPECIFICATION BackupSpec
CONSTANTS
    MaxVfsPages = 2
    MaxDbPages = 2
    MaxDirtyPages = 2
    MaxGeneration = 2
    MaxSequence = 2
    Data = {z, a}
    Zero = z
    Absent = Absent
    Configured = TRUE
    AutoVacuum = FALSE
    Faults = {}
    ChunkPages = 1
    MaxTries = 2
    ViewsDuringCalls = TRUE
INVARIANTS BackupTypeOK BackupIsOneFile NothingButLive
PROPERTY BackupEnds
