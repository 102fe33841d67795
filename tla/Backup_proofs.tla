---------------------------- MODULE Backup_proofs ----------------------------
(***************************************************************************)
(* Proof that a backup of a personalized program is one committed file,    *)
(* for every file size, chunk size, number of attempts and set of faults,  *)
(* and whether or not views run between the puts of an update.             *)
(***************************************************************************)
EXTENDS Backup, PageVfsRefinement_proofs

LEMMA CommittedNotTorn == (TypeOK /\ ~torn /\ ManifestReadable(meta)) => VisibleFile # Torn
    BY MarkersDiffer

(* The committed file of a personalized program changes only with the      *)
(* metadata: the abstract database has no other step that changes it.      *)
LEMMA CommittedFollowsMeta ==
    ASSUME Configured, RefInv, RefInv', [Next]_vars, meta' = meta
    PROVE  CommittedFile' = CommittedFile
<1>1. ~torn /\ ~torn' /\ VisibleFile = CommittedFile /\ VisibleFile' = CommittedFile'
    BY DEF RefInv, OnlyResetTears, VisibleFile
<1>2. VisibleFile' # Torn
    <2>1. (TypeOK /\ ~torn /\ ManifestReadable(meta))' => (VisibleFile # Torn)'
        BY CommittedNotTorn, PTL
    <2> QED
        BY <1>1, <2>1 DEF RefInv, IInv, CommittedReadable
<1>3. [Database!Next]_Database!vars
    BY StepSimulates
<1>4. CASE Database!Commit
    <2>1. InTransaction /\ OpenTransaction.seq = pending
        BY <1>4 DEF Database!Commit, OpenTransaction
    <2>2. pending > meta.seq /\ meta.seq \in Nat /\ pending \in Nat
        BY <2>1, SizesAssumption DEF RefInv, IInv, TypeOK, Metas, Sequence, PendingFresh,
              LoadedIsCurrent, InTransaction, Transacting
    <2>3. meta'.seq = pending
        BY <1>4, <2>1, <2>2 DEF Database!Commit
    <2> QED
        BY <2>2, <2>3
<1>5. CASE Database!FinishWipe
    <2>1. CommittedFile' = << >>
        BY <1>1, <1>5 DEF Database!FinishWipe
    <2>2. DOMAIN CommittedFile = 1..meta.size /\ DOMAIN CommittedFile' = 1..meta.size
        BY DEF CommittedFile
    <2>3. 1..meta.size = {}
        BY <2>1, <2>2
    <2> QED
        BY <2>3 DEF CommittedFile
<1>6. CASE Database!Wipe
    BY <1>2, <1>6 DEF Database!Wipe
<1>7. CASE UNCHANGED VisibleFile
    BY <1>1, <1>7
<1> QED
    BY <1>3, <1>4, <1>5, <1>6, <1>7 DEF Database!Next, Database!vars, Database!Begin,
       Database!Write, Database!Truncate, Database!Abort

-----------------------------------------------------------------------------
(* The invariant: while the generation that the client pinned is current,  *)
(* its committed file is the one storage_info saw, and afterwards the      *)
(* generation is past it for good; what is copied is a prefix of that file. *)

PinnedFile == meta.gen = pin.gen => CommittedFile = snapshot /\ meta.size = pin.size

PrefixCopied ==
    /\ Len(snapshot) = pin.size
    /\ Len(copied) <= pin.size
    /\ \A i \in 1..Len(copied) : copied[i] = snapshot[i]

BackupInv ==
    /\ BackupTypeOK
    /\ RefInv
    /\ stage = "start" => tries < MaxTries
    /\ stage = "copying" => pin.gen <= meta.gen /\ PinnedFile /\ PrefixCopied
    /\ BackupIsOneFile

(* A file is a sequence of pages.                                          *)
LEMMA FileIsSequence ==
    ASSUME TypeOK, ManifestReadable(meta)
    PROVE  CommittedFile \in Seq(Data) /\ Len(CommittedFile) = meta.size /\ meta.size \in Nat
<1>1. CommittedFile \in [1..meta.size -> Data] /\ meta.size \in Nat
    BY CommittedFileTyped DEF TypeOK, Metas
<1> QED
    BY <1>1

(* A backup only reads: the program behaves as it does without one.        *)
LEMMA BackupOnlyReads == BackupSpec => Spec
<1>1. BackupInit => Init
    BY DEF BackupInit
<1>2. [BackupNext]_allVars => [Next]_vars
    BY DEF BackupNext, BackupStep, allVars, StartTry, CopyChunk, GenerationChanged,
           BackupFails, FinishBackup
<1> QED
    BY <1>1, <1>2, PTL DEF BackupSpec, Spec

(* The pages of a chunk, and the file with the chunk appended.             *)
LEMMA ChunkAppended ==
    ASSUME TypeOK, BackupTypeOK, CopyChunk
    PROVE  /\ copied' \in Seq(Data)
           /\ Len(copied') = LastPage /\ LastPage <= meta.size
           /\ \A i \in 1..Len(copied') :
                 copied'[i] = IF i <= Len(copied) THEN copied[i] ELSE CommittedFile[i]
<1> USE BackupAssumption
<1> DEFINE n == LastPage - Len(copied)
           chunk == [i \in 1..n |->
                        PageContent(LoadedGens(meta)[Len(copied) + i], Len(copied) + i)]
<1>1. /\ ManifestReadable(meta) /\ Len(copied) < pin.size /\ pin.size \in Nat
      /\ copied \in Seq(Data) /\ Len(copied) \in Nat /\ LastPage <= meta.size
    BY DEF BackupTypeOK, CopyChunk, Copying, Served, SameGeneration
<1>2. /\ CommittedFile \in Seq(Data) /\ Len(CommittedFile) = meta.size /\ meta.size \in Nat
    BY <1>1, FileIsSequence
<1>3. n \in Nat /\ LastPage = Len(copied) + n /\ LastPage \in Nat
    BY <1>1, <1>2 DEF LastPage
<1>4. \A i \in 1..n : chunk[i] = CommittedFile[Len(copied) + i] /\ chunk[i] \in Data
    BY <1>1, <1>2, <1>3 DEF CommittedFile
<1>5. copied' = copied \o chunk
    BY DEF CopyChunk
<1> HIDE DEF n
<1>6. chunk \in Seq(Data) /\ Len(chunk) = n
    BY <1>3, <1>4
<1>7. copied' \in Seq(Data) /\ Len(copied') = LastPage
    <2> HIDE DEF chunk
    <2>1. copied \in Seq(Data) /\ chunk \in Seq(Data)
        BY <1>1, <1>6
    <2>2. copied' \in Seq(Data) /\ Len(copied') = Len(copied) + Len(chunk)
        BY <1>5, <2>1
    <2> QED
        BY <1>3, <1>6, <2>2
<1>8. ASSUME NEW i \in 1..Len(copied')
      PROVE  copied'[i] = IF i <= Len(copied) THEN copied[i] ELSE CommittedFile[i]
    <2>1. CASE i <= Len(copied)
        BY <1>1, <1>3, <1>5, <1>6, <1>7, <1>8, <2>1
    <2>2. CASE i > Len(copied)
        <3> DEFINE j == i - Len(copied)
        <3>1. j \in 1..n /\ i = Len(copied) + j
            BY <1>1, <1>3, <1>7, <2>2
        <3>2. copied'[i] = chunk[j]
            BY <1>1, <1>3, <1>5, <1>6, <3>1
        <3> QED
            BY <1>1, <1>4, <2>2, <3>1, <3>2
    <2> QED
        BY <1>1, <1>7, <2>1, <2>2
<1> QED
    BY <1>1, <1>7, <1>8

(* A step of the program keeps the invariant of the backup.                *)
LEMMA ProgramKeepsBackupInv ==
    ASSUME Configured, BackupInv, RefInv', [Next]_vars, UNCHANGED backup
    PROVE  BackupInv'
<1>1. BackupTypeOK' /\ BackupIsOneFile' /\ PrefixCopied' = PrefixCopied
    BY DEF BackupInv, BackupTypeOK, BackupIsOneFile, PrefixCopied, backup
<1>2. ASSUME stage = "copying"
      PROVE  (pin.gen <= meta.gen)' /\ PinnedFile'
    <2>1. pin' = pin /\ snapshot' = snapshot /\ pin.gen <= meta.gen /\ PinnedFile
          /\ pin.gen \in Nat /\ meta.gen \in Nat
        BY <1>2 DEF BackupInv, BackupTypeOK, RefInv, IInv, TypeOK, Metas, Gen, backup
    <2>2. CASE meta' = meta
        BY <2>1, <2>2, CommittedFollowsMeta DEF BackupInv, PinnedFile
    <2>3. CASE meta' # meta
        <3>1. meta'.gen = meta.gen + 1
            BY <2>3, PromotionStep DEF BackupInv, RefInv, PromotionAdvances, vars, storage
        <3> QED
            BY <2>1, <3>1 DEF PinnedFile
    <2> QED
        BY <2>2, <2>3
<1> QED
    BY <1>1, <1>2 DEF BackupInv, backup

(* storage_info gives a file and its generation together.                  *)
LEMMA StartTryKeepsBackupInv ==
    ASSUME Configured, BackupInv, RefInv', StartTry
    PROVE  BackupInv'
<1>1. /\ TypeOK /\ ManifestReadable(meta) /\ meta.gen \in Gen /\ meta.size \in 0..MaxVfsPages
      /\ meta' = meta /\ CommittedFile' = CommittedFile
    BY DEF BackupInv, RefInv, IInv, CommittedReadable, OnlyResetTears, TypeOK, Metas,
           StartTry, vars, storage, CommittedFile, LoadedGens, PageContent
<1>2. /\ CommittedFile \in Seq(Data) /\ Len(CommittedFile) = meta.size /\ meta.size \in Nat
    BY <1>1, FileIsSequence
<1>3. /\ snapshot' = CommittedFile /\ copied' = << >>
      /\ pin' = [gen |-> meta.gen, size |-> meta.size]
      /\ stage' \in {"copying", "failed"} /\ tries' = tries + 1
    BY <1>1 DEF StartTry
<1>4. BackupTypeOK'
    <2>1. tries' \in 0..MaxTries
        BY <1>3, BackupAssumption DEF BackupInv, BackupTypeOK, StartTry
    <2> QED
        BY <1>1, <1>2, <1>3, <2>1 DEF BackupTypeOK, Stages
<1>5. (pin.gen <= meta.gen)' /\ PinnedFile' /\ PrefixCopied'
    BY <1>1, <1>2, <1>3 DEF PinnedFile, PrefixCopied, Gen
<1> QED
    BY <1>3, <1>4, <1>5 DEF BackupInv, BackupIsOneFile

(* A chunk that is accepted comes from the pinned file.                    *)
LEMMA CopyChunkKeepsBackupInv ==
    ASSUME BackupInv, RefInv', CopyChunk
    PROVE  BackupInv'
<1>1. /\ TypeOK /\ BackupTypeOK /\ stage = "copying" /\ PrefixCopied
      /\ meta.gen = pin.gen /\ snapshot = CommittedFile /\ meta.size = pin.size
    BY DEF BackupInv, RefInv, IInv, CopyChunk, Copying, Served, SameGeneration, PinnedFile
<1>2. /\ copied' \in Seq(Data) /\ Len(copied') <= meta.size
      /\ \A i \in 1..Len(copied') :
            copied'[i] = IF i <= Len(copied) THEN copied[i] ELSE CommittedFile[i]
    BY <1>1, ChunkAppended
<1>3. PrefixCopied'
    <2>1. copied \in Seq(Data) /\ Len(copied) \in Nat /\ Len(copied') \in Nat
        BY <1>1, <1>2 DEF BackupTypeOK
    <2>2. \A i \in 1..Len(copied') : copied'[i] = snapshot[i]
        BY <1>1, <1>2, <2>1 DEF PrefixCopied
    <2> QED
        BY <1>1, <1>2, <2>2 DEF PrefixCopied, CopyChunk
<1>4. BackupTypeOK'
    BY <1>1, <1>2 DEF BackupTypeOK, CopyChunk
<1>5. (pin.gen <= meta.gen)' /\ PinnedFile'
    <2>1. UNCHANGED <<storage, pin, snapshot>>
        BY DEF CopyChunk, vars
    <2>2. CommittedFile' = CommittedFile /\ meta' = meta
        BY <2>1 DEF storage, CommittedFile, LoadedGens, PageContent
    <2>3. pin.gen <= meta.gen /\ PinnedFile
        BY <1>1 DEF BackupInv
    <2> QED
        BY <2>1, <2>2, <2>3 DEF PinnedFile
<1> QED
    BY <1>1, <1>3, <1>4, <1>5 DEF BackupInv, BackupIsOneFile, CopyChunk

(* The steps that end an attempt.                                          *)
LEMMA AttemptEndsKeepsBackupInv ==
    ASSUME BackupInv, RefInv', GenerationChanged \/ BackupFails \/ FinishBackup
    PROVE  BackupInv'
<1>1. BackupTypeOK' /\ stage' # "copying" /\ (stage = "start" => tries < MaxTries)'
    BY DEF BackupInv, BackupTypeOK, GenerationChanged, BackupFails, FinishBackup, Stages
<1>2. CASE FinishBackup
    <2>1. /\ copied \in Seq(Data) /\ snapshot \in Seq(Data) /\ Len(copied) = Len(snapshot)
          /\ \A i \in 1..Len(copied) : copied[i] = snapshot[i]
        BY <1>2 DEF BackupInv, BackupTypeOK, PrefixCopied, FinishBackup
    <2>2. copied = snapshot
        BY <2>1
    <2> QED
        BY <1>1, <1>2, <2>2 DEF BackupInv, BackupIsOneFile, FinishBackup
<1>3. CASE GenerationChanged \/ BackupFails
    BY <1>1, <1>3 DEF BackupInv, BackupIsOneFile, GenerationChanged, BackupFails
<1> QED
    BY <1>2, <1>3

LEMMA BackupInvHolds == ASSUME Configured PROVE BackupSpec => []BackupInv
<1>1. BackupSpec => []RefInv
    BY BackupOnlyReads, RefInvHolds, PTL
<1>2. BackupInit /\ RefInv => BackupInv
    BY BackupAssumption, SizesAssumption
       DEF BackupInit, BackupInv, BackupTypeOK, BackupIsOneFile, Stages, Gen
<1>3. BackupInv /\ RefInv' /\ [BackupNext]_allVars => BackupInv'
    <2> SUFFICES ASSUME BackupInv, RefInv', [BackupNext]_allVars PROVE BackupInv'
        OBVIOUS
    <2>1. CASE [Next]_vars /\ UNCHANGED backup
        BY <2>1, ProgramKeepsBackupInv
    <2>2. CASE StartTry
        BY <2>2, StartTryKeepsBackupInv
    <2>3. CASE CopyChunk
        BY <2>3, CopyChunkKeepsBackupInv
    <2>4. CASE GenerationChanged \/ BackupFails \/ FinishBackup
        BY <2>4, AttemptEndsKeepsBackupInv
    <2> QED
        BY <2>1, <2>2, <2>3, <2>4 DEF BackupNext, BackupStep, allVars
<1> QED
    BY <1>1, <1>2, <1>3, PTL DEF BackupSpec

(* A backup of a personalized program that succeeds is the file committed  *)
(* when storage_info ran: no commit, garbage collection or fault while it  *)
(* is copied mixes two files into it.                                      *)
THEOREM BackupSound == ASSUME Configured PROVE BackupSpec => []BackupIsOneFile
<1>1. BackupInv => BackupIsOneFile
    BY DEF BackupInv
<1> QED
    BY <1>1, BackupInvHolds, PTL

-----------------------------------------------------------------------------
(* Type correctness in every mode, also of a program that can be reset and *)
(* whose backup may mix two files.                                         *)

TriesLeft == stage = "start" => tries < MaxTries

LEMMA StepKeepsBackupTypeOK ==
    ASSUME TypeOK, BackupTypeOK, TriesLeft, [BackupNext]_allVars
    PROVE  (BackupTypeOK /\ TriesLeft)'
<1> USE BackupAssumption DEF TriesLeft
<1>1. CASE UNCHANGED backup
    BY <1>1 DEF BackupTypeOK, backup
<1>2. CASE StartTry
    <2>1. tries' \in 0..MaxTries /\ stage' \in {"copying", "failed"}
        BY <1>2 DEF BackupTypeOK, StartTry
    <2>2. meta.gen \in Gen /\ meta.size \in 0..MaxVfsPages
        BY DEF TypeOK, Metas
    <2>3. snapshot' \in Seq(Data)
        <3>1. CASE ManifestReadable(meta)
            BY <1>2, <3>1, FileIsSequence DEF StartTry
        <3>2. CASE ~ManifestReadable(meta)
            BY <1>2, <3>2 DEF StartTry
        <3> QED
            BY <3>1, <3>2
    <2> QED
        BY <1>2, <2>1, <2>2, <2>3 DEF BackupTypeOK, Stages, StartTry
<1>3. CASE CopyChunk
    <2>1. copied' \in Seq(Data)
        BY <1>3, ChunkAppended
    <2> QED
        BY <1>3, <2>1 DEF BackupTypeOK, CopyChunk, Copying
<1>4. CASE GenerationChanged \/ BackupFails \/ FinishBackup
    BY <1>4 DEF BackupTypeOK, GenerationChanged, BackupFails, FinishBackup, Stages
<1> QED
    BY <1>1, <1>2, <1>3, <1>4 DEF BackupNext, BackupStep, allVars

(* The client never begins an attempt too many, and every chunk it accepts *)
(* is made of pages, whatever the program's mode and the host's faults.    *)
THEOREM BackupTyped == BackupSpec => []BackupTypeOK
<1>1. BackupInit => BackupTypeOK /\ TriesLeft
    BY BackupAssumption, SizesAssumption DEF BackupInit, BackupTypeOK, TriesLeft, Stages, Gen
<1>2. TypeOK /\ BackupTypeOK /\ TriesLeft /\ [BackupNext]_allVars =>
          (BackupTypeOK /\ TriesLeft)'
    BY StepKeepsBackupTypeOK
<1>3. BackupSpec => []TypeOK
    BY BackupOnlyReads, TypeCorrect, PTL
<1> QED
    BY <1>1, <1>2, <1>3, PTL DEF BackupSpec

(* A backup does not disturb garbage collection either: with a host that   *)
(* does not fail, and a file that never shrinks, nothing is left behind    *)
(* while a backup is taken.                                                *)
THEOREM NothingLeftBehindDuringBackup ==
    ASSUME Faults = {}, ~AutoVacuum
    PROVE  BackupSpec => []NothingButLive
<1> QED
    BY BackupOnlyReads, NothingLeftBehind, PTL
=============================================================================
