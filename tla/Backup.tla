------------------------------- MODULE Backup --------------------------------
(***************************************************************************)
(* A backup (portability.rs) taken while the Circle program works.  The    *)
(* client asks storage_info for the generation and the number of pages,    *)
(* then fetches the file chunk by chunk, each chunk by a view of its own   *)
(* (run_backup_chunk), and starts again when the program answers that the  *)
(* generation has changed.  A view sees the storage as it is when it runs; *)
(* the code relies on no answer to whether that may be between two puts.   *)
(***************************************************************************)
EXTENDS PageVfs, Sequences

CONSTANTS
    ChunkPages,      \* pages the client asks for at once
    MaxTries,        \* BACKUP_RETRIES + 1
    ViewsDuringCalls \* whether a view may run between two puts of an update

ASSUME BackupAssumption ==
    /\ {ChunkPages, MaxTries} \subseteq Nat \ {0}
    /\ ViewsDuringCalls \in BOOLEAN

VARIABLES
    stage,           \* "start", "copying", "done" or "failed"
    tries,           \* attempts begun
    pin,             \* generation and page count that storage_info gave
    copied,          \* the pages written to the temporary file
    snapshot         \* history: the committed file when storage_info ran

backup == <<stage, tries, pin, copied, snapshot>>
allVars == <<vars, backup>>

Stages == {"start", "copying", "done", "failed"}

BackupTypeOK ==
    /\ stage \in Stages
    /\ tries \in 0..MaxTries
    /\ pin \in [gen : Gen, size : 0..MaxVfsPages]
    /\ copied \in Seq(Data)
    /\ snapshot \in Seq(Data)

BackupInit ==
    /\ Init
    /\ stage = "start"
    /\ tries = 0
    /\ pin = [gen |-> 0, size |-> 0]
    /\ copied = << >>
    /\ snapshot = << >>

-----------------------------------------------------------------------------
ViewPossible == ViewsDuringCalls \/ phase = "idle"

(* Mutant: a new attempt goes on with the file of the last one. *)
StartTryWithOldFile ==
    /\ ViewPossible
    /\ stage = "start"
    /\ tries' = tries + 1
    /\ pin' = [gen |-> meta.gen, size |-> meta.size]
    /\ copied' = IF Len(copied) < meta.size THEN copied ELSE << >>
    /\ snapshot' = IF ManifestReadable(meta) THEN CommittedFile ELSE << >>
    /\ stage' = IF meta.size = 0 THEN "failed" ELSE "copying"
    /\ UNCHANGED vars

(* storage_info, and the temporary file of a new attempt *)
StartTry ==
    /\ ViewPossible
    /\ stage = "start"
    /\ tries' = tries + 1
    /\ pin' = [gen |-> meta.gen, size |-> meta.size]
    /\ copied' = << >>
    /\ snapshot' = IF ManifestReadable(meta) THEN CommittedFile ELSE << >>
    /\ stage' = IF meta.size = 0 THEN "failed" ELSE "copying"
    /\ UNCHANGED vars

(* The client asks for the next chunk. *)
Copying ==
    /\ ViewPossible
    /\ stage = "copying"
    /\ Len(copied) < pin.size

FirstPage == Len(copied) + 1
LastPage == IF Len(copied) + ChunkPages < pin.size THEN Len(copied) + ChunkPages ELSE pin.size

(* The program knows the generation that the client names. *)
SameGeneration ==
    /\ ManifestReadable(meta)
    /\ meta.version # "none"
    /\ meta.gen = pin.gen

(* backup_chunk answers with pages. *)
Served ==
    /\ SameGeneration
    /\ LastPage <= meta.size
    /\ \A p \in FirstPage..LastPage : PageReadable(LoadedGens(meta)[p], p)

(* ensure_backup_chunk_matches: the answer repeats the size of the file, and
   the generation, which the program has compared already. *)
CopyChunk ==
    /\ Copying
    /\ Served
    /\ meta.size = pin.size
    /\ copied' = copied \o [i \in 1..(LastPage - Len(copied)) |->
                     PageContent(LoadedGens(meta)[Len(copied) + i], Len(copied) + i)]
    /\ UNCHANGED <<vars, stage, tries, pin, snapshot>>

(* Mutant: the chunk is asked for again, of the generation that is gone. *)
GenerationChangedRetry ==
    /\ Copying
    /\ ManifestReadable(meta)
    /\ meta.version # "none"
    /\ meta.gen # pin.gen
    /\ UNCHANGED <<vars, backup>>

(* Mutant: one attempt too many. *)
GenerationChangedOnceMore ==
    /\ Copying
    /\ ManifestReadable(meta)
    /\ meta.version # "none"
    /\ meta.gen # pin.gen
    /\ stage' = IF tries <= MaxTries THEN "start" ELSE "failed"
    /\ UNCHANGED <<vars, tries, pin, copied, snapshot>>

(* "backup_generation_changed": the attempt is thrown away. *)
GenerationChanged ==
    /\ Copying
    /\ ManifestReadable(meta)
    /\ meta.version # "none"
    /\ meta.gen # pin.gen
    /\ stage' = IF tries < MaxTries THEN "start" ELSE "failed"
    /\ UNCHANGED <<vars, tries, pin, copied, snapshot>>

(* Any other error ends the backup: of a request, of the local file, and an
   answer that does not match. *)
BackupFails ==
    /\ stage \in {"start", "copying"}
    /\ stage' = "failed"
    /\ UNCHANGED <<vars, tries, pin, copied, snapshot>>

(* The temporary file is complete and takes the place of the old backup. *)
FinishBackup ==
    /\ stage = "copying"
    /\ Len(copied) = pin.size
    /\ stage' = "done"
    /\ UNCHANGED <<vars, tries, pin, copied, snapshot>>

BackupStep == StartTry \/ CopyChunk \/ GenerationChanged \/ FinishBackup

BackupNext == (Next /\ UNCHANGED backup) \/ BackupStep \/ BackupFails

(* Every view is answered; the client does not rely on errors to end. *)
BackupSpec == BackupInit /\ [][BackupNext]_allVars /\ WF_allVars(BackupStep)

-----------------------------------------------------------------------------
(* A backup that succeeds is the file that was committed when it asked for  *)
(* the generation, not a mixture of that file and of what was committed     *)
(* while it was copying, although garbage collection deletes pages under    *)
(* its hands.                                                               *)
BackupIsOneFile == stage = "done" => copied = snapshot

(* A backup ends, also when every attempt meets another commit: the number  *)
(* of attempts is bounded, and views are answered whatever updates do.      *)
BackupEnds == <>(stage \in {"done", "failed"})
=============================================================================
