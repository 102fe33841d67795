------------------------------- MODULE Upgrade -------------------------------
(***************************************************************************)
(* Upgrade of the engine of a Circle and its rollback (cli/upgrade.rs).    *)
(* The operator runs one command at a time.  An upgrade reads the state    *)
(* of the Circle, saves the program it replaces and a backup, reads the    *)
(* state again, writes a manifest, submits the new program, and rewrites   *)
(* the manifest.  A rollback reads a manifest, reviews the state, reads it *)
(* again and submits the saved program.  Any command may stop anywhere, by *)
(* an error or a crash; a submitted update may be applied much later; and  *)
(* other clients may write meanwhile.                                      *)
(*                                                                         *)
(* Every write takes one generation and one sequence (module PageVfs), so  *)
(* one counter stands for both.                                            *)
(***************************************************************************)
EXTENDS Integers

CONSTANTS
    MaxCommands,     \* bound on the commands the operator runs
    MaxWrites,       \* bound on the writes of all clients
    OldSequenceIn,   \* view in which the old engine reports the owner
                     \* sequence: "storage", "auth" or "nowhere"
    Unknown          \* a counter that was not reported

ASSUME UpgradeAssumption ==
    /\ {MaxCommands, MaxWrites} \subseteq Nat \ {0}
    /\ OldSequenceIn \in {"storage", "auth", "nowhere"}
    /\ Unknown \notin Nat

Commands == 1..MaxCommands
Counter == 0..MaxWrites
Programs == {"old", "new"}

VARIABLES
    \* the Circle
    live,            \* the program that runs
    writes,          \* writes so far: generation and owner sequence
    installedAt,     \* history: writes when the live program was installed
    \* per command
    kind,            \* "none", "upgrade" or "rollback"
    update,          \* its program update: "none", "staged", "confirmed", "dropped"
    bundle,          \* the directory an upgrade writes
    \* the command that runs
    cur,             \* its number; the last command, if none runs
    pc,
    viewed,          \* views of the present snapshot answered so far
    snap,            \* the snapshots it has taken
    source,          \* a rollback's bundle
    force,           \* --force-after-writes
    smoke,           \* --write-smoke
    \* the rest
    saved,           \* program named by the local metadata
    paused           \* whether other writers pause while a command runs

circle == <<live, writes, installedAt>>
command == <<kind, cur, source, force, smoke>>
vars == <<circle, command, update, bundle, pc, viewed, snap, saved, paused>>

Snapshots == [hash : Programs, generation : Counter,
              sequence : Counter \cup {Unknown}, version : Programs]
Guards == [generation : Counter, sequence : Counter \cup {Unknown}]
Bundles == [wasm : {"none", "partial", "whole"},
            backup : Counter \cup {Unknown},
            status : {"none", "partial", "prepared", "applied", "complete"},
            to : Programs,
            guard : Guards,
            clean : {"true", "false", "unknown"},
            smoked : BOOLEAN]
NoBundle == [wasm |-> "none", backup |-> Unknown, status |-> "none", to |-> "old",
             guard |-> [generation |-> 0, sequence |-> Unknown],
             clean |-> "unknown", smoked |-> FALSE]
Snapshotting == {"before", "guard", "after", "final", "review", "recheck", "restored"}
NoSnapshots == [s \in Snapshotting |->
    [hash |-> "old", generation |-> 0, sequence |-> Unknown, version |-> "old"]]
Steps == Snapshotting \cup
    {"idle", "wasm", "backup", "manifest", "submit", "confirm", "info", "metadata",
     "complete", "smoke", "return"}

TypeOK ==
    /\ live \in Programs /\ writes \in Counter /\ installedAt \in Counter
    /\ kind \in [Commands -> {"none", "upgrade", "rollback"}]
    /\ update \in [Commands -> {"none", "staged", "confirmed", "dropped"}]
    /\ bundle \in [Commands -> Bundles]
    /\ cur \in 0..MaxCommands /\ source \in 0..MaxCommands
    /\ pc \in Steps
    /\ viewed \in 0..4
    /\ snap \in [Snapshotting -> Snapshots]
    /\ {force, smoke, paused} \subseteq BOOLEAN
    /\ saved \in Programs

Init ==
    /\ live = "old" /\ writes = 0 /\ installedAt = 0
    /\ kind = [c \in Commands |-> "none"]
    /\ update = [c \in Commands |-> "none"]
    /\ bundle = [c \in Commands |-> NoBundle]
    /\ cur = 0 /\ source = 0
    /\ pc = "idle"
    /\ viewed = 0
    /\ snap = NoSnapshots
    /\ force = FALSE /\ smoke = FALSE
    /\ saved = "old"
    /\ paused \in BOOLEAN

-----------------------------------------------------------------------------
(* Snapshots: four views, one after the other                              *)

GoTo(step) == pc' = step /\ viewed' = 0

Take(field, value) == snap' = [snap EXCEPT ![pc][field] = value]

ReportsIn(view) == view = IF live = "old" THEN OldSequenceIn ELSE "storage"

ViewProgram == viewed = 0 /\ Take("hash", live)

ViewStorage ==
    /\ viewed = 1
    /\ snap' = [snap EXCEPT ![pc].generation = writes,
                            ![pc].sequence = IF ReportsIn("storage") THEN writes ELSE Unknown]

(* A sequence that auth_info reports is preferred. *)
ViewAuth ==
    /\ viewed = 2
    /\ IF ReportsIn("auth") THEN Take("sequence", writes) ELSE UNCHANGED snap

ViewVersion == viewed = 3 /\ Take("version", live)

(* upgrade_snapshot *)
View ==
    /\ pc \in Snapshotting
    /\ ViewProgram \/ ViewStorage \/ ViewAuth \/ ViewVersion
    /\ viewed' = viewed + 1
    /\ UNCHANGED <<circle, command, update, bundle, pc, saved, paused>>

Taken(step) == pc = step /\ viewed = 4

Guard(s) == [generation |-> s.generation, sequence |-> s.sequence]

(* Mutant: the programs are compared and not the counters. *)
SameProgram(s, t) == s.hash = t.hash

(* ensure_upgrade_guard_unchanged *)
Unchanged(s, t) == Guard(s) = Guard(t)

(* clean_rollback_state *)
Clean(s, t) ==
    IF s.generation # t.generation THEN "false"
    ELSE IF Unknown \in {s.sequence, t.sequence} THEN "unknown"
    ELSE IF s.sequence # t.sequence THEN "false" ELSE "true"

-----------------------------------------------------------------------------
(* The upgrade                                                             *)

StartUpgrade ==
    /\ pc = "idle"
    /\ cur < MaxCommands
    /\ cur' = cur + 1
    /\ kind' = [kind EXCEPT ![cur + 1] = "upgrade"]
    /\ smoke' \in BOOLEAN
    /\ GoTo("before")
    /\ UNCHANGED <<circle, source, force, update, bundle, snap, saved, paused>>

(* If the engine is not current, the replaced program is recovered and its
   file begun, or the operator has allowed to go on without it. *)
Plan ==
    /\ Taken("before")
    /\ snap["before"].hash = "old"
    /\ \/ GoTo("wasm") /\ bundle' = [bundle EXCEPT ![cur].wasm = "partial"]
       \/ GoTo("backup") /\ UNCHANGED bundle
    /\ UNCHANGED <<circle, command, update, snap, saved, paused>>

SaveWasm ==
    /\ pc = "wasm"
    /\ bundle' = [bundle EXCEPT ![cur].wasm = "whole"]
    /\ GoTo("backup")
    /\ UNCHANGED <<circle, command, update, snap, saved, paused>>

(* take_upgrade_backup: one committed file (module Backup), unless the
   operator skips it *)
TakeBackup ==
    /\ pc = "backup"
    /\ \/ bundle' = [bundle EXCEPT ![cur].backup = writes]
       \/ UNCHANGED bundle
    /\ GoTo("guard")
    /\ UNCHANGED <<circle, command, update, snap, saved, paused>>

(* Mutant: the program is submitted as soon as the manifest is begun. *)
CheckGuardAndSubmit ==
    /\ Taken("guard")
    /\ Unchanged(snap["before"], snap["guard"])
    /\ bundle' = [bundle EXCEPT ![cur].status = "partial"]
    /\ GoTo("submit")
    /\ UNCHANGED <<circle, command, update, snap, saved, paused>>

CheckGuard ==
    /\ Taken("guard")
    /\ Unchanged(snap["before"], snap["guard"])
    /\ bundle' = [bundle EXCEPT ![cur].status = "partial"]
    /\ GoTo("manifest")
    /\ UNCHANGED <<circle, command, update, snap, saved, paused>>

(* prepared_upgrade_manifest_json *)
Prepare ==
    /\ pc = "manifest"
    /\ bundle' = [bundle EXCEPT ![cur].status = "prepared", ![cur].to = "new",
                                ![cur].guard = Guard(snap["guard"])]
    /\ GoTo("submit")
    /\ UNCHANGED <<circle, command, update, snap, saved, paused>>

(* Mutant: the manifest keeps the whole snapshot as its guard. *)
ManifestOfSnapshot(status, after) ==
    bundle' = [bundle EXCEPT ![cur].status = status, ![cur].to = after.hash,
                             ![cur].guard = after,
                             ![cur].clean = Clean(snap["guard"], after)]

(* upgrade_manifest_json, written by an atomic replacement *)
Manifest(status, after) ==
    bundle' = [bundle EXCEPT ![cur].status = status, ![cur].to = after.hash,
                             ![cur].guard = Guard(after),
                             ![cur].clean = Clean(snap["guard"], after)]

RecordApplied ==
    /\ Taken("after")
    /\ snap["after"].version = "new"
    /\ Manifest("applied", snap["after"])
    /\ GoTo("metadata")
    /\ UNCHANGED <<circle, command, update, snap, saved, paused>>

RecordComplete ==
    /\ pc = "complete"
    /\ Manifest("complete", snap["after"])
    /\ GoTo(IF smoke THEN "smoke" ELSE "return")
    /\ UNCHANGED <<circle, command, update, snap, saved, paused>>

(* The smoke write of the upgrade itself *)
WriteSmoke ==
    /\ pc = "smoke"
    /\ writes < MaxWrites
    /\ writes' = writes + 1
    /\ bundle' = [bundle EXCEPT ![cur].smoked = TRUE]
    /\ GoTo("final")
    /\ UNCHANGED <<live, installedAt, command, update, snap, saved, paused>>

RecordSmoke ==
    /\ Taken("final")
    /\ snap["final"].version = "new"
    /\ Manifest("complete", snap["final"])
    /\ GoTo("return")
    /\ UNCHANGED <<circle, command, update, snap, saved, paused>>

-----------------------------------------------------------------------------
(* The rollback                                                            *)

StartRollback ==
    /\ pc = "idle"
    /\ cur < MaxCommands
    /\ cur' = cur + 1
    /\ kind' = [kind EXCEPT ![cur + 1] = "rollback"]
    /\ source' \in {c \in Commands : bundle[c].status \in {"prepared", "applied", "complete"}}
    /\ force' \in BOOLEAN
    /\ GoTo("review")
    /\ UNCHANGED <<circle, smoke, update, bundle, snap, saved, paused>>

(* Mutant: the manifest says whether there have been writes. *)
WritesAfterUpgradeByFlag == bundle[source].clean = "false"

(* A counter that is not known on both sides counts as changed. *)
WritesAfterUpgrade ==
    \/ Unknown \in {snap["review"].sequence, bundle[source].guard.sequence}
    \/ Guard(snap["review"]) # bundle[source].guard

(* Mutant: whatever program runs is replaced. *)
ReviewAnyProgram ==
    /\ Taken("review")
    /\ bundle[source].wasm = "whole"
    /\ WritesAfterUpgrade => force
    /\ GoTo("recheck")
    /\ UNCHANGED <<circle, command, update, bundle, snap, saved, paused>>

(* A forced rollback takes another backup before it is confirmed; it goes
   into a file of its own. *)
Review ==
    /\ Taken("review")
    /\ snap["review"].hash = bundle[source].to
    /\ bundle[source].wasm = "whole"
    /\ WritesAfterUpgrade => force
    /\ GoTo("recheck")
    /\ UNCHANGED <<circle, command, update, bundle, snap, saved, paused>>

(* submit_rollback_if_unchanged *)
Recheck ==
    /\ Taken("recheck")
    /\ snap["recheck"].hash = snap["review"].hash
    /\ Unchanged(snap["review"], snap["recheck"])
    /\ GoTo("submit")
    /\ UNCHANGED <<circle, command, update, bundle, snap, saved, paused>>

-----------------------------------------------------------------------------
(* Program updates, of both                                                *)

Code(c) == IF kind[c] = "upgrade" THEN "new" ELSE "old"

(* The node stages the update. *)
Submit ==
    /\ pc = "submit"
    /\ update' = [update EXCEPT ![cur] = "staged"]
    /\ GoTo("confirm")
    /\ UNCHANGED <<circle, command, bundle, snap, saved, paused>>

(* wait_for_transaction; "accepted" is enough for it, and without a
   transaction hash there is nothing to wait for. *)
Confirm ==
    /\ pc = "confirm"
    /\ update[cur] # "dropped"
    /\ GoTo("info")
    /\ UNCHANGED <<circle, command, update, bundle, snap, saved, paused>>

(* wait_for_program_info *)
CheckInfo ==
    /\ pc = "info"
    /\ live = Code(cur)
    /\ GoTo(IF kind[cur] = "upgrade" THEN "after" ELSE "restored")
    /\ UNCHANGED <<circle, command, update, bundle, snap, saved, paused>>

(* save_database_metadata *)
SaveMetadata ==
    /\ pc = "metadata" \/ Taken("restored")
    /\ saved' = Code(cur)
    /\ GoTo(IF kind[cur] = "upgrade" THEN "complete" ELSE "return")
    /\ UNCHANGED <<circle, command, update, bundle, snap, paused>>

(* The command returns, or it ends early: an error, the lost answer of a
   request, a refusal, a declined prompt, a wait that runs out, a crash. *)
End ==
    /\ pc # "idle"
    /\ GoTo("idle")
    /\ snap' = NoSnapshots /\ source' = 0 /\ force' = FALSE /\ smoke' = FALSE
    /\ UNCHANGED <<circle, kind, cur, update, bundle, saved, paused>>

-----------------------------------------------------------------------------
(* The chain and the other clients                                         *)

ApplyUpdate(c) ==
    /\ update[c] = "staged"
    /\ update' = [update EXCEPT ![c] = "confirmed"]
    /\ live' = Code(c)
    /\ installedAt' = IF live = Code(c) THEN installedAt ELSE writes
    /\ UNCHANGED <<writes, command, bundle, pc, viewed, snap, saved, paused>>

DropUpdate(c) ==
    /\ update[c] = "staged"
    /\ update' = [update EXCEPT ![c] = "dropped"]
    /\ UNCHANGED <<circle, command, bundle, pc, viewed, snap, saved, paused>>

Write ==
    /\ paused => pc = "idle"
    /\ writes < MaxWrites
    /\ writes' = writes + 1
    /\ UNCHANGED <<live, installedAt, command, update, bundle, pc, viewed, snap, saved, paused>>

-----------------------------------------------------------------------------
UpgradeStep ==
    \/ StartUpgrade \/ Plan \/ SaveWasm \/ TakeBackup \/ CheckGuard
    \/ Prepare \/ RecordApplied \/ RecordComplete \/ WriteSmoke \/ RecordSmoke

RollbackStep == StartRollback \/ Review \/ Recheck

Next ==
    \/ UpgradeStep \/ RollbackStep
    \/ View \/ Submit \/ Confirm \/ CheckInfo \/ SaveMetadata \/ End
    \/ \E c \in Commands : ApplyUpdate(c) \/ DropUpdate(c)
    \/ Write

Spec == Init /\ [][Next]_vars

-----------------------------------------------------------------------------
(* Whenever the chain holds an update that an upgrade has submitted, the   *)
(* manifest of that upgrade is on disk, names the new program and a state  *)
(* to compare with, and a replaced program that was recovered is whole.    *)
RecoverableUpdate ==
    \A c \in Commands :
        kind[c] = "upgrade" /\ update[c] # "none" =>
            /\ bundle[c].status \in {"prepared", "applied", "complete"}
            /\ bundle[c].wasm # "partial"

(* The backup of an upgrade holds every write that was made until its      *)
(* manifest was prepared, and while a rollback is said to be clean, every  *)
(* write until the state it compares with was read.                        *)
BackupIsCurrent ==
    \A c \in Commands :
        /\ bundle[c].backup # Unknown
        /\ bundle[c].status = "prepared" \/ bundle[c].clean = "true"
        => bundle[c].backup = bundle[c].guard.generation

UnforcedRollback == Submit /\ kind[cur] = "rollback" /\ ~force

(* While writers pause, no rollback is submitted after a write of the      *)
(* engine it removes, unless it is forced or the upgrade itself wrote      *)
(* (write smoke), even if earlier commands stopped anywhere and their      *)
(* updates were applied late.                                              *)
PausedRollbackIsClean ==
    [][UnforcedRollback /\ paused /\ ~bundle[source].smoked => writes = installedAt]_vars

(* README.md: the smoke write "makes rollback require                      *)
(* --force-after-writes".                                                  *)
SmokeNeedsForce ==
    [][UnforcedRollback => ~bundle[source].smoked]_vars
-----------------------------------------------------------------------------
(* The inductive invariant                                                 *)

Recorded == {"prepared", "applied", "complete"}
OfUpgrade == {"before", "wasm", "backup", "guard", "manifest", "after", "metadata",
              "complete", "smoke", "final"}
OfRollback == {"review", "recheck", "restored"}
Upgrading == pc # "idle" /\ kind[cur] = "upgrade"
RollingBack == pc # "idle" /\ kind[cur] = "rollback"

(* A command that runs is an upgrade or a rollback, and has begun. *)
Running ==
    /\ pc # "idle" => cur \in Commands
    /\ pc # "idle" => kind[cur] \in {"upgrade", "rollback"}
    /\ pc \in OfUpgrade => Upgrading
    /\ pc \in OfRollback => RollingBack
    /\ RollingBack => source \in Commands

(* Nothing is submitted before its step, and nothing written before the
   first snapshot is taken. *)
NotYet ==
    \A c \in Commands :
        /\ c > cur => update[c] = "none" /\ bundle[c] = NoBundle
        /\ c = cur /\ pc = "before" => bundle[c] = NoBundle
        /\ c = cur /\ pc \in {"before", "wasm", "backup", "guard", "manifest",
                             "review", "recheck", "submit"} => update[c] = "none"

(* The bundle grows in the order of the steps. *)
BundleSoFar ==
    /\ Upgrading /\ pc # "before" => snap["before"].hash = "old"
    /\ Upgrading /\ pc \notin {"before", "wasm"} => bundle[cur].wasm # "partial"
    /\ pc \in {"before", "wasm", "backup"} => bundle[cur].backup = Unknown
    /\ pc \in {"before", "wasm", "backup", "guard", "manifest"} =>
           bundle[cur].status \in {"none", "partial"} /\ bundle[cur].clean = "unknown"
    /\ Upgrading /\ pc \notin {"before", "wasm", "backup", "guard", "manifest"} =>
           bundle[cur].status \in Recorded
    /\ pc = "final" => bundle[cur].smoked

(* What has been read lies in the past, and counters only grow. *)
ReadBefore ==
    /\ installedAt <= writes
    /\ \A s \in Snapshotting : snap[s].generation <= writes
    /\ \A c \in Commands :
           /\ bundle[c].guard.generation <= writes
           /\ bundle[c].backup # Unknown => bundle[c].backup <= writes

(* The backup lies between the two snapshots that are compared. *)
BackupBetween ==
    Upgrading /\ pc \notin {"before", "wasm", "backup"} /\ bundle[cur].backup # Unknown =>
        /\ snap["before"].generation <= bundle[cur].backup
        /\ pc = "guard" /\ viewed >= 2 => bundle[cur].backup <= snap["guard"].generation
        /\ pc # "guard" => bundle[cur].backup = snap["guard"].generation

(* A rollback goes on from the state its bundle names. *)
Reviewed ==
    /\ RollingBack => bundle[source].status \in Recorded
    /\ RollingBack /\ pc \in {"recheck", "submit"} =>
           /\ snap["review"].hash = bundle[source].to
           /\ ~force => snap["review"].generation = bundle[source].guard.generation

(* While writers pause, the state that a bundle names is not older than the
   program it names, and what a command has read stays so until another
   program is installed. *)
Paused ==
    paused =>
        /\ \A c \in Commands :
               bundle[c].status \in Recorded /\ ~bundle[c].smoked =>
                   installedAt >= bundle[c].guard.generation \/ live # bundle[c].to
        /\ Upgrading /\ pc \notin {"final", "return"} /\ (pc = "before" => viewed >= 1) =>
               live = snap["before"].hash \/ installedAt = writes
        /\ pc \in {"after", "metadata", "complete", "smoke"} => installedAt = writes
        /\ RollingBack /\ pc \in {"review", "recheck", "submit"}
           /\ (pc = "review" => viewed >= 1) =>
                   live = snap["review"].hash \/ installedAt = writes
        /\ RollingBack /\ pc \in {"review", "recheck", "submit"}
           /\ (pc = "review" => viewed >= 2) =>
                   snap["review"].generation = writes

IInv ==
    /\ TypeOK
    /\ Running
    /\ NotYet
    /\ BundleSoFar
    /\ ReadBefore
    /\ BackupBetween
    /\ Reviewed
    /\ Paused
    /\ RecoverableUpdate
    /\ BackupIsCurrent
=============================================================================
